---------------------------- MODULE SdCardProofs ----------------------------
(***************************************************************************)
\* The FAT16 volume of the SD card stays sound before every single write,
\* for every layout, every number of calls and resets, and whichever
\* writes fail.
(***************************************************************************)
EXTENDS SdCardFile, TLAPS, WellFoundedInduction, FiniteSetTheorems, SequenceTheorems

-----------------------------------------------------------------------------
\* The machine and its handles are records of these fields.

MachineFields == {"disk", "log", "left", "ok", "val", "got", "unit", "blk", "buf", "dirty",
                  "mirror", "start", "vol", "f", "d"}

IsMachine(a) == a = [x \in MachineFields |-> a[x]]

-----------------------------------------------------------------------------
\* Chains, with what they are made of: the clusters that have an owner,
\* which is a slot, the place of each in the chain of its owner, and the
\* lengths of the chains.  No cluster has two owners.

\* Where the entry of an owned cluster leads.
Leads(t, g, c) ==
  \/ IsEOC(t[c]) /\ g.rank[c] + 1 = g.len[g.own[c]]
  \/ t[c] \in g.has /\ g.own[t[c]] = g.own[c] /\ g.rank[t[c]] = g.rank[c] + 1

\* The chain of an entry is long enough for it.
Fed(e, s, v, g) ==
  IF e.first = 0 THEN e.size = 0
  ELSE e.first \in g.has /\ g.own[e.first] = s /\ g.rank[e.first] = 0
       /\ e.size <= g.len[s] * PerChain(v)

\* An entry of the file CACHE that is left when its clusters have been freed.
Hangs(e, t, v) == e.name = "CACHE" /\ e.first \in ClustersOf(v) /\ t[e.first] = 0

\* The entries of the slots in `purged' may hang.
Chains(t, dir, v, g, purged) ==
  /\ g.has \subseteq ClustersOf(v)
  /\ \A c \in g.has : /\ g.own[c] \in Slots(v)
                      /\ g.rank[c] \in Nat /\ g.rank[c] < g.len[g.own[c]]
                      /\ Leads(t, g, c)
  /\ \A c, e \in g.has : g.own[c] = g.own[e] /\ g.rank[c] = g.rank[e] => c = e
  /\ \A s \in Slots(v) : g.len[s] \in Nat
  /\ \A s \in Slots(v) : Live(dir[s]) => Fed(dir[s], s, v, g) \/ (s \in purged /\ Hangs(dir[s], t, v))

Good(disc, v, purged) ==
  Holds(disc, v) /\ \E g : Chains(TableOf(disc, v), DirOf(disc, v), v, g, purged)

-----------------------------------------------------------------------------
\* What the machine shows: the disk with the block in the cache.

Put(disc, b, content) == [x \in DOMAIN disc |-> IF x = b THEN content ELSE disc[x]]

View(a) == Put(a.disk, a.blk, a.buf)

\* The writes of log lead from contents to contents, each of them good.
Trail(from, log, to, v, purged) ==
  \E ds : /\ log \in Seq({log[i] : i \in 1 .. Len(log)})
          /\ ds[0] = from /\ ds[Len(log)] = to
          /\ \A i \in 0 .. Len(log) : Good(ds[i], v, purged)
          /\ \A i \in 1 .. Len(log) : ds[i] = Put(ds[i - 1], log[i][1], log[i][2])

\* What every function of the library keeps, whether it fails or not.
Steady(a, v, from, purged) ==
  /\ IsMachine(a) /\ Layout16(v) /\ a.vol = v
  /\ a.left \in Nat /\ a.ok \in BOOLEAN /\ a.dirty \in BOOLEAN
  /\ a.start \in Nat /\ a.start >= 2
  /\ Holds(a.disk, v) /\ Holds(View(a), v)
  /\ a.dirty => a.blk \in Table(v) \union Root(v) \union Data(v)
  /\ ~a.dirty /\ a.blk \in DOMAIN a.disk => a.buf = a.disk[a.blk]
  /\ a.mirror # 0 => /\ a.dirty /\ a.blk \in Table(v) /\ v.fatCount > 1
                     /\ a.mirror = a.blk + v.blocksPerFat
  /\ Trail(from, a.log, a.disk, v, purged)

\* The table and the directory that the machine shows.
Tab(a) == TableOf(View(a), a.vol)
Dir(a) == DirOf(View(a), a.vol)

\* A step that changes nothing but the cache, and shows the same.
SameView(a, z) == Tab(z) = Tab(a) /\ Dir(z) = Dir(a)

SameRest(a, z) ==
  z.got = a.got /\ z.unit = a.unit /\ z.start = a.start /\ z.vol = a.vol /\ z.f = a.f /\ z.d = a.d

\* A write fails if it was to fail, or if its block is not on the card.
Safe(a) == a.dirty => a.blk \in Table(a.vol) \union Root(a.vol)

Faulty(a, z) ==
  /\ a.left = 0 => z.left = 0
  /\ Safe(a) => Safe(z)
  /\ a.ok /\ Safe(a) => z.ok \/ (a.left # 0 /\ z.left = 0)

-----------------------------------------------------------------------------
\* Blocks and cells

\* What a replaced block leaves as it is.
LEMMA PutIs ==
  ASSUME NEW disc, NEW b, NEW content
  PROVE  /\ DOMAIN Put(disc, b, content) = DOMAIN disc
         /\ IsContents(Put(disc, b, content))
         /\ \A x \in DOMAIN disc : x # b => Put(disc, b, content)[x] = disc[x]
         /\ b \in DOMAIN disc => Put(disc, b, content)[b] = content
BY DEF Put, IsContents

\* One write to the card.
Wrote(a, b, content, z) ==
  /\ IsMachine(z) /\ SameRest(a, z) /\ z.val = a.val
  /\ z.blk = a.blk /\ z.buf = a.buf /\ z.dirty = a.dirty /\ z.mirror = a.mirror
  /\ z.left \in Nat /\ (a.left = 0 => z.left = 0)
  /\ \/ /\ z.ok = FALSE /\ z.disk = a.disk /\ z.log = a.log /\ z.left = 0
        /\ a.left = 1 \/ b \notin DOMAIN a.disk
     \/ /\ z.ok = a.ok /\ z.disk = Put(a.disk, b, content) /\ b \in DOMAIN a.disk
        /\ z.log = Append(a.log, <<b, content>>)

LEMMA DevWriteDoes ==
  ASSUME NEW a, IsMachine(a), IsContents(a.disk), a.left \in Nat,
         NEW b, NEW content, NEW z, z = DevWrite(a, b, content)
  PROVE  Wrote(a, b, content, z)
<1>1. CASE a.left = 1 \/ b \notin DOMAIN a.disk
  BY <1>1 DEF DevWrite, IsMachine, MachineFields, SameRest, Wrote
<1>2. CASE ~(a.left = 1 \/ b \notin DOMAIN a.disk)
  <2>1. z = [a EXCEPT !.disk[b] = content, !.log = Append(@, <<b, content>>),
                      !.left = IF @ = 0 THEN 0 ELSE @ - 1]
    BY <1>2 DEF DevWrite
  <2>2. /\ IsMachine(z) /\ SameRest(a, z) /\ z.val = a.val
        /\ z.blk = a.blk /\ z.buf = a.buf /\ z.dirty = a.dirty /\ z.mirror = a.mirror
        /\ z.left = IF a.left = 0 THEN 0 ELSE a.left - 1
        /\ z.ok = a.ok /\ z.disk = [a.disk EXCEPT ![b] = content]
        /\ z.log = Append(a.log, <<b, content>>)
    BY <2>1 DEF IsMachine, MachineFields, SameRest
  <2>3. [a.disk EXCEPT ![b] = content] = Put(a.disk, b, content)
    BY DEF Put, IsContents
  <2> QED BY <1>2, <2>2, <2>3 DEF Wrote
<1> QED BY <1>1, <1>2

\* Division by the units or the entries of a block.
LEMMA Division ==
  ASSUME NEW n \in Nat, NEW k \in Nat \ {0}
  PROVE  /\ n \div k \in Nat /\ n % k \in 0 .. k - 1
         /\ n = k * (n \div k) + (n % k)
BY SMT

LEMMA DivisionMonotone ==
  ASSUME NEW n \in Nat, NEW j \in Nat, NEW k \in Nat \ {0}, n <= j
  PROVE  n \div k <= j \div k
BY SMT

\* The parts of a volume do not overlap.
LEMMA PartsApart ==
  ASSUME NEW v, Layout16(v)
  PROVE  /\ \A b \in Table(v) : b \in Nat /\ b >= v.fatStart /\ b \notin Copy(v)
                                /\ b \notin Root(v) /\ b \notin Data(v)
         /\ \A b \in Copy(v) : b \in Nat /\ b >= v.fatStart /\ b \notin Root(v) /\ b \notin Data(v)
         /\ \A b \in Root(v) : b \in Nat /\ b >= v.fatStart /\ b \notin Data(v)
         /\ \A b \in Data(v) : b \in Nat /\ b >= v.fatStart
BY LayoutAssumption DEF Layout16, Table, Copy, Root, Data

\* Every cluster has a cell in the table, and no other cluster has it.
LEMMA CellOf ==
  ASSUME NEW v, Layout16(v), NEW c \in Nat, c <= v.clusterCount + 1
  PROVE  v.fatStart + c \div FatPerBlock \in Table(v) /\ c % FatPerBlock \in Cells
<1>1. PICK last \in Nat : last = v.clusterCount + 1
  BY DEF Layout16
<1>2. c \div FatPerBlock \in Nat /\ c % FatPerBlock \in 0 .. FatPerBlock - 1
  BY LayoutAssumption, Division, Zenon
<1>3. last \div FatPerBlock \in Nat /\ c \div FatPerBlock <= last \div FatPerBlock
  BY <1>1, LayoutAssumption, Division, DivisionMonotone, Zenon
<1>4. last \div FatPerBlock < v.blocksPerFat
  BY <1>1 DEF Layout16
<1>5. v.fatStart \in Nat /\ v.blocksPerFat \in Nat
  BY DEF Layout16
<1> QED BY <1>2, <1>3, <1>4, <1>5 DEF Table, Cells

LEMMA OwnCell ==
  ASSUME NEW c \in Nat, NEW e \in Nat,
         c \div FatPerBlock = e \div FatPerBlock, c % FatPerBlock = e % FatPerBlock
  PROVE  c = e
<1>1. /\ c = FatPerBlock * (c \div FatPerBlock) + (c % FatPerBlock)
      /\ e = FatPerBlock * (e \div FatPerBlock) + (e % FatPerBlock)
  BY LayoutAssumption, Division, Zenon
<1> QED BY <1>1, Zenon

\* The boot blocks are never written.
LEMMA PutBoot ==
  ASSUME NEW disc, NEW v, Layout16(v), Holds(disc, v), NEW b \in Nat, b >= v.fatStart,
         NEW content
  PROVE  LET z == Put(disc, b, content)
         IN  /\ IsContents(z) /\ DOMAIN z = DOMAIN disc
             /\ DOMAIN z \subseteq Nat
             /\ 0 \in DOMAIN z /\ VolumeStart(z) \in DOMAIN z /\ VolumeStart(z) < v.fatStart
             /\ LayoutOf(z) = v
             /\ Table(v) \union Copy(v) \union Root(v) \subseteq DOMAIN z
             /\ \A x \in DOMAIN disc : x # b => z[x] = disc[x]
             /\ b \in DOMAIN disc => z[b] = content
<1> DEFINE z == Put(disc, b, content)
<1>1. /\ IsContents(z) /\ DOMAIN z = DOMAIN disc
      /\ \A x \in DOMAIN disc : x # b => z[x] = disc[x]
      /\ b \in DOMAIN disc => z[b] = content
  BY PutIs
<1>2. /\ DOMAIN disc \subseteq Nat
      /\ 0 \in DOMAIN disc /\ VolumeStart(disc) \in DOMAIN disc /\ VolumeStart(disc) < v.fatStart
      /\ LayoutOf(disc) = v
      /\ Table(v) \union Copy(v) \union Root(v) \subseteq DOMAIN disc
  BY DEF Holds
<1>3. v.fatStart \in Nat /\ v.fatStart > 0
  BY DEF Layout16
<1> HIDE DEF z
<1>4. z[0] = disc[0]
  BY <1>1, <1>2, <1>3
<1>5. VolumeStart(z) = VolumeStart(disc)
  BY <1>4, Zenon DEF VolumeStart
<1>6. z[VolumeStart(z)] = disc[VolumeStart(disc)]
  BY <1>1, <1>2, <1>3, <1>5
<1>7. LayoutOf(z) = v
  BY <1>2, <1>5, <1>6, Zenon DEF LayoutOf
<1> QED BY <1>1, <1>2, <1>5, <1>7 DEF z

\* A block of the data or of the copy of the table.
LEMMA PutElsewhere ==
  ASSUME NEW disc, NEW v, Layout16(v), Holds(disc, v), NEW b \in Nat, b >= v.fatStart,
         b \notin Table(v), b \notin Root(v), NEW content
  PROVE  LET z == Put(disc, b, content)
         IN  Holds(z, v) /\ TableOf(z, v) = TableOf(disc, v) /\ DirOf(z, v) = DirOf(disc, v)
<1> DEFINE z == Put(disc, b, content)
<1>1. /\ IsContents(z) /\ DOMAIN z \subseteq Nat
      /\ 0 \in DOMAIN z /\ VolumeStart(z) \in DOMAIN z /\ VolumeStart(z) < v.fatStart
      /\ LayoutOf(z) = v
      /\ Table(v) \union Copy(v) \union Root(v) \subseteq DOMAIN z
      /\ \A x \in DOMAIN disc : x # b => z[x] = disc[x]
  BY PutBoot
<1>2. /\ Table(v) \union Copy(v) \union Root(v) \subseteq DOMAIN disc
      /\ \A x \in Table(v) : disc[x] \in [Cells -> Nat]
      /\ \A x \in Root(v) : disc[x] \in [Units -> DirEntry]
  BY DEF Holds
<1> HIDE DEF z
<1>3. \A x \in Table(v) \union Root(v) : z[x] = disc[x]
  BY <1>1, <1>2
<1>4. Holds(z, v)
  BY <1>1, <1>2, <1>3 DEF Holds
<1>5. TableOf(z, v) = TableOf(disc, v)
  <2>1. \A c \in ClustersOf(v) : v.fatStart + c \div FatPerBlock \in Table(v)
    BY CellOf DEF ClustersOf, Layout16
  <2> QED BY <1>3, <2>1 DEF TableOf
<1>6. DirOf(z, v) = DirOf(disc, v)
  BY <1>3 DEF DirOf, Slots
<1> QED BY <1>4, <1>5, <1>6 DEF z

\* A block of the table.
LEMMA PutTable ==
  ASSUME NEW disc, NEW v, Layout16(v), Holds(disc, v), NEW b \in Table(v),
         NEW content \in [Cells -> Nat]
  PROVE  LET z == Put(disc, b, content) IN Holds(z, v) /\ DirOf(z, v) = DirOf(disc, v)
<1> DEFINE z == Put(disc, b, content)
<1>1. b \in Nat /\ b >= v.fatStart /\ b \notin Root(v)
  BY PartsApart
<1>2. /\ IsContents(z) /\ DOMAIN z \subseteq Nat
      /\ 0 \in DOMAIN z /\ VolumeStart(z) \in DOMAIN z /\ VolumeStart(z) < v.fatStart
      /\ LayoutOf(z) = v
      /\ Table(v) \union Copy(v) \union Root(v) \subseteq DOMAIN z
      /\ \A x \in DOMAIN disc : x # b => z[x] = disc[x]
      /\ b \in DOMAIN disc => z[b] = content
  BY <1>1, PutBoot
<1>3. /\ Table(v) \union Copy(v) \union Root(v) \subseteq DOMAIN disc
      /\ \A x \in Table(v) : disc[x] \in [Cells -> Nat]
      /\ \A x \in Root(v) : disc[x] \in [Units -> DirEntry]
  BY DEF Holds
<1> HIDE DEF z
<1>4. /\ \A x \in Root(v) : z[x] = disc[x]
      /\ \A x \in Table(v) : z[x] = IF x = b THEN content ELSE disc[x]
  BY <1>1, <1>2, <1>3
<1>5. Holds(z, v)
  BY <1>2, <1>3, <1>4 DEF Holds
<1>6. DirOf(z, v) = DirOf(disc, v)
  BY <1>4 DEF DirOf, Slots
<1> QED BY <1>5, <1>6 DEF z

\* A block of the root directory.
LEMMA PutRoot ==
  ASSUME NEW disc, NEW v, Layout16(v), Holds(disc, v), NEW b \in Root(v),
         NEW content \in [Units -> DirEntry]
  PROVE  LET z == Put(disc, b, content) IN Holds(z, v) /\ TableOf(z, v) = TableOf(disc, v)
<1> DEFINE z == Put(disc, b, content)
<1>1. b \in Nat /\ b >= v.fatStart /\ b \notin Table(v)
  BY PartsApart
<1>2. /\ IsContents(z) /\ DOMAIN z \subseteq Nat
      /\ 0 \in DOMAIN z /\ VolumeStart(z) \in DOMAIN z /\ VolumeStart(z) < v.fatStart
      /\ LayoutOf(z) = v
      /\ Table(v) \union Copy(v) \union Root(v) \subseteq DOMAIN z
      /\ \A x \in DOMAIN disc : x # b => z[x] = disc[x]
      /\ b \in DOMAIN disc => z[b] = content
  BY <1>1, PutBoot
<1>3. /\ Table(v) \union Copy(v) \union Root(v) \subseteq DOMAIN disc
      /\ \A x \in Table(v) : disc[x] \in [Cells -> Nat]
      /\ \A x \in Root(v) : disc[x] \in [Units -> DirEntry]
  BY DEF Holds
<1> HIDE DEF z
<1>4. /\ \A x \in Table(v) : z[x] = disc[x]
      /\ \A x \in Root(v) : z[x] = IF x = b THEN content ELSE disc[x]
  BY <1>1, <1>2, <1>3
<1>5. Holds(z, v)
  BY <1>2, <1>3, <1>4 DEF Holds
<1>6. TableOf(z, v) = TableOf(disc, v)
  <2>1. \A c \in ClustersOf(v) : v.fatStart + c \div FatPerBlock \in Table(v)
    BY CellOf DEF ClustersOf, Layout16
  <2> QED BY <1>4, <2>1 DEF TableOf
<1> QED BY <1>5, <1>6 DEF z

\* Both are functions of the right kind.
LEMMA HoldsTypes ==
  ASSUME NEW disc, NEW v, Layout16(v), Holds(disc, v)
  PROVE  TableOf(disc, v) \in [ClustersOf(v) -> Nat] /\ DirOf(disc, v) \in [Slots(v) -> DirEntry]
<1>1. /\ \A x \in Table(v) : disc[x] \in [Cells -> Nat]
      /\ \A x \in Root(v) : disc[x] \in [Units -> DirEntry]
  BY DEF Holds
<1>2. \A c \in ClustersOf(v) : v.fatStart + c \div FatPerBlock \in Table(v)
                               /\ c % FatPerBlock \in Cells
  BY CellOf DEF ClustersOf, Layout16
<1>3. TableOf(disc, v) \in [ClustersOf(v) -> Nat]
  BY <1>1, <1>2 DEF TableOf
<1>4. DirOf(disc, v) \in [Slots(v) -> DirEntry]
  BY <1>1 DEF DirOf, Slots
<1> QED BY <1>3, <1>4

\* One cell is one entry of the table.
LEMMA CellChanges ==
  ASSUME NEW disc, NEW v, Layout16(v), Holds(disc, v), NEW c \in ClustersOf(v), NEW x \in Nat
  PROVE  LET b == v.fatStart + c \div FatPerBlock
             z == Put(disc, b, [disc[b] EXCEPT ![c % FatPerBlock] = x])
         IN  /\ b \in Table(v) /\ [disc[b] EXCEPT ![c % FatPerBlock] = x] \in [Cells -> Nat]
             /\ Holds(z, v) /\ DirOf(z, v) = DirOf(disc, v)
             /\ TableOf(z, v) = [TableOf(disc, v) EXCEPT ![c] = x]
<1> DEFINE b == v.fatStart + c \div FatPerBlock
           content == [disc[b] EXCEPT ![c % FatPerBlock] = x]
           z == Put(disc, b, content)
<1>1. b \in Table(v) /\ c % FatPerBlock \in Cells /\ c \in Nat
  BY CellOf DEF ClustersOf, Layout16
<1>2. /\ \A y \in Table(v) : disc[y] \in [Cells -> Nat]
      /\ Table(v) \subseteq DOMAIN disc
  BY DEF Holds
<1>3. content \in [Cells -> Nat]
  BY <1>1, <1>2
<1>4. content[c % FatPerBlock] = x
      /\ \A i \in Cells : i # c % FatPerBlock => content[i] = disc[b][i]
  BY <1>1, <1>2
<1>5. /\ \A y \in DOMAIN disc : y # b => z[y] = disc[y]
      /\ z[b] = content
  BY <1>1, <1>2, PutIs
<1> HIDE DEF content
<1>6. Holds(z, v) /\ DirOf(z, v) = DirOf(disc, v)
  BY <1>1, <1>3, PutTable
<1> HIDE DEF z
<1>7. \A e \in ClustersOf(v) :
        z[v.fatStart + e \div FatPerBlock][e % FatPerBlock]
          = IF e = c THEN x ELSE disc[v.fatStart + e \div FatPerBlock][e % FatPerBlock]
  <2> SUFFICES ASSUME NEW e \in ClustersOf(v)
               PROVE  z[v.fatStart + e \div FatPerBlock][e % FatPerBlock]
                        = IF e = c THEN x ELSE disc[v.fatStart + e \div FatPerBlock][e % FatPerBlock]
    OBVIOUS
  <2>1. v.fatStart + e \div FatPerBlock \in Table(v) /\ e % FatPerBlock \in Cells /\ e \in Nat
    BY CellOf DEF ClustersOf, Layout16
  <2>2. CASE e = c
    BY <1>4, <1>5, <2>2
  <2>3. CASE e # c /\ v.fatStart + e \div FatPerBlock = b
    <3>1. e \div FatPerBlock \in Nat /\ c \div FatPerBlock \in Nat /\ v.fatStart \in Nat
      BY <1>1, <2>1, LayoutAssumption, Division DEF Layout16
    <3>2. e \div FatPerBlock = c \div FatPerBlock
      BY <2>3, <3>1
    <3>3. e % FatPerBlock # c % FatPerBlock
      BY <1>1, <2>1, <2>3, <3>2, OwnCell
    <3> QED BY <1>4, <1>5, <2>1, <2>3, <3>3
  <2>4. CASE e # c /\ v.fatStart + e \div FatPerBlock # b
    BY <1>2, <1>5, <2>1, <2>4
  <2> QED BY <2>2, <2>3, <2>4
<1>8. TableOf(z, v) = [TableOf(disc, v) EXCEPT ![c] = x]
  BY <1>7 DEF TableOf
<1> QED BY <1>1, <1>3, <1>6, <1>8 DEF content, z

\* One unit of the root directory is one slot.
LEMMA UnitChanges ==
  ASSUME NEW disc, NEW v, Layout16(v), Holds(disc, v), NEW b \in Root(v), NEW i \in Units,
         NEW e \in DirEntry
  PROVE  LET z == Put(disc, b, [disc[b] EXCEPT ![i] = e])
         IN  /\ [disc[b] EXCEPT ![i] = e] \in [Units -> DirEntry]
             /\ Holds(z, v) /\ TableOf(z, v) = TableOf(disc, v)
             /\ DirOf(z, v) = [DirOf(disc, v) EXCEPT ![<<b, i>>] = e]
<1> DEFINE content == [disc[b] EXCEPT ![i] = e]
           z == Put(disc, b, content)
<1>1. disc[b] \in [Units -> DirEntry] /\ Root(v) \subseteq DOMAIN disc
  BY DEF Holds
<1>2. content \in [Units -> DirEntry]
  BY <1>1
<1>3. \A u \in Units : content[u] = IF u = i THEN e ELSE disc[b][u]
  BY <1>1
<1>4. /\ \A y \in DOMAIN disc : y # b => z[y] = disc[y]
      /\ z[b] = content
  BY <1>1, PutIs
<1> HIDE DEF content
<1>5. Holds(z, v) /\ TableOf(z, v) = TableOf(disc, v)
  BY <1>2, PutRoot
<1> HIDE DEF z
<1>6. \A s \in Slots(v) : z[s[1]][s[2]] = IF s = <<b, i>> THEN e ELSE disc[s[1]][s[2]]
  BY <1>1, <1>3, <1>4 DEF Slots
<1>7. DirOf(z, v) = [DirOf(disc, v) EXCEPT ![<<b, i>>] = e]
  BY <1>6 DEF DirOf
<1> QED BY <1>2, <1>5, <1>7 DEF content, z

-----------------------------------------------------------------------------
\* The writes on the way

LEMMA TrailStarts ==
  ASSUME NEW disc, NEW v, NEW purged, Good(disc, v, purged)
  PROVE  Trail(disc, <<>>, disc, v, purged)
<1> DEFINE ds == [i \in {0} |-> disc]
<1>1. Len(<<>>) = 0 /\ <<>> \in Seq({<<>>[i] : i \in 1 .. Len(<<>>)})
  OBVIOUS
<1>2. ds[0] = disc
  OBVIOUS
<1> HIDE DEF ds
<1> QED BY <1>1, <1>2 DEF Trail

LEMMA TrailGrows ==
  ASSUME NEW from, NEW log, NEW to, NEW v, NEW purged, Trail(from, log, to, v, purged),
         NEW b, NEW content, Good(Put(to, b, content), v, purged)
  PROVE  Trail(from, Append(log, <<b, content>>), Put(to, b, content), v, purged)
<1>1. PICK ds : /\ log \in Seq({log[i] : i \in 1 .. Len(log)})
                /\ ds[0] = from /\ ds[Len(log)] = to
                /\ \A i \in 0 .. Len(log) : Good(ds[i], v, purged)
                /\ \A i \in 1 .. Len(log) : ds[i] = Put(ds[i - 1], log[i][1], log[i][2])
  BY DEF Trail
<1> DEFINE S == {log[i] : i \in 1 .. Len(log)} \union {<<b, content>>}
           new == Append(log, <<b, content>>)
<1>2. PICK n \in Nat : n = Len(log)
  BY <1>1, LenProperties
<1> DEFINE es == [i \in 0 .. n + 1 |-> IF i = n + 1 THEN Put(to, b, content) ELSE ds[i]]
<1>3. log \in Seq(S) /\ <<b, content>> \in S
  BY <1>1, <1>2, SeqMonotonic
<1>4. /\ new \in Seq(S) /\ Len(new) = n + 1
      /\ \A i \in 1 .. n : new[i] = log[i]
      /\ new[n + 1] = <<b, content>>
  BY <1>2, <1>3, AppendProperties
<1> HIDE DEF new, S
<1>5. new \in Seq({new[i] : i \in 1 .. Len(new)})
  BY <1>4, ElementOfSeq, IsASeq DEF S
<1>6. /\ es[0] = from /\ es[n + 1] = Put(to, b, content)
      /\ \A i \in 0 .. n : es[i] = ds[i]
  BY <1>1, <1>2
<1> HIDE DEF es
<1>7. \A i \in 0 .. n + 1 : Good(es[i], v, purged)
  <2> TAKE i \in 0 .. n + 1
  <2>1. CASE i = n + 1
    BY <1>6, <2>1
  <2>2. CASE i # n + 1
    <3>1. i \in 0 .. n
      BY <2>2
    <3> QED BY <1>1, <1>2, <1>6, <3>1
  <2> QED BY <2>1, <2>2
<1>8. \A i \in 1 .. n + 1 : es[i] = Put(es[i - 1], new[i][1], new[i][2])
  <2> TAKE i \in 1 .. n + 1
  <2>1. CASE i = n + 1
    <3>1. new[i][1] = b /\ new[i][2] = content
      BY <1>4, <2>1
    <3>2. i - 1 = n /\ n \in 0 .. n
      BY <2>1
    <3>3. es[i - 1] = to
      BY <1>1, <1>2, <1>6, <3>2
    <3> QED BY <1>6, <2>1, <3>1, <3>3
  <2>2. CASE i # n + 1
    <3>1. i \in 1 .. n /\ i - 1 \in 0 .. n /\ i \in 0 .. n
      BY <1>2, <2>2
    <3>2. ds[i] = Put(ds[i - 1], log[i][1], log[i][2])
      BY <1>1, <1>2, <3>1
    <3>3. es[i] = ds[i] /\ es[i - 1] = ds[i - 1] /\ new[i] = log[i]
      BY <1>4, <1>6, <3>1
    <3> QED BY <3>2, <3>3
  <2> QED BY <2>1, <2>2
<1> QED BY <1>4, <1>5, <1>6, <1>7, <1>8 DEF Trail, new

LEMMA TrailEnds ==
  ASSUME NEW from, NEW log, NEW to, NEW v, NEW purged, Trail(from, log, to, v, purged)
  PROVE  Good(to, v, purged)
<1>1. PICK ds : /\ log \in Seq({log[i] : i \in 1 .. Len(log)})
                /\ ds[Len(log)] = to
                /\ \A i \in 0 .. Len(log) : Good(ds[i], v, purged)
  BY DEF Trail
<1>2. Len(log) \in Nat
  BY <1>1, LenProperties
<1> QED BY <1>1, <1>2

-----------------------------------------------------------------------------
\* The cache of one block

LEMMA GoodMeans ==
  ASSUME NEW disc, NEW v, NEW purged, Good(disc, v, purged)
  PROVE  Holds(disc, v)
BY DEF Good

\* Contents with the same table and the same directory are as good.
LEMMA GoodSame ==
  ASSUME NEW disc, NEW other, NEW v, NEW purged, Good(disc, v, purged), Holds(other, v),
         TableOf(other, v) = TableOf(disc, v), DirOf(other, v) = DirOf(disc, v)
  PROVE  Good(other, v, purged)
BY DEF Good

\* The block in the cache is written.
LEMMA OneWritten ==
  ASSUME NEW a, NEW v, NEW from, NEW purged, Steady(a, v, from, purged),
         Good(View(a), v, purged), a.ok, a.dirty,
         NEW z, z = DevWrite(a, a.blk, a.buf)
  PROVE  /\ Steady(z, v, from, purged) /\ View(z) = View(a)
         /\ SameRest(a, z) /\ z.val = a.val
         /\ z.blk = a.blk /\ z.buf = a.buf /\ z.dirty /\ z.mirror = a.mirror
         /\ a.left = 0 => z.left = 0
         /\ ~z.ok => z.left = 0 /\ (a.left # 0 \/ a.blk \notin DOMAIN a.disk)
         /\ z.ok => z.disk = View(a)
<1>1. /\ IsMachine(a) /\ IsContents(a.disk) /\ a.left \in Nat
      /\ Layout16(v) /\ a.vol = v
  BY DEF Steady, Holds
<1>2. /\ IsMachine(z) /\ SameRest(a, z) /\ z.val = a.val
      /\ z.blk = a.blk /\ z.buf = a.buf /\ z.dirty = a.dirty /\ z.mirror = a.mirror
      /\ z.left \in Nat /\ (a.left = 0 => z.left = 0)
      /\ \/ /\ z.ok = FALSE /\ z.disk = a.disk /\ z.log = a.log /\ z.left = 0
            /\ a.left = 1 \/ a.blk \notin DOMAIN a.disk
         \/ /\ z.ok = a.ok /\ z.disk = Put(a.disk, a.blk, a.buf) /\ a.blk \in DOMAIN a.disk
            /\ z.log = Append(a.log, <<a.blk, a.buf>>)
  <2>1. Wrote(a, a.blk, a.buf, z)
    BY <1>1, DevWriteDoes, Zenon
  <2> QED BY <2>1 DEF Wrote
<1>3. CASE /\ z.ok = FALSE /\ z.disk = a.disk /\ z.log = a.log /\ z.left = 0
           /\ a.left = 1 \/ a.blk \notin DOMAIN a.disk
  <2>1. View(z) = View(a)
    BY <1>2, <1>3 DEF View
  <2>2. Steady(z, v, from, purged)
    BY <1>2, <1>3, <2>1 DEF Steady, SameRest
  <2> QED BY <1>2, <1>3, <2>1, <2>2
<1>4. CASE /\ z.ok = a.ok /\ z.disk = Put(a.disk, a.blk, a.buf) /\ a.blk \in DOMAIN a.disk
           /\ z.log = Append(a.log, <<a.blk, a.buf>>)
  <2>1. z.disk = View(a)
    BY <1>4 DEF View
  <2>2. View(z) = View(a)
    BY <1>2, <1>4 DEF View, Put
  <2>3. Trail(from, z.log, z.disk, v, purged)
    <3>1. Trail(from, a.log, a.disk, v, purged)
      BY DEF Steady
    <3> QED BY <1>4, <2>1, <3>1, TrailGrows, Zenon DEF View
  <2>4. Steady(z, v, from, purged)
    BY <1>2, <1>4, <2>1, <2>2, <2>3 DEF Steady, SameRest
  <2> QED BY <1>2, <1>4, <2>1, <2>2, <2>4
<1> QED BY <1>2, <1>3, <1>4

\* And then the block of the second table.
LEMMA CopyWritten ==
  ASSUME NEW a, NEW v, NEW from, NEW purged, Steady(a, v, from, purged),
         Good(View(a), v, purged), a.ok, a.dirty, a.mirror # 0, a.disk = View(a),
         NEW z, z = DevWrite(a, a.mirror, a.buf)
  PROVE  /\ Steady(z, v, from, purged) /\ SameView(a, z)
         /\ SameRest(a, z) /\ z.val = a.val
         /\ z.blk = a.blk /\ z.buf = a.buf /\ z.dirty /\ z.mirror = a.mirror
         /\ a.left = 0 => z.left = 0
         /\ ~z.ok => z.left = 0 /\ a.left # 0
         /\ z.blk \in DOMAIN z.disk => z.disk[z.blk] = z.buf
<1>1. /\ IsMachine(a) /\ IsContents(a.disk) /\ a.left \in Nat
      /\ Layout16(v) /\ a.vol = v /\ Holds(a.disk, v) /\ Copy(v) \subseteq DOMAIN a.disk
      /\ a.blk \in Table(v) /\ v.fatCount > 1 /\ a.mirror = a.blk + v.blocksPerFat
      /\ a.ok \in BOOLEAN
  BY DEF Steady, Holds
<1>2. /\ IsMachine(z) /\ SameRest(a, z) /\ z.val = a.val
      /\ z.blk = a.blk /\ z.buf = a.buf /\ z.dirty = a.dirty /\ z.mirror = a.mirror
      /\ z.left \in Nat /\ (a.left = 0 => z.left = 0)
      /\ \/ /\ z.ok = FALSE /\ z.disk = a.disk /\ z.log = a.log /\ z.left = 0
            /\ a.left = 1 \/ a.mirror \notin DOMAIN a.disk
         \/ /\ z.ok = a.ok /\ z.disk = Put(a.disk, a.mirror, a.buf) /\ a.mirror \in DOMAIN a.disk
            /\ z.log = Append(a.log, <<a.mirror, a.buf>>)
  <2>1. Wrote(a, a.mirror, a.buf, z)
    BY <1>1, DevWriteDoes, Zenon
  <2> QED BY <2>1 DEF Wrote
<1>3. a.mirror \in Copy(v)
  BY <1>1 DEF Copy
<1>4. /\ a.mirror \in Nat /\ a.mirror >= v.fatStart /\ a.mirror \notin Table(v)
      /\ a.mirror \notin Root(v) /\ a.mirror \in DOMAIN a.disk /\ a.blk # a.mirror
  BY <1>1, <1>3, PartsApart
<1>5. a.blk \in DOMAIN a.disk => a.disk[a.blk] = a.buf
  BY DEF View, Put
<1>6. CASE z.ok = FALSE /\ z.disk = a.disk /\ z.log = a.log /\ z.left = 0 /\ a.left = 1
  <2>1. View(z) = View(a)
    BY <1>2, <1>6 DEF View
  <2>2. Steady(z, v, from, purged)
    BY <1>2, <1>6, <2>1 DEF Steady, SameRest
  <2> QED BY <1>2, <1>5, <1>6, <2>1, <2>2 DEF SameView, Tab, Dir, SameRest
<1>7. CASE /\ z.ok = a.ok /\ z.disk = Put(a.disk, a.mirror, a.buf)
           /\ z.log = Append(a.log, <<a.mirror, a.buf>>)
  <2>1. /\ Holds(z.disk, v) /\ TableOf(z.disk, v) = TableOf(a.disk, v)
        /\ DirOf(z.disk, v) = DirOf(a.disk, v)
    BY <1>1, <1>4, <1>7, PutElsewhere
  <2>2. z.blk \in DOMAIN z.disk => z.disk[z.blk] = z.buf
    BY <1>2, <1>4, <1>5, <1>7 DEF Put
  <2>3. View(z) = z.disk
    <3>1. IsContents(z.disk)
      BY <2>1 DEF Holds
    <3> QED BY <2>2, <3>1 DEF View, Put, IsContents
  <2>4. Good(z.disk, v, purged)
    BY <2>1, GoodSame, Zenon
  <2>5. Trail(from, z.log, z.disk, v, purged)
    <3>1. Trail(from, a.log, a.disk, v, purged)
      BY DEF Steady
    <3> QED BY <1>7, <2>4, <3>1, TrailGrows, Zenon
  <2>6. Steady(z, v, from, purged)
    BY <1>1, <1>2, <1>7, <2>1, <2>3, <2>5 DEF Steady, SameRest
  <2>7. SameView(a, z)
    BY <1>1, <1>2, <2>1, <2>3 DEF SameView, Tab, Dir, SameRest
  <2> QED BY <1>2, <1>7, <2>2, <2>6, <2>7
<1> QED BY <1>2, <1>4, <1>6, <1>7

\* The machine z is a with other contents of the cache, or with a failure.
Kept(a, z, v, from, purged) ==
  /\ Steady(z, v, from, purged) /\ SameView(a, z) /\ SameRest(a, z)
  /\ z.ok => a.ok
  /\ a.left = 0 => z.left = 0

LEMMA KeptGood ==
  ASSUME NEW a, NEW z, NEW v, NEW from, NEW purged, Steady(a, v, from, purged),
         Good(View(a), v, purged), Kept(a, z, v, from, purged)
  PROVE  Good(View(z), v, purged)
<1>1. /\ Holds(View(z), v) /\ a.vol = v /\ z.vol = v
      /\ TableOf(View(z), v) = TableOf(View(a), v) /\ DirOf(View(z), v) = DirOf(View(a), v)
  BY DEF Kept, Steady, SameView, Tab, Dir
<1> QED BY <1>1, GoodSame, Zenon

LEMMA KeptSelf ==
  ASSUME NEW a, NEW v, NEW from, NEW purged, Steady(a, v, from, purged), a.ok
  PROVE  Kept(a, a, v, from, purged)
BY DEF Kept, SameView, SameRest

LEMMA KeptFailed ==
  ASSUME NEW a, NEW v, NEW from, NEW purged, Steady(a, v, from, purged), ~a.ok
  PROVE  Kept(a, a, v, from, purged)
BY DEF Kept, SameView, SameRest

LEMMA KeptOn ==
  ASSUME NEW a, NEW y, NEW z, NEW v, NEW from, NEW purged,
         Kept(a, y, v, from, purged), Kept(y, z, v, from, purged)
  PROVE  Kept(a, z, v, from, purged)
BY DEF Kept, SameView, SameRest

LEMMA FaultyOn ==
  ASSUME NEW a, NEW y, NEW z, Faulty(a, y), Faulty(y, z), z.ok => y.ok
  PROVE  Faulty(a, z)
BY DEF Faulty

Flushed(a, z, v, from, purged) ==
  /\ Kept(a, z, v, from, purged) /\ Faulty(a, z)
  /\ z.val = a.val /\ z.blk = a.blk /\ z.buf = a.buf
  /\ z.ok => ~z.dirty
  /\ ~a.ok \/ ~a.dirty => z = a

\* A dirty block is written, and the copy of the table follows it.
LEMMA CacheFlushDoes ==
  ASSUME NEW a, NEW v, NEW from, NEW purged, Steady(a, v, from, purged),
         Good(View(a), v, purged), NEW z, z = CacheFlush(a)
  PROVE  Flushed(a, z, v, from, purged)
<1>1. CASE ~a.ok \/ ~a.dirty
  <2>1. z = a
    BY <1>1 DEF CacheFlush
  <2> QED BY <1>1, <2>1, KeptSelf, KeptFailed DEF Flushed, Faulty
<1>2. CASE a.ok /\ a.dirty
  <2> DEFINE w == DevWrite(a, a.blk, a.buf)
             x == Mirrored(w)
  <2>0. z = Cleaned(x)
    BY <1>2 DEF CacheFlush
  <2>1. /\ Steady(w, v, from, purged) /\ View(w) = View(a)
        /\ SameRest(a, w) /\ w.val = a.val
        /\ w.blk = a.blk /\ w.buf = a.buf /\ w.dirty /\ w.mirror = a.mirror
        /\ a.left = 0 => w.left = 0
        /\ ~w.ok => w.left = 0 /\ (a.left # 0 \/ a.blk \notin DOMAIN a.disk)
        /\ w.ok => w.disk = View(a)
    BY <1>2, OneWritten
  <2> HIDE DEF w
  <2>2. Safe(a) => a.blk \in DOMAIN a.disk
    BY <1>2 DEF Safe, Steady, Holds
  <2>3. CASE ~w.ok
    <3>1. x = w
      BY <2>3 DEF Mirrored
    <3>2. z = w
      BY <2>0, <2>3, <3>1 DEF Cleaned
    <3>3. SameView(a, z) /\ SameRest(a, z) /\ Steady(z, v, from, purged)
      BY <2>1, <3>2 DEF SameView, Tab, Dir, SameRest
    <3>4. Faulty(a, z)
      BY <1>2, <2>1, <2>2, <2>3, <3>2 DEF Faulty, Safe, SameRest
    <3> QED BY <1>2, <2>1, <2>3, <3>2, <3>3, <3>4 DEF Flushed, Kept, Faulty
  <2>4. CASE w.ok
    <3>1. Good(View(w), v, purged) /\ w.disk = View(w)
      BY <2>1, <2>4
    <3>2. /\ Steady(x, v, from, purged) /\ SameView(a, x) /\ SameRest(a, x) /\ x.val = a.val
          /\ x.blk = a.blk /\ x.buf = a.buf /\ x.dirty /\ x.mirror = a.mirror
          /\ a.left = 0 => x.left = 0
          /\ ~x.ok => x.left = 0 /\ a.left # 0
          /\ x.blk \in DOMAIN x.disk => x.disk[x.blk] = x.buf
      <4>1. CASE w.mirror = 0
        <5>1. x = w
          BY <4>1 DEF Mirrored
        <5>2. x.blk \in DOMAIN x.disk => x.disk[x.blk] = x.buf
          BY <2>1, <3>1, <5>1 DEF View, Put
        <5>3. SameView(a, x)
          BY <2>1, <5>1 DEF SameView, Tab, Dir, SameRest
        <5> QED BY <2>1, <2>4, <5>1, <5>2, <5>3
      <4>2. CASE w.mirror # 0
        <5>1. x = DevWrite(w, w.mirror, w.buf)
          BY <2>4, <4>2 DEF Mirrored
        <5> HIDE DEF x
        <5>2. /\ Steady(x, v, from, purged) /\ SameView(w, x)
              /\ SameRest(w, x) /\ x.val = w.val
              /\ x.blk = w.blk /\ x.buf = w.buf /\ x.dirty /\ x.mirror = w.mirror
              /\ w.left = 0 => x.left = 0
              /\ ~x.ok => x.left = 0 /\ w.left # 0
              /\ x.blk \in DOMAIN x.disk => x.disk[x.blk] = x.buf
          BY <2>1, <2>4, <3>1, <4>2, <5>1, CopyWritten
        <5>3. SameView(a, x) /\ SameRest(a, x)
          BY <2>1, <5>2 DEF SameView, Tab, Dir, SameRest
        <5> QED BY <2>1, <5>2, <5>3
      <4> QED BY <4>1, <4>2
    <3> HIDE DEF x
    <3>3. CASE ~x.ok
      <4>1. z = x
        BY <2>0, <3>3 DEF Cleaned
      <4>2. Faulty(a, z)
        BY <1>2, <3>2, <3>3, <4>1 DEF Faulty, Safe, SameRest
      <4> QED BY <1>2, <3>2, <3>3, <4>1, <4>2 DEF Flushed, Kept, Faulty
    <3>4. CASE x.ok
      <4>1. z = [x EXCEPT !.dirty = FALSE, !.mirror = 0]
        BY <2>0, <3>4 DEF Cleaned
      <4>2. IsMachine(x) /\ x.ok = TRUE
        BY <3>2, <3>4 DEF Steady
      <4>3. /\ IsMachine(z) /\ SameRest(x, z) /\ z.val = x.val /\ z.disk = x.disk /\ z.log = x.log
            /\ z.left = x.left /\ z.ok = TRUE /\ z.blk = x.blk /\ z.buf = x.buf
            /\ z.dirty = FALSE /\ z.mirror = 0
        BY <4>1, <4>2 DEF IsMachine, MachineFields, SameRest
      <4>4. View(z) = View(x)
        BY <4>3 DEF View
      <4>5. Steady(z, v, from, purged)
        BY <3>2, <4>3, <4>4 DEF Steady, SameRest
      <4>6. SameView(a, z) /\ SameRest(a, z)
        BY <3>2, <4>3, <4>4 DEF SameView, Tab, Dir, SameRest
      <4>7. Faulty(a, z)
        BY <1>2, <3>2, <4>3 DEF Faulty, Safe
      <4> QED BY <1>2, <3>2, <4>3, <4>5, <4>6, <4>7 DEF Flushed, Kept, Faulty
    <3> QED BY <3>3, <3>4
  <2> QED BY <2>3, <2>4
<1>3. a.ok \in BOOLEAN /\ a.dirty \in BOOLEAN
  BY DEF Steady
<1> QED BY <1>1, <1>2, <1>3

\* Nothing new is to be written.
StillDirty(a, z) == z.dirty => a.dirty /\ z.blk = a.blk

\* Block b is in the cache, unless z has failed.
Cached(a, z, b, forWrite, v, from, purged) ==
  /\ Kept(a, z, v, from, purged) /\ z.val = a.val
  /\ b \in Table(v) \union Root(v) => Faulty(a, z)
  /\ z.ok => z.blk = b /\ (forWrite => z.dirty)
  /\ z.ok /\ a.blk # b => z.dirty = forWrite
  /\ z.ok /\ ~a.dirty => z.dirty = forWrite
  /\ a.ok /\ ~a.dirty /\ b \in DOMAIN a.disk => z.ok
  /\ ~a.dirty => (z.ok \/ ~z.dirty)
  /\ ~a.ok => z = a
  /\ ~forWrite => StillDirty(a, z)

\* A block is fetched when the one in the cache has been written.
LEMMA CacheRawBlockDoes ==
  ASSUME NEW a, NEW v, NEW from, NEW purged, Steady(a, v, from, purged),
         Good(View(a), v, purged), NEW b, NEW forWrite \in BOOLEAN,
         forWrite => b \in Root(v) \union Data(v),
         NEW z, z = CacheRawBlock(a, b, forWrite)
  PROVE  Cached(a, z, b, forWrite, v, from, purged)
<1>0. a.ok \in BOOLEAN /\ a.dirty \in BOOLEAN /\ IsMachine(a) /\ a.vol = v
  BY DEF Steady
<1>1. CASE ~a.ok
  <2>1. z = a
    BY <1>1 DEF CacheRawBlock
  <2>2. Kept(a, a, v, from, purged) /\ Faulty(a, a)
    BY <1>1, KeptFailed DEF Faulty
  <2> QED BY <1>1, <2>1, <2>2 DEF Cached, StillDirty
<1>2. CASE a.ok /\ a.blk = b
  <2>1. z = [a EXCEPT !.dirty = a.dirty \/ forWrite]
    BY <1>2 DEF CacheRawBlock
  <2>2. /\ IsMachine(z) /\ SameRest(a, z) /\ z.val = a.val /\ z.disk = a.disk /\ z.log = a.log
        /\ z.left = a.left /\ z.ok = a.ok /\ z.blk = a.blk /\ z.buf = a.buf
        /\ z.dirty = (a.dirty \/ forWrite) /\ z.mirror = a.mirror
    BY <1>0, <2>1 DEF IsMachine, MachineFields, SameRest
  <2>3. View(z) = View(a)
    BY <2>2 DEF View
  <2>4. Steady(z, v, from, purged)
    BY <1>0, <1>2, <2>2, <2>3 DEF Steady, SameRest
  <2>5. Kept(a, z, v, from, purged)
    BY <1>2, <2>2, <2>3, <2>4 DEF Kept, SameView, Tab, Dir, SameRest
  <2>6. b \in Table(v) \union Root(v) => Faulty(a, z)
    BY <1>0, <1>2, <2>2 DEF Faulty, Safe, SameRest
  <2> QED BY <1>0, <1>2, <2>2, <2>5, <2>6 DEF Cached, StillDirty
<1>3. CASE a.ok /\ a.blk # b
  <2> DEFINE w == CacheFlush(a)
  <2>0. z = Fetched(w, b, forWrite)
    BY <1>3 DEF CacheRawBlock
  <2>1. Flushed(a, w, v, from, purged)
    BY CacheFlushDoes
  <2> HIDE DEF w
  <2>2. /\ Kept(a, w, v, from, purged) /\ Faulty(a, w) /\ Steady(w, v, from, purged)
        /\ w.val = a.val /\ w.blk = a.blk /\ w.buf = a.buf /\ (w.ok => ~w.dirty)
        /\ ~a.dirty => w = a
    BY <2>1 DEF Flushed, Kept
  <2>3. IsMachine(w) /\ w.ok \in BOOLEAN /\ w.dirty \in BOOLEAN /\ w.vol = v /\ Holds(w.disk, v)
        /\ w.left \in Nat /\ Layout16(v)
    BY <2>2 DEF Steady
  <2>4. Table(v) \union Root(v) \subseteq DOMAIN w.disk
    BY <2>3 DEF Holds
  <2>5. CASE ~w.ok \/ b \notin DOMAIN w.disk
    <3>1. z = [w EXCEPT !.ok = FALSE]
      BY <2>0, <2>5 DEF Fetched
    <3>2. /\ IsMachine(z) /\ SameRest(w, z) /\ z.val = w.val /\ z.disk = w.disk /\ z.log = w.log
          /\ z.left = w.left /\ z.ok = FALSE /\ z.blk = w.blk /\ z.buf = w.buf
          /\ z.dirty = w.dirty /\ z.mirror = w.mirror
      BY <2>3, <3>1 DEF IsMachine, MachineFields, SameRest
    <3>3. View(z) = View(w)
      BY <3>2 DEF View
    <3>4. Steady(z, v, from, purged)
      BY <2>2, <3>2, <3>3 DEF Steady, SameRest
    <3>5. Kept(a, z, v, from, purged)
      BY <1>3, <2>2, <3>2, <3>3, <3>4 DEF Kept, SameView, Tab, Dir, SameRest
    <3>6. b \in Table(v) \union Root(v) => Faulty(a, z)
      BY <1>3, <2>2, <2>4, <2>5, <3>2 DEF Faulty, Safe, SameRest
    <3>7. a.ok /\ ~a.dirty /\ b \in DOMAIN a.disk => FALSE
      BY <2>2, <2>5
    <3> QED BY <1>3, <2>2, <3>2, <3>5, <3>6, <3>7 DEF Cached, StillDirty
  <2>6. CASE w.ok /\ b \in DOMAIN w.disk
    <3>0. w.dirty = FALSE
      BY <2>2, <2>3, <2>6
    <3>1. z = [w EXCEPT !.buf = w.disk[b], !.blk = b, !.dirty = forWrite]
      BY <2>0, <2>6, <3>0 DEF Fetched
    <3>2. /\ IsMachine(z) /\ SameRest(w, z) /\ z.val = w.val /\ z.disk = w.disk /\ z.log = w.log
          /\ z.left = w.left /\ z.ok = w.ok /\ z.blk = b /\ z.buf = w.disk[b]
          /\ z.dirty = forWrite /\ z.mirror = w.mirror
      BY <2>3, <3>1 DEF IsMachine, MachineFields, SameRest
    <3>3. View(z) = View(w)
      <4>1. w.blk \in DOMAIN w.disk => w.buf = w.disk[w.blk]
        BY <2>2, <3>0 DEF Steady
      <4> QED BY <3>2, <4>1 DEF View, Put
    <3>4. w.mirror = 0
      BY <2>2, <3>0 DEF Steady
    <3>5. Steady(z, v, from, purged)
      BY <2>2, <2>3, <3>2, <3>3, <3>4 DEF Steady, SameRest
    <3>6. Kept(a, z, v, from, purged)
      BY <1>3, <2>2, <3>2, <3>3, <3>5 DEF Kept, SameView, Tab, Dir, SameRest
    <3>7. b \in Table(v) \union Root(v) => Faulty(a, z)
      BY <1>3, <2>2, <2>3, <2>6, <3>2 DEF Faulty, Safe, SameRest
    <3> QED BY <1>3, <2>2, <2>6, <3>2, <3>6, <3>7 DEF Cached, StillDirty
  <2> QED BY <2>5, <2>6
<1> QED BY <1>0, <1>1, <1>2, <1>3

\* A block of the table or of the directory in the cache is what the
\* machine shows.
LEMMA Shown ==
  ASSUME NEW a, NEW v, NEW from, NEW purged, Steady(a, v, from, purged)
  PROVE  /\ a.blk \in Table(v) => a.buf = View(a)[a.blk] /\ a.buf \in [Cells -> Nat]
         /\ a.blk \in Root(v) => a.buf = View(a)[a.blk] /\ a.buf \in [Units -> DirEntry]
<1>1. /\ Holds(View(a), v) /\ Table(v) \union Root(v) \subseteq DOMAIN a.disk
  BY DEF Steady, Holds
<1>2. a.blk \in DOMAIN a.disk => View(a)[a.blk] = a.buf
  BY DEF View, Put
<1> QED BY <1>1, <1>2 DEF Holds

LEMMA ShownEntry ==
  ASSUME NEW a, NEW v, NEW from, NEW purged, Steady(a, v, from, purged),
         NEW i \in Units, a.blk \in Root(v)
  PROVE  /\ <<a.blk, i>> \in Slots(v) /\ a.buf[i] = Dir(a)[<<a.blk, i>>]
         /\ a.buf[i] \in DirEntry
<1>1. a.vol = v
  BY DEF Steady
<1> QED BY <1>1, Shown DEF Dir, DirOf, Slots

\* A block of the data is replaced in the cache without being read.
LEMMA Replaced ==
  ASSUME NEW a, NEW v, NEW from, NEW purged, Steady(a, v, from, purged), a.ok, ~a.dirty,
         NEW b \in Data(v), NEW content,
         NEW z, z = [a EXCEPT !.blk = b, !.dirty = TRUE, !.buf = content]
  PROVE  Kept(a, z, v, from, purged) /\ z.val = a.val /\ z.ok
<1>1. /\ IsMachine(a) /\ a.vol = v /\ Layout16(v) /\ Holds(a.disk, v)
      /\ a.blk \in DOMAIN a.disk => a.buf = a.disk[a.blk]
      /\ a.dirty = FALSE
  BY DEF Steady
<1>2. /\ IsMachine(z) /\ SameRest(a, z) /\ z.val = a.val /\ z.disk = a.disk /\ z.log = a.log
      /\ z.left = a.left /\ z.ok = a.ok /\ z.blk = b /\ z.buf = content
      /\ z.dirty = TRUE /\ z.mirror = a.mirror
  BY <1>1 DEF IsMachine, MachineFields, SameRest
<1>3. View(a) = a.disk
  BY <1>1 DEF View, Put, Holds, IsContents
<1>4. b \in Nat /\ b >= v.fatStart /\ b \notin Table(v) /\ b \notin Root(v)
  BY <1>1, PartsApart
<1>5. /\ Holds(View(z), v) /\ TableOf(View(z), v) = TableOf(View(a), v)
      /\ DirOf(View(z), v) = DirOf(View(a), v)
  BY <1>1, <1>2, <1>3, <1>4, PutElsewhere DEF View
<1>6. a.mirror = 0
  BY <1>1 DEF Steady
<1>7. Steady(z, v, from, purged)
  BY <1>1, <1>2, <1>5, <1>6 DEF Steady, SameRest
<1>8. SameView(a, z)
  BY <1>1, <1>2, <1>5 DEF SameView, Tab, Dir, SameRest
<1> QED BY <1>2, <1>7, <1>8 DEF Kept

Zeroing(a, z, v, from, purged) == Kept(a, z, v, from, purged) /\ z.val = a.val

LEMMA CacheZeroBlockDoes ==
  ASSUME NEW a, NEW v, NEW from, NEW purged, Steady(a, v, from, purged),
         Good(View(a), v, purged), NEW b \in Data(v),
         NEW z, z = CacheZeroBlock(a, b)
  PROVE  Zeroing(a, z, v, from, purged)
<1> DEFINE w == CacheFlush(a)
<1>0. z = Zeroed(w, b)
  BY DEF CacheZeroBlock
<1>1. Flushed(a, w, v, from, purged)
  BY CacheFlushDoes
<1> HIDE DEF w
<1>2. /\ Kept(a, w, v, from, purged) /\ Steady(w, v, from, purged)
      /\ w.val = a.val /\ (w.ok => ~w.dirty)
  BY <1>1 DEF Flushed, Kept
<1>3. CASE ~w.ok
  BY <1>0, <1>2, <1>3 DEF Zeroed, Zeroing
<1>4. CASE w.ok
  <2>1. z = [w EXCEPT !.blk = b, !.dirty = TRUE, !.buf = EmptyBlock]
    BY <1>0, <1>2, <1>4 DEF Zeroed, Steady, IsMachine, MachineFields
  <2>2. Kept(w, z, v, from, purged) /\ z.val = w.val
    BY <1>2, <1>4, <2>1, Replaced
  <2>3. Kept(a, z, v, from, purged)
    BY <1>2, <2>2, KeptOn
  <2> QED BY <1>2, <2>2, <2>3 DEF Zeroing
<1> QED BY <1>3, <1>4

-----------------------------------------------------------------------------
\* The allocation table

\* The entry of cluster c is read.
Looked(a, z, c, v, from, purged) ==
  /\ Kept(a, z, v, from, purged)
  /\ c <= v.clusterCount + 1 => Faulty(a, z)
  /\ z.ok => /\ c <= v.clusterCount + 1 /\ z.val \in Nat /\ z.blk \in Table(v)
             /\ c \in ClustersOf(v) => z.val = Tab(a)[c]
  /\ ~a.ok => z.val = a.val
  /\ StillDirty(a, z)
  /\ a.ok /\ ~a.dirty /\ c <= v.clusterCount + 1 => z.ok

LEMMA FatGetDoes ==
  ASSUME NEW a, NEW v, NEW from, NEW purged, Steady(a, v, from, purged),
         Good(View(a), v, purged), NEW c \in Nat, NEW z, z = FatGet(a, c)
  PROVE  Looked(a, z, c, v, from, purged)
<1>0. /\ IsMachine(a) /\ a.vol = v /\ Layout16(v) /\ v.clusterCount \in Nat
      /\ a.ok \in BOOLEAN /\ a.dirty \in BOOLEAN
      /\ Table(v) \subseteq DOMAIN a.disk
  BY DEF Steady, Layout16, Holds
<1>1. CASE c > v.clusterCount + 1
  <2>1. z = [a EXCEPT !.ok = FALSE]
    BY <1>0, <1>1 DEF FatGet, FatEnd
  <2>2. /\ IsMachine(z) /\ SameRest(a, z) /\ z.val = a.val /\ z.disk = a.disk /\ z.log = a.log
        /\ z.left = a.left /\ z.ok = FALSE /\ z.blk = a.blk /\ z.buf = a.buf
        /\ z.dirty = a.dirty /\ z.mirror = a.mirror
    BY <1>0, <2>1 DEF IsMachine, MachineFields, SameRest
  <2>3. View(z) = View(a)
    BY <2>2 DEF View
  <2>4. Steady(z, v, from, purged)
    BY <2>2, <2>3 DEF Steady, SameRest
  <2>5. Kept(a, z, v, from, purged)
    BY <2>2, <2>3, <2>4 DEF Kept, SameView, Tab, Dir, SameRest
  <2>6. ~(c <= v.clusterCount + 1)
    BY <1>0, <1>1
  <2> QED BY <2>2, <2>5, <2>6 DEF Looked, StillDirty
<1>2. CASE c <= v.clusterCount + 1
  <2> DEFINE b == v.fatStart + c \div FatPerBlock
             w == CacheRawBlock(a, b, FALSE)
  <2>0. ~(c > FatEnd(a)) /\ FatBlock(a, c) = b
    BY <1>0, <1>2 DEF FatEnd, FatBlock
  <2>1. z = TableEntry(w, c)
    BY <2>0, Zenon DEF FatGet
  <2>2. b \in Table(v) /\ c % FatPerBlock \in Cells /\ b \in Nat
    BY <1>0, <1>2, CellOf, PartsApart
  <2> HIDE DEF b
  <2>3. Cached(a, w, b, FALSE, v, from, purged)
    BY <2>2, CacheRawBlockDoes
  <2> HIDE DEF w
  <2>4. /\ Kept(a, w, v, from, purged) /\ Faulty(a, w) /\ Steady(w, v, from, purged)
        /\ w.val = a.val /\ (w.ok => w.blk = b) /\ (~a.ok => w = a)
        /\ ~a.dirty => ~w.dirty /\ (a.ok => w.ok)
        /\ StillDirty(a, w)
    BY <1>0, <2>2, <2>3 DEF Cached, StillDirty, Kept, Steady
  <2>5. CASE ~w.ok
    <3>1. z = w
      BY <2>1, <2>5 DEF TableEntry
    <3> QED BY <1>2, <2>4, <2>5, <3>1 DEF Looked, StillDirty
  <2>6. CASE w.ok
    <3>1. z = [w EXCEPT !.val = w.buf[c % FatPerBlock]]
      BY <2>1, <2>6 DEF TableEntry
    <3>2. IsMachine(w) /\ w.vol = v
      BY <2>4 DEF Steady
    <3>3. /\ IsMachine(z) /\ SameRest(w, z) /\ z.disk = w.disk /\ z.log = w.log
          /\ z.left = w.left /\ z.ok = w.ok /\ z.blk = w.blk /\ z.buf = w.buf
          /\ z.dirty = w.dirty /\ z.mirror = w.mirror /\ z.val = w.buf[c % FatPerBlock]
      BY <3>1, <3>2 DEF IsMachine, MachineFields, SameRest
    <3>4. View(z) = View(w)
      BY <3>3 DEF View
    <3>5. Steady(z, v, from, purged)
      BY <2>4, <3>3, <3>4 DEF Steady, SameRest
    <3>6. Kept(a, z, v, from, purged) /\ Faulty(a, z)
      BY <2>4, <3>3, <3>4, <3>5 DEF Kept, SameView, Tab, Dir, SameRest, Faulty, Safe
    <3>7. w.buf = View(w)[b] /\ w.buf \in [Cells -> Nat]
      BY <2>2, <2>4, <2>6, Shown
    <3>8. c \in ClustersOf(v) => z.val = Tab(w)[c]
      BY <3>2, <3>3, <3>7 DEF Tab, TableOf, b
    <3>9. Tab(w) = Tab(a)
      BY <2>4 DEF Kept, SameView
    <3> QED BY <1>2, <2>2, <2>4, <2>6, <3>3, <3>6, <3>7, <3>8, <3>9 DEF Looked, StillDirty
  <2> QED BY <2>5, <2>6
<1> QED BY <1>0, <1>1, <1>2

\* The entry of cluster c is x now.
Noted(a, z, c, x, v, from, purged) ==
  /\ Steady(z, v, from, purged) /\ SameRest(a, z) /\ Dir(z) = Dir(a) /\ z.val = a.val
  /\ z.ok => a.ok
  /\ a.left = 0 => z.left = 0
  /\ c \in ClustersOf(v) => Faulty(a, z)
  /\ ~z.ok => Tab(z) = Tab(a)
  /\ z.ok => c \in ClustersOf(v) /\ Tab(z) = [Tab(a) EXCEPT ![c] = x] /\ z.blk \in Table(v)

LEMMA FatPutDoes ==
  ASSUME NEW a, NEW v, NEW from, NEW purged, Steady(a, v, from, purged),
         Good(View(a), v, purged), NEW c \in Nat, NEW x \in Nat, NEW z, z = FatPut(a, c, x)
  PROVE  Noted(a, z, c, x, v, from, purged)
<1>0. /\ IsMachine(a) /\ a.vol = v /\ Layout16(v) /\ v.clusterCount \in Nat
      /\ a.ok \in BOOLEAN /\ a.dirty \in BOOLEAN
  BY DEF Steady, Layout16
<1>1. CASE c < 2 \/ c > v.clusterCount + 1
  <2>1. z = [a EXCEPT !.ok = FALSE]
    BY <1>0, <1>1 DEF FatPut, FatEnd
  <2>2. /\ IsMachine(z) /\ SameRest(a, z) /\ z.val = a.val /\ z.disk = a.disk /\ z.log = a.log
        /\ z.left = a.left /\ z.ok = FALSE /\ z.blk = a.blk /\ z.buf = a.buf
        /\ z.dirty = a.dirty /\ z.mirror = a.mirror
    BY <1>0, <2>1 DEF IsMachine, MachineFields, SameRest
  <2>3. View(z) = View(a)
    BY <2>2 DEF View
  <2>4. Steady(z, v, from, purged)
    BY <2>2, <2>3 DEF Steady, SameRest
  <2>5. Tab(z) = Tab(a) /\ Dir(z) = Dir(a)
    BY <2>2, <2>3 DEF Tab, Dir, SameRest
  <2>6. c \notin ClustersOf(v)
    BY <1>0, <1>1 DEF ClustersOf
  <2> QED BY <2>2, <2>4, <2>5, <2>6 DEF Noted
<1>2. CASE ~(c < 2 \/ c > v.clusterCount + 1)
  <2> DEFINE b == v.fatStart + c \div FatPerBlock
             w == CacheRawBlock(a, b, FALSE)
  <2>1. z = NewTableEntry(w, c, x)
    BY <1>0, <1>2 DEF FatPut, FatEnd, FatBlock
  <2>2. b \in Table(v) /\ c % FatPerBlock \in Cells /\ b \in Nat /\ c \in ClustersOf(v)
    BY <1>0, <1>2, CellOf, PartsApart DEF ClustersOf
  <2> HIDE DEF b
  <2>3. Cached(a, w, b, FALSE, v, from, purged)
    BY <2>2, CacheRawBlockDoes
  <2> HIDE DEF w
  <2>4. /\ Kept(a, w, v, from, purged) /\ Faulty(a, w) /\ Steady(w, v, from, purged)
        /\ w.val = a.val /\ (w.ok => w.blk = b) /\ (~a.ok => w = a)
    BY <1>0, <2>2, <2>3 DEF Cached, Kept, Steady
  <2>5. CASE ~w.ok
    <3>1. z = w
      BY <2>1, <2>5 DEF NewTableEntry
    <3> QED BY <2>4, <2>5, <3>1 DEF Noted, Kept, SameView
  <2>6. CASE w.ok
    <3>1. z = [w EXCEPT !.buf[c % FatPerBlock] = x, !.dirty = TRUE,
                        !.mirror = IF v.fatCount > 1 THEN b + v.blocksPerFat ELSE @]
      BY <2>1, <2>4, <2>6 DEF NewTableEntry, FatBlock, Steady, b
    <3>2. IsMachine(w) /\ w.vol = v /\ Holds(w.disk, v) /\ Holds(View(w), v)
      BY <2>4 DEF Steady
    <3>3. /\ IsMachine(z) /\ SameRest(w, z) /\ z.val = w.val /\ z.disk = w.disk /\ z.log = w.log
          /\ z.left = w.left /\ z.ok = w.ok /\ z.blk = w.blk
          /\ z.buf = [w.buf EXCEPT ![c % FatPerBlock] = x] /\ z.dirty = TRUE
          /\ z.mirror = IF v.fatCount > 1 THEN b + v.blocksPerFat ELSE w.mirror
      BY <3>1, <3>2 DEF IsMachine, MachineFields, SameRest
    <3>4. w.buf = View(w)[b]
      BY <2>2, <2>4, <2>6, Shown
    <3>5. View(z) = Put(View(w), b, [View(w)[b] EXCEPT ![c % FatPerBlock] = x])
      BY <2>4, <2>6, <3>3, <3>4 DEF View, Put
    <3>6. /\ Holds(View(z), v) /\ DirOf(View(z), v) = DirOf(View(w), v)
          /\ TableOf(View(z), v) = [TableOf(View(w), v) EXCEPT ![c] = x]
      BY <1>0, <2>2, <3>2, <3>5, CellChanges DEF b
    <3>7. z.mirror # 0 => v.fatCount > 1 /\ z.mirror = z.blk + v.blocksPerFat
      BY <2>4, <2>6, <3>3 DEF Steady
    <3>8. Steady(z, v, from, purged)
      BY <2>2, <2>4, <2>6, <3>2, <3>3, <3>6, <3>7 DEF Steady, SameRest
    <3>9. Tab(z) = [Tab(a) EXCEPT ![c] = x] /\ Dir(z) = Dir(a) /\ SameRest(a, z)
      BY <2>4, <3>2, <3>3, <3>6 DEF Kept, SameView, Tab, Dir, SameRest
    <3>10. Faulty(a, z)
      BY <2>2, <2>4, <2>6, <3>2, <3>3 DEF Faulty, Safe, SameRest
    <3> QED BY <2>2, <2>4, <2>6, <3>3, <3>8, <3>9, <3>10 DEF Noted, Kept
  <2> QED BY <2>5, <2>6
<1> QED BY <1>1, <1>2

-----------------------------------------------------------------------------
\* The loops

\* A set of numbers has a least one.
LEMMA LeastNumber ==
  ASSUME NEW S, S \subseteq Nat, S # {}
  PROVE  \E x \in S : \A y \in S : x <= y
<1>1. \A x, y \in Nat : <<x, y>> \in OpToRel(<, Nat) <=> x < y
  BY Zenon DEF OpToRel
<1> DEFINE R == OpToRel(<, Nat)
<1>2. PICK x \in S : \A y \in S : ~(<<y, x>> \in R)
  BY NatLessThanWellFounded, WFMin
<1>3. \A y \in S : ~(y < x)
  BY <1>1, <1>2, Zenon
<1> QED BY <1>3

\* The search for free clusters.
SearchTo(a, bgn, count, k, run) ==
  run = [n \in 0 .. k |-> IF n = 0 THEN [at |-> a, bgn |-> bgn, end |-> bgn, done |-> FALSE]
                          ELSE Examined(run[n - 1], count)]

LEMMA SearchExists ==
  ASSUME NEW a, NEW bgn, NEW count
  PROVE  \A k \in Nat : \E run : SearchTo(a, bgn, count, k, run)
<1> DEFINE S == {k \in Nat : ~\E run : SearchTo(a, bgn, count, k, run)}
<1>1. CASE S = {}
  BY <1>1
<1>2. CASE S # {}
  <2>1. PICK k \in S : \A j \in S : k <= j
    BY <1>2, LeastNumber
  <2>2. CASE k = 0
    <3> DEFINE run == [n \in 0 .. 0 |-> [at |-> a, bgn |-> bgn, end |-> bgn, done |-> FALSE]]
    <3>1. SearchTo(a, bgn, count, 0, run)
      BY DEF SearchTo
    <3> QED BY <2>1, <2>2, <3>1
  <2>3. CASE k # 0
    <3>1. k - 1 \in Nat /\ k - 1 \notin S
      BY <2>1, <2>3
    <3>2. PICK run : SearchTo(a, bgn, count, k - 1, run)
      BY <3>1
    <3> DEFINE on == [n \in 0 .. k |-> IF n = k THEN Examined(run[n - 1], count) ELSE run[n]]
    <3>3. \A n \in 0 .. k - 1 : /\ on[n] = run[n]
                                /\ run[n] = IF n = 0 THEN [at |-> a, bgn |-> bgn, end |-> bgn, done |-> FALSE]
                                            ELSE Examined(run[n - 1], count)
      <4>1. \A n \in 0 .. k - 1 : n \in 0 .. k /\ n # k
        BY <2>1
      <4>2. \A n \in 0 .. k - 1 : run[n] = IF n = 0 THEN [at |-> a, bgn |-> bgn, end |-> bgn, done |-> FALSE]
                                           ELSE Examined(run[n - 1], count)
        BY <3>2, Zenon DEF SearchTo
      <4> QED BY <4>1, <4>2, Zenon
    <3>4. \A n \in 0 .. k : on[n] = IF n = 0 THEN [at |-> a, bgn |-> bgn, end |-> bgn, done |-> FALSE]
                                     ELSE Examined(on[n - 1], count)
      <4> SUFFICES ASSUME NEW n \in 0 .. k
                   PROVE  on[n] = IF n = 0 THEN [at |-> a, bgn |-> bgn, end |-> bgn, done |-> FALSE] ELSE Examined(on[n - 1], count)
        OBVIOUS
      <4> HIDE DEF on
      <4>1. CASE n = k
        <5>1. on[k] = Examined(run[k - 1], count) /\ k - 1 \in 0 .. k - 1
          BY <2>1, <2>3 DEF on
        <5> QED BY <2>3, <3>3, <4>1, <5>1
      <4>2. CASE n # k
        <5>1. n \in 0 .. k - 1 /\ (n # 0 => n - 1 \in 0 .. k - 1)
          BY <2>1, <4>2
        <5> QED BY <3>3, <5>1
      <4> QED BY <4>1, <4>2
    <3>5. SearchTo(a, bgn, count, k, on)
      <4>1. on = [n \in 0 .. k |-> on[n]]
        OBVIOUS
      <4> HIDE DEF on
      <4> QED BY <3>4, <4>1, Zenon DEF SearchTo
    <3> QED BY <2>1, <3>5
  <2> QED BY <2>2, <2>3
<1> QED BY <1>1, <1>2

SearchRun(a, bgn, count, k, run) ==
  /\ run[0] = [at |-> a, bgn |-> bgn, end |-> bgn, done |-> FALSE]
  /\ \A n \in 1 .. k : run[n] = Examined(run[n - 1], count)

LEMMA SearchRuns ==
  ASSUME NEW a, NEW bgn, NEW count, NEW k \in Nat, NEW run, SearchTo(a, bgn, count, k, run)
  PROVE  SearchRun(a, bgn, count, k, run)
<1>1. \A n \in 0 .. k : run[n] = IF n = 0 THEN [at |-> a, bgn |-> bgn, end |-> bgn, done |-> FALSE]
                                 ELSE Examined(run[n - 1], count)
  BY Zenon DEF SearchTo
<1>2. 0 \in 0 .. k /\ \A n \in 1 .. k : n \in 0 .. k /\ n # 0
  OBVIOUS
<1> QED BY <1>1, <1>2, Zenon DEF SearchRun

LEMMA SearchIs ==
  ASSUME NEW a, NEW bgn, NEW count, NEW last \in Nat, last = a.vol.clusterCount
  PROVE  \E run : /\ SearchRun(a, bgn, count, last, run)
                  /\ FindClusters(a, bgn, count)
                       = IF ~run[last].done THEN [run[last].at EXCEPT !.ok = FALSE]
                         ELSE [run[last].at EXCEPT !.val = <<run[last].bgn, run[last].end - 1>>]
<1> DEFINE run == CHOOSE run : SearchTo(a, bgn, count, last, run)
<1>1. SearchTo(a, bgn, count, last, run)
  BY SearchExists
<1>2. FindClusters(a, bgn, count)
        = IF ~run[last].done THEN [run[last].at EXCEPT !.ok = FALSE]
          ELSE [run[last].at EXCEPT !.val = <<run[last].bgn, run[last].end - 1>>]
  BY DEF FindClusters, SearchTo
<1> HIDE DEF run
<1>3. SearchRun(a, bgn, count, last, run)
  BY <1>1, SearchRuns
<1> QED BY <1>2, <1>3, Zenon

-----------------------------------------------------------------------------
\* Looking for one free cluster

Searching(s, a, v, from, purged) ==
  /\ s = [at |-> s.at, bgn |-> s.bgn, end |-> s.end, done |-> s.done]
  /\ Kept(a, s.at, v, from, purged)
  /\ s.done \in BOOLEAN /\ s.bgn \in Nat /\ s.bgn >= 2
  /\ ~s.done => s.end = s.bgn
  /\ s.done => s.at.ok /\ s.end = s.bgn + 1 /\ s.bgn \in ClustersOf(v) /\ Tab(a)[s.bgn] = 0

LEMMA ExaminedKeeps ==
  ASSUME NEW a, NEW v, NEW from, NEW purged, Steady(a, v, from, purged),
         Good(View(a), v, purged), NEW s, Searching(s, a, v, from, purged),
         NEW z, z = Examined(s, 1)
  PROVE  Searching(z, a, v, from, purged)
<1> DEFINE c == IF s.end > FatEnd(s.at) THEN 2 ELSE s.end
           w == FatGet(s.at, c)
<1>1. CASE s.done \/ ~s.at.ok
  <2>1. z = s
    BY <1>1 DEF Examined
  <2> QED BY <2>1
<1>2. CASE ~s.done /\ s.at.ok
  <2>1. /\ Steady(s.at, v, from, purged) /\ Kept(a, s.at, v, from, purged)
        /\ s.end = s.bgn /\ s.bgn \in Nat /\ s.bgn >= 2 /\ s.done = FALSE
        /\ s = [at |-> s.at, bgn |-> s.bgn, end |-> s.end, done |-> s.done]
    BY <1>2 DEF Searching, Kept
  <2>2. Good(View(s.at), v, purged)
    BY <2>1, KeptGood
  <2>3. c \in Nat /\ c >= 2
    BY <2>1
  <2>4. z = IF ~w.ok THEN [s EXCEPT !.at = w]
            ELSE IF w.val # 0 THEN [at |-> w, bgn |-> c + 1, end |-> c + 1, done |-> FALSE]
            ELSE [at |-> w, bgn |-> c, end |-> c + 1, done |-> c - c + 1 = 1]
    BY <1>2, <2>1 DEF Examined
  <2> HIDE DEF c
  <2>5. Looked(s.at, w, c, v, from, purged)
    BY <2>1, <2>2, <2>3, FatGetDoes
  <2> HIDE DEF w
  <2>6. /\ Kept(s.at, w, v, from, purged) /\ w.ok \in BOOLEAN
        /\ w.ok => c <= v.clusterCount + 1 /\ w.val \in Nat
                   /\ (c \in ClustersOf(v) => w.val = Tab(s.at)[c])
    BY <2>5 DEF Looked, Kept, Steady
  <2>7. Kept(a, w, v, from, purged) /\ Tab(s.at) = Tab(a)
    BY <2>1, <2>6, KeptOn DEF Kept, SameView
  <2>8. CASE ~w.ok
    <3>1. z = [at |-> w, bgn |-> s.bgn, end |-> s.end, done |-> FALSE]
      BY <2>1, <2>4, <2>8
    <3>2. z.at = w /\ z.bgn = s.bgn /\ z.end = s.end /\ z.done = FALSE
          /\ z = [at |-> z.at, bgn |-> z.bgn, end |-> z.end, done |-> z.done]
      BY <3>1
    <3> QED BY <2>1, <2>7, <3>2 DEF Searching
  <2>9. CASE w.ok /\ w.val # 0
    <3>1. z = [at |-> w, bgn |-> c + 1, end |-> c + 1, done |-> FALSE]
      BY <2>4, <2>9
    <3>2. z.at = w /\ z.bgn = c + 1 /\ z.end = c + 1 /\ z.done = FALSE
          /\ z = [at |-> z.at, bgn |-> z.bgn, end |-> z.end, done |-> z.done]
      BY <3>1
    <3>3. c + 1 \in Nat /\ c + 1 >= 2
      BY <2>3
    <3>4. z.bgn \in Nat /\ z.bgn >= 2 /\ z.end = z.bgn
      BY <3>2, <3>3, Zenon
    <3>5. z.done \in BOOLEAN /\ ~z.done /\ Kept(a, z.at, v, from, purged)
      BY <2>7, <3>2, Zenon
    <3> QED BY <3>2, <3>4, <3>5, Zenon DEF Searching
  <2>10. CASE w.ok /\ w.val = 0
    <3>0. (c - c + 1 = 1) = TRUE
      BY <2>3
    <3>1. z = [at |-> w, bgn |-> c, end |-> c + 1, done |-> TRUE]
      BY <2>4, <2>10, <3>0
    <3>2. c \in ClustersOf(v) /\ Tab(a)[c] = 0
      <4>1. v.clusterCount \in Nat
        BY <2>1 DEF Steady, Layout16
      <4> QED BY <2>3, <2>6, <2>7, <2>10, <4>1 DEF ClustersOf
    <3>3. z.at = w /\ z.bgn = c /\ z.end = c + 1 /\ z.done = TRUE
          /\ z = [at |-> z.at, bgn |-> z.bgn, end |-> z.end, done |-> z.done]
      BY <3>1
    <3> QED BY <2>3, <2>7, <2>10, <3>2, <3>3 DEF Searching
  <2> QED BY <2>6, <2>8, <2>9, <2>10
<1>3. s.done \in BOOLEAN /\ s.at.ok \in BOOLEAN
  BY DEF Searching, Kept, Steady
<1> QED BY <1>1, <1>2, <1>3

\* A free cluster has been found, unless z has failed.
Found(a, z, v, from, purged) ==
  /\ Kept(a, z, v, from, purged)
  /\ z.ok => \E c \in ClustersOf(v) : z.val = <<c, c>> /\ Tab(a)[c] = 0

\* A cluster that is found is free.
LEMMA FindClustersDoes ==
  ASSUME NEW a, NEW v, NEW from, NEW purged, Steady(a, v, from, purged),
         Good(View(a), v, purged), NEW bgn \in Nat, bgn >= 2,
         NEW z, z = FindClusters(a, bgn, 1)
  PROVE  Found(a, z, v, from, purged)
<1>1. PICK last \in Nat : last = a.vol.clusterCount
  BY DEF Steady, Layout16
<1>2. PICK run : /\ SearchRun(a, bgn, 1, last, run)
                 /\ FindClusters(a, bgn, 1)
                      = IF ~run[last].done THEN [run[last].at EXCEPT !.ok = FALSE]
                        ELSE [run[last].at EXCEPT !.val = <<run[last].bgn, run[last].end - 1>>]
  BY <1>1, SearchIs
<1>3. \A n \in 0 .. last : Searching(run[n], a, v, from, purged)
  <2> DEFINE S == {n \in 0 .. last : ~Searching(run[n], a, v, from, purged)}
  <2>1. CASE S = {}
    BY <2>1
  <2>2. CASE S # {}
    <3>1. PICK n \in S : \A j \in S : n <= j
      <4>1. S \subseteq Nat
        OBVIOUS
      <4> QED BY <2>2, <4>1, LeastNumber
    <3>2. CASE n = 0
      <4>1. run[0] = [at |-> a, bgn |-> bgn, end |-> bgn, done |-> FALSE]
        BY <1>2 DEF SearchRun
      <4>2. Kept(a, a, v, from, purged)
        BY KeptSelf, KeptFailed
      <4>3. Searching(run[0], a, v, from, purged)
        BY <4>1, <4>2 DEF Searching
      <4> QED BY <3>1, <3>2, <4>3
    <3>3. CASE n # 0
      <4>1. n \in 1 .. last /\ n - 1 \in 0 .. last /\ n - 1 \notin S
        BY <3>1, <3>3
      <4>2. run[n] = Examined(run[n - 1], 1)
        BY <1>2, <4>1 DEF SearchRun
      <4>3. Searching(run[n - 1], a, v, from, purged)
        BY <4>1
      <4>4. Searching(run[n], a, v, from, purged)
        BY <4>2, <4>3, ExaminedKeeps
      <4> QED BY <3>1, <4>4
    <3> QED BY <3>2, <3>3
  <2> QED BY <2>1, <2>2
<1> DEFINE s == run[last]
           w == s.at
<1>4. Searching(s, a, v, from, purged)
  BY <1>3
<1>5. z = IF ~s.done THEN [w EXCEPT !.ok = FALSE] ELSE [w EXCEPT !.val = <<s.bgn, s.end - 1>>]
  BY <1>2
<1> HIDE DEF s
<1>6. Kept(a, w, v, from, purged) /\ Steady(w, v, from, purged) /\ IsMachine(w) /\ s.done \in BOOLEAN
  BY <1>4 DEF Searching, Kept, Steady
<1> HIDE DEF w
<1>7. /\ IsMachine(z) /\ SameRest(w, z) /\ z.disk = w.disk /\ z.log = w.log
      /\ z.left = w.left /\ z.blk = w.blk /\ z.buf = w.buf
      /\ z.dirty = w.dirty /\ z.mirror = w.mirror
      /\ ~s.done => z.ok = FALSE
      /\ s.done => z.val = <<s.bgn, s.end - 1>> /\ z.ok = w.ok
  <2>1. CASE s.done
    BY <1>5, <1>6, <2>1 DEF IsMachine, MachineFields, SameRest
  <2>2. CASE ~s.done
    BY <1>5, <1>6, <2>2 DEF IsMachine, MachineFields, SameRest
  <2> QED BY <1>6, <2>1, <2>2
<1>8. View(z) = View(w)
  BY <1>7 DEF View
<1>9. Steady(z, v, from, purged)
  BY <1>6, <1>7, <1>8 DEF Steady, SameRest
<1>10. Kept(a, z, v, from, purged)
  BY <1>6, <1>7, <1>8, <1>9 DEF Kept, SameView, SameRest, Tab, Dir
<1>11. z.ok => s.done
  BY <1>6, <1>7
<1>12. s.done => s.end - 1 = s.bgn /\ s.bgn \in ClustersOf(v) /\ Tab(a)[s.bgn] = 0
  BY <1>4 DEF Searching
<1> QED BY <1>7, <1>10, <1>11, <1>12 DEF Found

-----------------------------------------------------------------------------
\* What becomes of chains

\* A cluster that has an owner is not free.
LEMMA OwnedIsTaken ==
  ASSUME NEW t, NEW dir, NEW v, NEW g, NEW purged, Layout16(v), Chains(t, dir, v, g, purged),
         NEW c \in g.has
  PROVE  c \in ClustersOf(v) /\ t[c] # 0
<1>1. /\ g.has \subseteq ClustersOf(v) /\ Leads(t, g, c)
  BY DEF Chains
<1>2. 0 \notin g.has
  BY <1>1 DEF ClustersOf
<1>3. ~IsEOC(0)
  BY DEF IsEOC, EOC
<1> QED BY <1>1, <1>2, <1>3 DEF Leads

\* More entries may hang.
LEMMA ChainsMay ==
  ASSUME NEW t, NEW dir, NEW v, NEW g, NEW purged, NEW more, purged \subseteq more,
         Chains(t, dir, v, g, purged)
  PROVE  Chains(t, dir, v, g, more)
BY DEF Chains

LEMMA GoodMay ==
  ASSUME NEW disc, NEW v, NEW purged, NEW more, purged \subseteq more, Good(disc, v, purged)
  PROVE  Good(disc, v, more)
BY ChainsMay DEF Good

\* The entry of a cluster that nobody owns may be what it likes, but free
\* if entries hang.
LEMMA UnownedChanges ==
  ASSUME NEW v, NEW t, t \in [ClustersOf(v) -> Nat], NEW dir, NEW g, NEW purged,
         Chains(t, dir, v, g, purged), NEW c, c \notin g.has, NEW x, x = 0 \/ purged = {}
  PROVE  Chains([t EXCEPT ![c] = x], dir, v, g, purged)
<1> DEFINE u == [t EXCEPT ![c] = x]
<1>1. \A e \in g.has : u[e] = t[e]
  OBVIOUS
<1>2. \A e : Hangs(e, t, v) /\ x = 0 => Hangs(e, u, v)
  BY DEF Hangs
<1> HIDE DEF u
<1>3. \A e \in g.has : Leads(t, g, e) => Leads(u, g, e)
  BY <1>1 DEF Leads
<1>4. Chains(u, dir, v, g, purged)
  BY <1>2, <1>3 DEF Chains
<1> QED BY <1>4 DEF u

\* The clusters of slot s are nobody's any more.
LEMMA ChainDropped ==
  ASSUME NEW t, NEW u, NEW dir, NEW v, NEW g, NEW s, NEW purged, Chains(t, dir, v, g, {}),
         \A c \in g.has : g.own[c] # s => u[c] = t[c],
         Live(dir[s]) => \/ dir[s].first = 0 /\ dir[s].size = 0
                         \/ s \in purged /\ Hangs(dir[s], u, v)
  PROVE  Chains(u, dir, v, [has |-> {c \in g.has : g.own[c] # s}, own |-> g.own,
                            rank |-> g.rank, len |-> g.len], purged)
<1> DEFINE k == [has |-> {c \in g.has : g.own[c] # s}, own |-> g.own, rank |-> g.rank,
                 len |-> g.len]
<1>1. /\ k.has = {c \in g.has : g.own[c] # s} /\ k.own = g.own /\ k.rank = g.rank
      /\ k.len = g.len
  OBVIOUS
<1> HIDE DEF k
<1>2. \A c \in k.has : Leads(u, k, c)
  BY <1>1 DEF Chains, Leads
<1>3. ASSUME NEW r \in Slots(v), Live(dir[r])
      PROVE  Fed(dir[r], r, v, k) \/ (r \in purged /\ Hangs(dir[r], u, v))
  <2>1. Fed(dir[r], r, v, g)
    BY <1>3 DEF Chains
  <2>2. CASE r = s
    BY <1>3, <2>2 DEF Fed
  <2>3. CASE r # s
    BY <1>1, <2>1, <2>3 DEF Fed
  <2> QED BY <2>2, <2>3
<1>4. Chains(u, dir, v, k, purged)
  BY <1>1, <1>2, <1>3 DEF Chains
<1> QED BY <1>4 DEF k

\* The chain of slot s with cluster c as its only one.
Beginning(v, g, s, c) ==
  [has  |-> {e \in g.has : g.own[e] # s} \union {c},
   own  |-> [e \in ClustersOf(v) |-> IF e = c THEN s ELSE g.own[e]],
   rank |-> [e \in ClustersOf(v) |-> IF e = c THEN 0 ELSE g.rank[e]],
   len  |-> [r \in Slots(v) |-> IF r = s THEN 1 ELSE g.len[r]]]

\* A free cluster is the first of a chain.
LEMMA ChainBegins ==
  ASSUME NEW v, Layout16(v), NEW t, t \in [ClustersOf(v) -> Nat], NEW dir, NEW g,
         Chains(t, dir, v, g, {}), NEW s \in Slots(v), NEW c \in ClustersOf(v), t[c] = 0,
         NEW w, w = Beginning(v, g, s, c), NEW u, u = [t EXCEPT ![c] = EOC],
         Live(dir[s]) => dir[s].first = 0 /\ dir[s].size = 0
  PROVE  Chains(u, dir, v, w, {})
<1>1. c \notin g.has
  BY OwnedIsTaken
<1>2. /\ w.has = {e \in g.has : g.own[e] # s} \union {c}
      /\ w.own = [e \in ClustersOf(v) |-> IF e = c THEN s ELSE g.own[e]]
      /\ w.rank = [e \in ClustersOf(v) |-> IF e = c THEN 0 ELSE g.rank[e]]
      /\ w.len = [r \in Slots(v) |-> IF r = s THEN 1 ELSE g.len[r]]
  BY DEF Beginning
<1>3. u[c] = EOC /\ \A e \in g.has : u[e] = t[e]
  BY <1>1
<1>4. g.has \subseteq ClustersOf(v) /\ w.has \subseteq ClustersOf(v)
  BY <1>2 DEF Chains
<1>5. /\ w.own[c] = s /\ w.rank[c] = 0 /\ w.len[s] = 1
      /\ \A e \in g.has : w.own[e] = g.own[e] /\ w.rank[e] = g.rank[e]
      /\ \A r \in Slots(v) : r # s => w.len[r] = g.len[r]
  BY <1>1, <1>2, <1>4
<1>6. IsEOC(EOC)
  BY DEF IsEOC, EOC
<1>7. ASSUME NEW e \in w.has
      PROVE  /\ w.own[e] \in Slots(v) /\ w.rank[e] \in Nat /\ w.rank[e] < w.len[w.own[e]]
             /\ Leads(u, w, e)
  <2>1. CASE e = c
    BY <1>3, <1>5, <1>6, <2>1 DEF Leads
  <2>2. CASE e # c
    <3>1. /\ e \in g.has /\ g.own[e] # s /\ g.own[e] \in Slots(v) /\ g.rank[e] \in Nat
          /\ g.rank[e] < g.len[g.own[e]] /\ Leads(t, g, e)
      BY <1>2, <2>2 DEF Chains
    <3>2. Leads(u, w, e)
      <4>1. u[e] = t[e] /\ w.own[e] = g.own[e] /\ w.rank[e] = g.rank[e] /\ w.len[g.own[e]] = g.len[g.own[e]]
        BY <1>3, <1>5, <3>1
      <4>2. CASE IsEOC(t[e]) /\ g.rank[e] + 1 = g.len[g.own[e]]
        BY <4>1, <4>2 DEF Leads
      <4>3. CASE t[e] \in g.has /\ g.own[t[e]] = g.own[e] /\ g.rank[t[e]] = g.rank[e] + 1
        <5>1. t[e] \in w.has /\ w.own[t[e]] = g.own[t[e]] /\ w.rank[t[e]] = g.rank[t[e]]
          BY <1>2, <1>5, <3>1, <4>3
        <5> QED BY <4>1, <4>3, <5>1 DEF Leads
      <4> QED BY <3>1, <4>2, <4>3 DEF Leads
    <3> QED BY <1>5, <3>1, <3>2
  <2> QED BY <2>1, <2>2
<1>8. \A r \in Slots(v) : w.len[r] \in Nat
  BY <1>5 DEF Chains
<1>9. ASSUME NEW r \in Slots(v), Live(dir[r])
      PROVE  Fed(dir[r], r, v, w)
  <2>1. Fed(dir[r], r, v, g)
    BY <1>9 DEF Chains
  <2>2. CASE r = s
    BY <1>9, <2>2 DEF Fed
  <2>3. CASE r # s
    BY <1>2, <1>5, <2>1, <2>3 DEF Fed
  <2> QED BY <2>2, <2>3
<1>10. \A e, f1 \in w.has : w.own[e] = w.own[f1] /\ w.rank[e] = w.rank[f1] => e = f1
  BY <1>1, <1>2, <1>5 DEF Chains
<1> QED BY <1>4, <1>7, <1>8, <1>9, <1>10 DEF Chains

\* The chain of slot s with cluster c behind its last.
Extending(v, g, s, c) ==
  [has  |-> g.has \union {c},
   own  |-> [e \in ClustersOf(v) |-> IF e = c THEN s ELSE g.own[e]],
   rank |-> [e \in ClustersOf(v) |-> IF e = c THEN g.len[s] ELSE g.rank[e]],
   len  |-> [r \in Slots(v) |-> IF r = s THEN g.len[s] + 1 ELSE g.len[r]]]

LEMMA Growing ==
  ASSUME NEW i \in Nat, NEW j \in Nat, i <= j, NEW p \in Nat
  PROVE  i * p \in Nat /\ i * p <= j * p
BY SMT

\* And the table with it.
Lengthened(v, g, t, c, cur, s, w, u) ==
  s = g.own[cur] /\ w = Extending(v, g, s, c) /\ u = [t EXCEPT ![c] = EOC, ![cur] = c]

Grown(u, dir, v, g, c, cur, s, w) ==
  /\ Chains(u, dir, v, w, {})
  /\ w.own[c] = s /\ w.rank[c] = g.rank[cur] + 1 /\ w.len[s] = g.len[s] + 1

\* A free cluster is hung behind the last of a chain.
LEMMA ChainGrows ==
  ASSUME NEW v, Layout16(v), NEW t, t \in [ClustersOf(v) -> Nat],
         NEW dir, dir \in [Slots(v) -> DirEntry], NEW g,
         Chains(t, dir, v, g, {}), NEW c \in ClustersOf(v), t[c] = 0,
         NEW cur \in g.has, IsEOC(t[cur]), NEW s, NEW w, NEW u,
         Lengthened(v, g, t, c, cur, s, w, u)
  PROVE  Grown(u, dir, v, g, c, cur, s, w)
<1>1. c \notin g.has /\ c # cur
  BY OwnedIsTaken
<1>2. /\ w.has = g.has \union {c}
      /\ w.own = [e \in ClustersOf(v) |-> IF e = c THEN s ELSE g.own[e]]
      /\ w.rank = [e \in ClustersOf(v) |-> IF e = c THEN g.len[s] ELSE g.rank[e]]
      /\ w.len = [r \in Slots(v) |-> IF r = s THEN g.len[s] + 1 ELSE g.len[r]]
  BY DEF Extending, Lengthened
<1>3. g.has \subseteq ClustersOf(v) /\ w.has \subseteq ClustersOf(v)
  BY <1>2 DEF Chains
<1>4. u[c] = EOC /\ u[cur] = c /\ \A e \in g.has : e # cur => u[e] = t[e]
  BY <1>1, <1>3 DEF Lengthened
<1>5. /\ s \in Slots(v) /\ g.len[s] \in Nat /\ g.rank[cur] \in Nat /\ g.rank[cur] + 1 = g.len[s]
  <2>1. /\ g.own[cur] \in Slots(v) /\ g.rank[cur] \in Nat /\ Leads(t, g, cur) /\ s = g.own[cur]
    BY DEF Chains, Lengthened
  <2>2. t[cur] \notin g.has
    <3>1. v.clusterCount \in Nat /\ v.clusterCount + 1 < EOC
      BY DEF Layout16
    <3>2. \A e \in ClustersOf(v) : ~(e >= EOC)
      BY <3>1 DEF ClustersOf, EOC
    <3> QED BY <1>3, <3>2 DEF IsEOC
  <2> QED BY <2>1, <2>2 DEF Leads, Chains
<1>6. /\ w.own[c] = s /\ w.rank[c] = g.len[s] /\ w.len[s] = g.len[s] + 1
      /\ \A e \in g.has : w.own[e] = g.own[e] /\ w.rank[e] = g.rank[e]
      /\ \A r \in Slots(v) : r # s => w.len[r] = g.len[r]
  BY <1>1, <1>2, <1>3, <1>5
<1>7. IsEOC(EOC)
  BY DEF IsEOC, EOC
<1>8. ASSUME NEW e \in w.has
      PROVE  /\ w.own[e] \in Slots(v) /\ w.rank[e] \in Nat /\ w.rank[e] < w.len[w.own[e]]
             /\ Leads(u, w, e)
  <2>1. CASE e = c
    BY <1>4, <1>5, <1>6, <1>7, <2>1 DEF Leads
  <2>2. CASE e # c
    <3>1. /\ e \in g.has /\ g.own[e] \in Slots(v) /\ g.rank[e] \in Nat
          /\ g.len[g.own[e]] \in Nat /\ g.rank[e] < g.len[g.own[e]] /\ Leads(t, g, e)
      BY <1>2, <2>2 DEF Chains
    <3>2. w.own[e] \in Slots(v) /\ w.rank[e] \in Nat /\ w.rank[e] < w.len[w.own[e]]
      BY <1>5, <1>6, <3>1
    <3>3. CASE e = cur
      <4>1. u[e] = c /\ c \in w.has /\ w.own[c] = w.own[e] /\ w.rank[c] = w.rank[e] + 1
        <5>1. s = g.own[cur]
          BY DEF Lengthened
        <5> QED BY <1>2, <1>4, <1>5, <1>6, <3>1, <3>3, <5>1
      <4> QED BY <3>2, <4>1 DEF Leads
    <3>4. CASE e # cur
      <4>1. u[e] = t[e]
        BY <1>4, <3>1, <3>4
      <4>2. CASE g.own[e] = s /\ IsEOC(t[e]) /\ g.rank[e] + 1 = g.len[g.own[e]]
        <5>1. g.rank[e] = g.rank[cur]
          BY <1>5, <3>1, <4>2
        <5>2. g.own[e] = g.own[cur]
          BY <4>2 DEF Lengthened
        <5>3. e = cur
          BY <3>1, <5>1, <5>2 DEF Chains
        <5> QED BY <3>4, <5>3
      <4>3. CASE g.own[e] # s /\ IsEOC(t[e]) /\ g.rank[e] + 1 = g.len[g.own[e]]
        BY <1>6, <3>1, <4>1, <4>3 DEF Leads
      <4>4. CASE t[e] \in g.has /\ g.own[t[e]] = g.own[e] /\ g.rank[t[e]] = g.rank[e] + 1
        <5>1. /\ t[e] \in w.has /\ w.own[t[e]] = g.own[t[e]] /\ w.rank[t[e]] = g.rank[t[e]]
              /\ w.own[e] = g.own[e] /\ w.rank[e] = g.rank[e]
          BY <1>2, <1>6, <3>1, <4>4
        <5>2. Leads(u, w, e)
          BY <4>1, <4>4, <5>1 DEF Leads
        <5> QED BY <3>2, <5>2
      <4> QED BY <3>1, <4>2, <4>3, <4>4 DEF Leads
    <3> QED BY <3>2, <3>3, <3>4
  <2> QED BY <2>1, <2>2
<1>9. \A r \in Slots(v) : w.len[r] \in Nat
  BY <1>5, <1>6 DEF Chains
<1>10. ASSUME NEW r \in Slots(v), Live(dir[r])
       PROVE  Fed(dir[r], r, v, w)
  <2>1. Fed(dir[r], r, v, g)
    BY <1>10 DEF Chains
  <2>2. PICK p \in Nat : p = PerChain(v)
    BY LayoutAssumption DEF PerChain, Layout16
  <2>3. g.len[r] \in Nat /\ w.len[r] \in Nat /\ g.len[r] <= w.len[r] /\ dir[r].size \in Nat
    BY <1>5, <1>6 DEF Chains, DirEntry
  <2>4. g.len[r] * p <= w.len[r] * p
    BY <2>2, <2>3, Growing
  <2>5. CASE dir[r].first = 0
    BY <2>1, <2>5 DEF Fed
  <2>6. CASE dir[r].first # 0
    <3>1. /\ dir[r].first \in g.has /\ g.own[dir[r].first] = r /\ g.rank[dir[r].first] = 0
          /\ dir[r].size <= g.len[r] * p
      BY <2>1, <2>2, <2>6 DEF Fed
    <3>2. dir[r].size <= w.len[r] * p
      BY <2>2, <2>3, <2>4, <3>1
    <3> QED BY <1>2, <1>6, <2>2, <2>6, <3>1, <3>2 DEF Fed
  <2> QED BY <2>5, <2>6
<1>11. \A e, f1 \in w.has : w.own[e] = w.own[f1] /\ w.rank[e] = w.rank[f1] => e = f1
  BY <1>1, <1>2, <1>5, <1>6 DEF Chains
<1>12. Chains(u, dir, v, w, {})
  BY <1>3, <1>8, <1>9, <1>10, <1>11 DEF Chains
<1> QED BY <1>5, <1>6, <1>12 DEF Grown

\* An entry of the directory changes.
LEMMA EntryChanges ==
  ASSUME NEW t, NEW v, NEW dir, dir \in [Slots(v) -> DirEntry], NEW g, NEW purged, NEW after,
         Chains(t, dir, v, g, purged), NEW s \in Slots(v), NEW e \in DirEntry,
         Live(e) => Fed(e, s, v, g), purged \ {s} \subseteq after
  PROVE  Chains(t, [dir EXCEPT ![s] = e], v, g, after)
<1> DEFINE new == [dir EXCEPT ![s] = e]
<1>1. new[s] = e /\ \A r \in Slots(v) : r # s => new[r] = dir[r]
  OBVIOUS
<1> HIDE DEF new
<1>2. Chains(t, new, v, g, after)
  BY <1>1 DEF Chains
<1> QED BY <1>2 DEF new

-----------------------------------------------------------------------------
\* A volume whose entries all have their chains

Fit(a, v, from, purged, g) == Steady(a, v, from, purged) /\ Chains(Tab(a), Dir(a), v, g, {})

LEMMA FitGood ==
  ASSUME NEW a, NEW v, NEW from, NEW purged, NEW g, Fit(a, v, from, purged, g)
  PROVE  /\ Steady(a, v, from, purged) /\ Layout16(v) /\ Good(View(a), v, purged)
         /\ Tab(a) \in [ClustersOf(v) -> Nat] /\ Dir(a) \in [Slots(v) -> DirEntry]
<1>1. Holds(View(a), v) /\ Layout16(v) /\ a.vol = v
  BY DEF Fit, Steady
<1>2. Good(View(a), v, {})
  BY <1>1 DEF Fit, Good, Tab, Dir
<1>3. Good(View(a), v, purged)
  BY <1>2, GoodMay
<1>4. Tab(a) \in [ClustersOf(v) -> Nat] /\ Dir(a) \in [Slots(v) -> DirEntry]
  BY <1>1, HoldsTypes DEF Tab, Dir
<1> QED BY <1>1, <1>3, <1>4 DEF Fit

LEMMA FitKept ==
  ASSUME NEW a, NEW z, NEW v, NEW from, NEW purged, NEW g, Fit(a, v, from, purged, g),
         Kept(a, z, v, from, purged)
  PROVE  Fit(z, v, from, purged, g)
BY DEF Fit, Kept, SameView

\* A cluster is not linked to itself.
LEMMA OneIsNotLinked ==
  ASSUME NEW a, NEW c \in Nat
  PROVE  LinkClusters(a, c, c) = a
<1> DEFINE To(k, run) == run = [n \in 0 .. k |-> IF n = 0 THEN a
                                                 ELSE FatPut(run[n - 1], c - n, c - n + 1)]
           run == CHOOSE run : To(c - c, run)
<1>1. c - c = 0
  OBVIOUS
<1>2. To(0, [n \in 0 .. 0 |-> a])
  OBVIOUS
<1>3. To(c - c, run)
  BY <1>1, <1>2
<1>4. LinkClusters(a, c, c) = run[c - c]
  BY DEF LinkClusters
<1> HIDE DEF run
<1>5. run[0] = a
  BY <1>1, <1>3
<1> QED BY <1>1, <1>4, <1>5

\* A free cluster has been made the end of a chain, and hung behind cluster
\* cur if that is not 0; or z has failed.
Allotment(a, z, cur, v, from, purged) ==
  /\ Steady(z, v, from, purged) /\ Dir(z) = Dir(a)
  /\ z.got = a.got /\ z.unit = a.unit /\ z.vol = a.vol /\ z.f = a.f /\ z.d = a.d
  /\ z.ok => a.ok
  /\ a.left = 0 => z.left = 0
  /\ ~z.ok => \/ Tab(z) = Tab(a)
              \/ \E c \in ClustersOf(v) : Tab(a)[c] = 0 /\ Tab(z) = [Tab(a) EXCEPT ![c] = EOC]
  /\ z.ok => /\ z.val \in ClustersOf(v) /\ Tab(a)[z.val] = 0
             /\ cur = 0 => Tab(z) = [Tab(a) EXCEPT ![z.val] = EOC]
             /\ cur # 0 => cur \in ClustersOf(v)
                           /\ Tab(z) = [Tab(a) EXCEPT ![z.val] = EOC, ![cur] = z.val]

\* What is allotted was free.
THEOREM AllocContiguousDoes ==
  ASSUME NEW a, NEW v, NEW from, NEW purged, NEW g, Fit(a, v, from, purged, g),
         NEW cur \in Nat, NEW z, z = AllocContiguous(a, 1, cur)
  PROVE  Allotment(a, z, cur, v, from, purged)
<1> DEFINE bgn == IF cur # 0 THEN cur + 1 ELSE a.start
           w == FindClusters(a, bgn, 1)
<1>1. /\ Steady(a, v, from, purged) /\ Layout16(v) /\ Good(View(a), v, purged)
      /\ Tab(a) \in [ClustersOf(v) -> Nat]
  BY FitGood
<1>2. bgn \in Nat /\ bgn >= 2
  <2>1. a.start \in Nat /\ a.start >= 2
    BY <1>1 DEF Steady
  <2> QED BY <2>1
<1>3. z = Chained(w, 1, cur)
  BY DEF AllocContiguous
<1> HIDE DEF bgn
<1>4. Found(a, w, v, from, purged)
  BY <1>1, <1>2, FindClustersDoes
<1> HIDE DEF w
<1>5. /\ Kept(a, w, v, from, purged) /\ Steady(w, v, from, purged) /\ w.ok \in BOOLEAN
      /\ Tab(w) = Tab(a) /\ Dir(w) = Dir(a) /\ SameRest(a, w)
      /\ w.ok => a.ok
      /\ a.left = 0 => w.left = 0
  BY <1>4 DEF Found, Kept, SameView, Steady
<1>6. CASE ~w.ok
  <2>1. z = w
    BY <1>3, <1>6 DEF Chained
  <2> QED BY <1>5, <1>6, <2>1 DEF Allotment, SameRest
<1>7. CASE w.ok
  <2>1. PICK c \in ClustersOf(v) : w.val = <<c, c>> /\ Tab(a)[c] = 0
    BY <1>4, <1>7 DEF Found
  <2>2. c \in Nat /\ c >= 2
    BY DEF ClustersOf
  <2> DEFINE y == FatPut(w, c, EOC)
             x == IF cur # 0 THEN FatPut(y, cur, c) ELSE y
  <2>3. LinkClusters(y, c, c) = y
    BY <2>2, OneIsNotLinked
  <2>4. w.val[1] = c /\ w.val[2] = c
    BY <2>1
  <2>5. z = Allotted(x, c, cur = 0)
    BY <1>3, <1>7, <2>3, <2>4 DEF Chained
  <2>6. Good(View(w), v, purged) /\ Fit(w, v, from, purged, g)
    BY <1>1, <1>5, KeptGood, FitKept
  <2>7. EOC \in Nat
    BY DEF EOC
  <2>8. Noted(w, y, c, EOC, v, from, purged)
    BY <1>5, <2>2, <2>6, <2>7, FatPutDoes
  <2> HIDE DEF y
  <2>9. /\ Steady(y, v, from, purged) /\ SameRest(w, y) /\ Dir(y) = Dir(a) /\ y.ok \in BOOLEAN
        /\ a.left = 0 => y.left = 0
        /\ ~y.ok => Tab(y) = Tab(a)
        /\ y.ok => Tab(y) = [Tab(a) EXCEPT ![c] = EOC]
    BY <1>5, <2>8 DEF Noted, Steady
  <2>10. c \notin g.has
    BY <1>1, <2>1, OwnedIsTaken DEF Fit
  <2>11. Chains(Tab(y), Dir(y), v, g, {})
    BY <1>1, <2>9, <2>10, UnownedChanges DEF Fit
  <2>12. Fit(y, v, from, purged, g)
    BY <2>9, <2>11 DEF Fit
  <2>13. /\ Steady(x, v, from, purged) /\ SameRest(w, x) /\ Dir(x) = Dir(a) /\ x.ok \in BOOLEAN
         /\ a.left = 0 => x.left = 0
         /\ ~x.ok => Tab(x) = Tab(a) \/ Tab(x) = [Tab(a) EXCEPT ![c] = EOC]
         /\ x.ok /\ cur = 0 => Tab(x) = [Tab(a) EXCEPT ![c] = EOC]
         /\ x.ok /\ cur # 0 => cur \in ClustersOf(v)
                               /\ Tab(x) = [Tab(a) EXCEPT ![c] = EOC, ![cur] = c]
    <3>1. CASE cur = 0
      BY <2>9, <3>1
    <3>2. CASE cur # 0
      <4>1. x = FatPut(y, cur, c)
        BY <3>2
      <4>2. Good(View(y), v, purged)
        BY <2>12, FitGood
      <4> HIDE DEF x
      <4>3. Noted(y, x, cur, c, v, from, purged)
        BY <2>2, <2>9, <4>1, <4>2, FatPutDoes
      <4>4. /\ Steady(x, v, from, purged) /\ SameRest(y, x) /\ Dir(x) = Dir(y) /\ x.ok \in BOOLEAN
            /\ y.left = 0 => x.left = 0
            /\ ~x.ok => Tab(x) = Tab(y)
            /\ x.ok => y.ok /\ cur \in ClustersOf(v) /\ Tab(x) = [Tab(y) EXCEPT ![cur] = c]
        BY <4>3 DEF Noted, Steady
      <4>5. SameRest(w, x)
        BY <2>9, <4>4 DEF SameRest
      <4> QED BY <2>9, <3>2, <4>4, <4>5
    <3> QED BY <3>1, <3>2
  <2> HIDE DEF x
  <2>14. CASE ~x.ok
    <3>1. z = x
      BY <2>5, <2>14 DEF Allotted
    <3> QED BY <1>5, <1>7, <2>1, <2>13, <2>14, <3>1 DEF Allotment, SameRest
  <2>15. CASE x.ok
    <3>1. z = [x EXCEPT !.val = c, !.start = IF cur = 0 THEN c + 1 ELSE x.start]
      BY <2>5, <2>15 DEF Allotted
    <3>2. IsMachine(x) /\ x.start \in Nat /\ x.start >= 2
      BY <2>13 DEF Steady
    <3>3. /\ IsMachine(z) /\ z.got = x.got /\ z.unit = x.unit /\ z.vol = x.vol /\ z.f = x.f /\ z.d = x.d
          /\ z.disk = x.disk /\ z.log = x.log /\ z.left = x.left /\ z.ok = x.ok /\ z.blk = x.blk
          /\ z.buf = x.buf /\ z.dirty = x.dirty /\ z.mirror = x.mirror /\ z.val = c
          /\ z.start = IF cur = 0 THEN c + 1 ELSE x.start
      BY <3>1, <3>2 DEF IsMachine, MachineFields
    <3>4. z.start \in Nat /\ z.start >= 2
      BY <2>2, <3>2, <3>3
    <3>5. View(z) = View(x)
      BY <3>3 DEF View
    <3>6. Steady(z, v, from, purged)
      BY <2>13, <3>3, <3>4, <3>5 DEF Steady
    <3>7. Tab(z) = Tab(x) /\ Dir(z) = Dir(x)
      BY <3>3, <3>5 DEF Tab, Dir
    <3>8. /\ z.got = a.got /\ z.unit = a.unit /\ z.vol = a.vol /\ z.f = a.f /\ z.d = a.d
      BY <1>5, <2>13, <3>3 DEF SameRest
    <3> QED BY <1>5, <1>7, <2>1, <2>13, <2>15, <3>3, <3>6, <3>7, <3>8 DEF Allotment
  <2> QED BY <2>13, <2>14, <2>15
<1> QED BY <1>5, <1>6, <1>7

\* From number to number.
LEMMA Upwards ==
  ASSUME NEW S, NEW k \in Nat, 0 \in S, \A n \in 1 .. k : n - 1 \in S => n \in S
  PROVE  \A n \in 0 .. k : n \in S
<1> DEFINE R == {n \in 0 .. k : n \notin S}
<1>1. CASE R = {}
  BY <1>1
<1>2. CASE R # {}
  <2>1. R \subseteq Nat
    OBVIOUS
  <2>2. PICK n \in R : \A j \in R : n <= j
    BY <1>2, <2>1, LeastNumber
  <2>3. n # 0 /\ n \in 1 .. k /\ n - 1 \in 0 .. k /\ n - 1 \notin R
    BY <2>2
  <2> QED BY <2>2, <2>3
<1> QED BY <1>1, <1>2

-----------------------------------------------------------------------------
\* The clusters of a file are freed

SameHands(a, z) ==
  z.got = a.got /\ z.unit = a.unit /\ z.vol = a.vol /\ z.f = a.f /\ z.d = a.d

\* One cluster after the other.
FreeingTo(a, c, k, run) ==
  run = [n \in 0 .. k |-> IF n = 0 THEN [at |-> [a EXCEPT !.start = 2], c |-> c, done |-> FALSE]
                          ELSE Freed(run[n - 1])]

LEMMA FreeingExists ==
  ASSUME NEW a, NEW c
  PROVE  \A k \in Nat : \E run : FreeingTo(a, c, k, run)
<1> DEFINE S == {k \in Nat : ~\E run : FreeingTo(a, c, k, run)}
<1>1. CASE S = {}
  BY <1>1
<1>2. CASE S # {}
  <2>1. PICK k \in S : \A j \in S : k <= j
    BY <1>2, LeastNumber
  <2>2. CASE k = 0
    <3> DEFINE run == [n \in 0 .. 0 |-> [at |-> [a EXCEPT !.start = 2], c |-> c, done |-> FALSE]]
    <3>1. FreeingTo(a, c, 0, run)
      BY DEF FreeingTo
    <3> QED BY <2>1, <2>2, <3>1
  <2>3. CASE k # 0
    <3>1. k - 1 \in Nat /\ k - 1 \notin S
      BY <2>1, <2>3
    <3>2. PICK run : FreeingTo(a, c, k - 1, run)
      BY <3>1
    <3> DEFINE on == [n \in 0 .. k |-> IF n = k THEN Freed(run[n - 1]) ELSE run[n]]
    <3>3. \A n \in 0 .. k - 1 : /\ on[n] = run[n]
                                /\ run[n] = IF n = 0 THEN [at |-> [a EXCEPT !.start = 2], c |-> c, done |-> FALSE]
                                            ELSE Freed(run[n - 1])
      <4>1. \A n \in 0 .. k - 1 : n \in 0 .. k /\ n # k
        BY <2>1
      <4>2. \A n \in 0 .. k - 1 : run[n] = IF n = 0 THEN [at |-> [a EXCEPT !.start = 2], c |-> c, done |-> FALSE]
                                           ELSE Freed(run[n - 1])
        BY <3>2, Zenon DEF FreeingTo
      <4> QED BY <4>1, <4>2, Zenon
    <3>4. \A n \in 0 .. k : on[n] = IF n = 0 THEN [at |-> [a EXCEPT !.start = 2], c |-> c, done |-> FALSE]
                                     ELSE Freed(on[n - 1])
      <4> SUFFICES ASSUME NEW n \in 0 .. k
                   PROVE  on[n] = IF n = 0 THEN [at |-> [a EXCEPT !.start = 2], c |-> c, done |-> FALSE] ELSE Freed(on[n - 1])
        OBVIOUS
      <4> HIDE DEF on
      <4>1. CASE n = k
        <5>1. on[k] = Freed(run[k - 1]) /\ k - 1 \in 0 .. k - 1
          BY <2>1, <2>3 DEF on
        <5> QED BY <2>3, <3>3, <4>1, <5>1
      <4>2. CASE n # k
        <5>1. n \in 0 .. k - 1 /\ (n # 0 => n - 1 \in 0 .. k - 1)
          BY <2>1, <4>2
        <5> QED BY <3>3, <5>1
      <4> QED BY <4>1, <4>2
    <3>5. FreeingTo(a, c, k, on)
      <4>1. on = [n \in 0 .. k |-> on[n]]
        OBVIOUS
      <4> HIDE DEF on
      <4> QED BY <3>4, <4>1, Zenon DEF FreeingTo
    <3> QED BY <2>1, <3>5
  <2> QED BY <2>2, <2>3
<1> QED BY <1>1, <1>2

FreeingRun(a, c, k, run) ==
  /\ run[0] = [at |-> [a EXCEPT !.start = 2], c |-> c, done |-> FALSE]
  /\ \A n \in 1 .. k : run[n] = Freed(run[n - 1])

LEMMA FreeingRuns ==
  ASSUME NEW a, NEW c, NEW k \in Nat, NEW run, FreeingTo(a, c, k, run)
  PROVE  FreeingRun(a, c, k, run)
<1>1. \A n \in 0 .. k : run[n] = IF n = 0 THEN [at |-> [a EXCEPT !.start = 2], c |-> c, done |-> FALSE]
                                 ELSE Freed(run[n - 1])
  BY Zenon DEF FreeingTo
<1>2. 0 \in 0 .. k /\ \A n \in 1 .. k : n \in 0 .. k /\ n # 0
  OBVIOUS
<1> QED BY <1>1, <1>2, Zenon DEF FreeingRun

LEMMA FreeingIs ==
  ASSUME NEW a, NEW c, NEW last \in Nat, last = FatEnd(a) + 1
  PROVE  \E run : FreeingRun(a, c, last, run) /\ FreeChain(a, c) = run[last].at
<1> DEFINE run == CHOOSE run : FreeingTo(a, c, last, run)
<1>1. FreeingTo(a, c, last, run)
  BY FreeingExists
<1>2. FreeChain(a, c) = run[last].at
  BY DEF FreeChain, FreeingTo
<1> HIDE DEF run
<1>3. FreeingRun(a, c, last, run)
  BY <1>1, FreeingRuns
<1> QED BY <1>2, <1>3, Zenon

\* Clusters of slot s have been freed, the one its entry names before all.
Drained(a, z, v, from, purged, g, s) ==
  /\ Steady(z, v, from, purged) /\ SameHands(a, z) /\ Dir(z) = Dir(a)
  /\ Faulty(a, z) /\ (z.ok => a.ok)
  /\ \A e \in g.has : g.own[e] # s => Tab(z)[e] = Tab(a)[e]
  /\ Tab(z) = Tab(a) \/ Tab(z)[Dir(a)[s].first] = 0

Draining(r, a, v, from, purged, g, s) ==
  /\ r = [at |-> r.at, c |-> r.c, done |-> r.done]
  /\ r.done \in BOOLEAN
  /\ Drained(a, r.at, v, from, purged, g, s)
  /\ ~r.done /\ r.at.ok =>
       /\ r.c \in g.has /\ g.own[r.c] = s
       /\ \A e \in g.has : g.own[e] = s /\ g.rank[e] >= g.rank[r.c] => Tab(r.at)[e] = Tab(a)[e]
       /\ Tab(r.at) = Tab(a) => r.c = Dir(a)[s].first

\* The file CACHE, of slot s, whose clusters are to be freed.
Doomed(a, v, from, purged, g, s) ==
  /\ Fit(a, v, from, purged, g) /\ s \in Slots(v) /\ s \in purged
  /\ Dir(a)[s].name = "CACHE" /\ Dir(a)[s].first # 0

LEMMA DrainedGood ==
  ASSUME NEW a, NEW v, NEW from, NEW purged, NEW g, NEW s, Doomed(a, v, from, purged, g, s),
         NEW z, Drained(a, z, v, from, purged, g, s)
  PROVE  /\ \E k : Chains(Tab(z), Dir(z), v, k, {s})
         /\ Good(View(z), v, purged)
<1>1. /\ Chains(Tab(a), Dir(a), v, g, {}) /\ s \in Slots(v) /\ {s} \subseteq purged
      /\ Dir(a)[s].name = "CACHE" /\ Dir(a)[s].first # 0
  BY DEF Doomed, Fit
<1>2. /\ Dir(z) = Dir(a) /\ Holds(View(z), v) /\ z.vol = v
      /\ \A e \in g.has : g.own[e] # s => Tab(z)[e] = Tab(a)[e]
      /\ Tab(z) = Tab(a) \/ Tab(z)[Dir(a)[s].first] = 0
  BY DEF Drained, Steady
<1>3. PICK k : Chains(Tab(z), Dir(z), v, k, {s})
  <2>1. CASE Tab(z) = Tab(a)
    <3>1. {} \subseteq {s} /\ Chains(Tab(z), Dir(z), v, g, {})
      BY <1>1, <1>2, <2>1
    <3>2. Chains(Tab(z), Dir(z), v, g, {s})
      BY <3>1 DEF Chains
    <3> QED BY <3>2
  <2>2. CASE Tab(z) # Tab(a)
    <3>1. Fed(Dir(a)[s], s, v, g)
      <4>1. Live(Dir(a)[s])
        BY <1>1 DEF Live
      <4> QED BY <1>1, <4>1 DEF Chains
    <3>2. Dir(a)[s].first \in ClustersOf(v)
      BY <1>1, <3>1 DEF Fed, Chains
    <3>3. Hangs(Dir(z)[s], Tab(z), v)
      BY <1>1, <1>2, <2>2, <3>2 DEF Hangs
    <3>4. Chains(Tab(z), Dir(z), v, [has |-> {c \in g.has : g.own[c] # s}, own |-> g.own,
                                      rank |-> g.rank, len |-> g.len], {s})
      BY <1>1, <1>2, <3>3, ChainDropped
    <3> QED BY <3>4
  <2> QED BY <2>1, <2>2
<1>4. Chains(Tab(z), Dir(z), v, k, purged)
  BY <1>1, <1>3 DEF Chains
<1> QED BY <1>2, <1>3, <1>4 DEF Good, Tab, Dir

LEMMA FreedKeeps ==
  ASSUME NEW a, NEW v, NEW from, NEW purged, NEW g, NEW s, Doomed(a, v, from, purged, g, s),
         NEW r, Draining(r, a, v, from, purged, g, s), NEW z, z = Freed(r)
  PROVE  Draining(z, a, v, from, purged, g, s)
<1>0. /\ r = [at |-> r.at, c |-> r.c, done |-> r.done] /\ r.done \in BOOLEAN
      /\ Drained(a, r.at, v, from, purged, g, s) /\ r.at.ok \in BOOLEAN
  BY DEF Draining, Drained, Steady
<1>1. CASE r.done \/ ~r.at.ok
  <2>1. z = r
    BY <1>1 DEF Freed
  <2> QED BY <2>1
<1>2. CASE ~r.done /\ r.at.ok
  <2> DEFINE w == FatGet(r.at, r.c)
  <2>1. /\ r.c \in g.has /\ g.own[r.c] = s
        /\ \A e \in g.has : g.own[e] = s /\ g.rank[e] >= g.rank[r.c] => Tab(r.at)[e] = Tab(a)[e]
        /\ Tab(r.at) = Tab(a) => r.c = Dir(a)[s].first
    BY <1>2 DEF Draining
  <2>2. /\ Steady(r.at, v, from, purged) /\ Good(View(r.at), v, purged)
        /\ Tab(r.at) \in [ClustersOf(v) -> Nat] /\ Layout16(v)
    <3>1. Steady(r.at, v, from, purged)
      BY <1>0 DEF Drained
    <3>2. Layout16(v) /\ Holds(View(r.at), v) /\ r.at.vol = v
      BY <3>1 DEF Steady
    <3> QED BY <1>0, <3>1, <3>2, DrainedGood, HoldsTypes DEF Tab
  <2>3. r.c \in ClustersOf(v) /\ r.c \in Nat /\ g.rank[r.c] \in Nat /\ Leads(Tab(a), g, r.c)
    BY <2>1 DEF Doomed, Fit, Chains, ClustersOf
  <2>4. z = IF ~w.ok THEN [r EXCEPT !.at = w]
            ELSE [at |-> FatPut(w, r.c, 0), c |-> w.val, done |-> IsEOC(w.val)]
    BY <1>2 DEF Freed
  <2>5. Looked(r.at, w, r.c, v, from, purged)
    BY <2>2, <2>3, FatGetDoes
  <2> HIDE DEF w
  <2>6. /\ Kept(r.at, w, v, from, purged) /\ Steady(w, v, from, purged) /\ w.ok \in BOOLEAN
        /\ Tab(w) = Tab(r.at) /\ Dir(w) = Dir(r.at) /\ SameRest(r.at, w)
        /\ w.ok => w.val = Tab(r.at)[r.c]
        /\ Faulty(r.at, w)
    <3>1. r.c <= v.clusterCount + 1
      BY <2>2, <2>3 DEF ClustersOf, Layout16
    <3> QED BY <2>3, <2>5, <3>1 DEF Looked, Kept, SameView, Steady
  <2>7. Drained(a, w, v, from, purged, g, s)
    <3>1. Faulty(a, w)
      BY <1>0, <1>2, <2>6, FaultyOn DEF Drained
    <3> QED BY <1>0, <1>2, <2>6, <3>1 DEF Drained, SameHands, SameRest
  <2>8. CASE ~w.ok
    <3>1. z = [at |-> w, c |-> r.c, done |-> r.done]
      BY <1>0, <2>4, <2>8
    <3>2. z.at = w /\ z.c = r.c /\ z.done = r.done
          /\ z = [at |-> z.at, c |-> z.c, done |-> z.done]
      BY <3>1
    <3> QED BY <1>0, <2>7, <2>8, <3>2 DEF Draining
  <2>9. CASE w.ok
    <3> DEFINE y == FatPut(w, r.c, 0)
    <3>1. z = [at |-> y, c |-> w.val, done |-> IsEOC(w.val)]
      BY <2>4, <2>9
    <3>2. Good(View(w), v, purged)
      BY <2>7, DrainedGood
    <3>3. Noted(w, y, r.c, 0, v, from, purged)
      BY <2>3, <2>6, <3>2, FatPutDoes
    <3> HIDE DEF y
    <3>4. /\ Steady(y, v, from, purged) /\ SameRest(w, y) /\ Dir(y) = Dir(w)
          /\ Faulty(w, y) /\ (y.ok => w.ok) /\ y.ok \in BOOLEAN
          /\ ~y.ok => Tab(y) = Tab(w)
          /\ y.ok => Tab(y) = [Tab(w) EXCEPT ![r.c] = 0]
      BY <2>3, <3>3 DEF Noted, Steady
    <3>5. Faulty(a, y)
      BY <2>7, <3>4, FaultyOn DEF Drained
    <3>6. SameHands(a, y)
      BY <2>7, <3>4 DEF Drained, SameHands, SameRest
    <3>7. /\ \A e \in ClustersOf(v) : e # r.c => Tab(y)[e] = Tab(w)[e]
          /\ y.ok => Tab(y)[r.c] = 0
      BY <2>2, <2>3, <2>6, <3>4
    <3>8. \A e \in g.has : e \in ClustersOf(v)
      BY DEF Doomed, Fit, Chains
    <3>9. \A e \in g.has : g.own[e] # s => Tab(y)[e] = Tab(a)[e]
      BY <2>1, <2>7, <3>7, <3>8 DEF Drained
    <3>10. Tab(y) = Tab(a) \/ Tab(y)[Dir(a)[s].first] = 0
      <4>1. CASE ~y.ok
        BY <2>7, <3>4, <4>1 DEF Drained
      <4>2. CASE y.ok /\ Tab(w) = Tab(a)
        BY <2>1, <2>6, <3>7, <4>2
      <4>3. CASE y.ok /\ Tab(w)[Dir(a)[s].first] = 0
        <5>1. Dir(a)[s].first \in ClustersOf(v)
          <6>1. Live(Dir(a)[s]) /\ Dir(a)[s].first # 0 /\ s \in Slots(v)
            BY DEF Doomed, Live
          <6> QED BY <3>8, <6>1 DEF Doomed, Fit, Chains, Fed
        <5>2. Tab(y)[Dir(a)[s].first] = 0
          BY <3>7, <4>3, <5>1
        <5> QED BY <5>2
      <4> QED BY <2>7, <3>4, <4>1, <4>2, <4>3 DEF Drained
    <3>11. Drained(a, y, v, from, purged, g, s)
      BY <2>7, <3>4, <3>5, <3>6, <3>9, <3>10 DEF Drained
    <3>12. ~IsEOC(w.val) => /\ w.val \in g.has /\ g.own[w.val] = s
                            /\ g.rank[w.val] = g.rank[r.c] + 1
      <4>1. g.rank[r.c] >= g.rank[r.c]
        BY <2>3
      <4>2. w.val = Tab(a)[r.c]
        BY <2>1, <2>6, <2>9, <4>1
      <4> QED BY <2>1, <2>3, <4>2 DEF Leads
    <3>13. ~IsEOC(w.val) /\ y.ok =>
             \A e \in g.has : g.own[e] = s /\ g.rank[e] >= g.rank[w.val] => Tab(y)[e] = Tab(a)[e]
      <4> SUFFICES ASSUME ~IsEOC(w.val), y.ok, NEW e \in g.has, g.own[e] = s,
                          g.rank[e] >= g.rank[w.val]
                   PROVE  Tab(y)[e] = Tab(a)[e]
        OBVIOUS
      <4>1. g.rank[e] \in Nat
        BY DEF Doomed, Fit, Chains
      <4>2. g.rank[e] >= g.rank[r.c] /\ e # r.c
        BY <2>3, <3>12, <4>1
      <4> QED BY <2>1, <2>6, <3>7, <3>8, <4>2
    <3>14. y.ok => Tab(y) # Tab(a)
      <4>1. Tab(a)[r.c] # 0
        BY <2>1, OwnedIsTaken DEF Doomed, Fit, Steady
      <4> QED BY <3>7, <4>1
    <3>15. IsEOC(w.val) \in BOOLEAN
      BY DEF IsEOC
    <3>16. z.at = y /\ z.c = w.val /\ z.done = IsEOC(w.val)
           /\ z = [at |-> z.at, c |-> z.c, done |-> z.done]
      BY <3>1
    <3> QED BY <3>11, <3>12, <3>13, <3>14, <3>15, <3>16 DEF Draining
  <2> QED BY <2>6, <2>8, <2>9
<1> QED BY <1>0, <1>1, <1>2

\* FreeChain frees the clusters of the one entry, and no others.
THEOREM FreeChainDoes ==
  ASSUME NEW a, NEW v, NEW from, NEW purged, NEW g, NEW s, Doomed(a, v, from, purged, g, s),
         NEW z, z = FreeChain(a, Dir(a)[s].first)
  PROVE  Drained(a, z, v, from, purged, g, s)
<1> DEFINE c == Dir(a)[s].first
           b == [a EXCEPT !.start = 2]
<1>1. /\ Steady(a, v, from, purged) /\ IsMachine(a) /\ a.vol = v /\ v.clusterCount \in Nat
      /\ Layout16(v)
  BY DEF Doomed, Fit, Steady, Layout16
<1>2. PICK last \in Nat : last = FatEnd(a) + 1
  BY <1>1 DEF FatEnd
<1>3. PICK run : FreeingRun(a, c, last, run) /\ FreeChain(a, c) = run[last].at
  BY <1>2, FreeingIs
<1>4. c \in g.has /\ g.own[c] = s
  <2>1. Live(Dir(a)[s]) /\ Dir(a)[s].first # 0 /\ s \in Slots(v)
    BY DEF Doomed, Live
  <2>2. Fed(Dir(a)[s], s, v, g)
    BY <2>1 DEF Doomed, Fit, Chains
  <2> QED BY <2>1, <2>2 DEF Fed
<1> HIDE DEF c
<1>5. Draining(run[0], a, v, from, purged, g, s)
  <2>1. run[0] = [at |-> b, c |-> c, done |-> FALSE]
    BY <1>3 DEF FreeingRun
  <2>2. /\ IsMachine(b) /\ b.got = a.got /\ b.unit = a.unit /\ b.vol = a.vol /\ b.f = a.f /\ b.d = a.d
        /\ b.disk = a.disk /\ b.log = a.log /\ b.left = a.left /\ b.ok = a.ok /\ b.blk = a.blk
        /\ b.buf = a.buf /\ b.dirty = a.dirty /\ b.mirror = a.mirror /\ b.val = a.val
        /\ b.start = 2
    BY <1>1 DEF IsMachine, MachineFields
  <2> HIDE DEF b
  <2>3. View(b) = View(a)
    BY <2>2 DEF View
  <2>4. Steady(b, v, from, purged)
    BY <1>1, <2>2, <2>3 DEF Steady
  <2>5. Drained(a, b, v, from, purged, g, s)
    BY <2>2, <2>3, <2>4 DEF Drained, SameHands, Tab, Dir, Faulty, Safe
  <2>6. run[0].at = b /\ run[0].c = c /\ run[0].done = FALSE
        /\ run[0] = [at |-> run[0].at, c |-> run[0].c, done |-> run[0].done]
    BY <2>1
  <2>7. Tab(b) = Tab(a)
    BY <2>2, <2>3 DEF Tab
  <2> QED BY <1>4, <2>5, <2>6, <2>7 DEF Draining, c
<1> DEFINE S == {n \in 0 .. last : Draining(run[n], a, v, from, purged, g, s)}
<1>6. 0 \in S
  BY <1>5
<1>7. \A n \in 1 .. last : n - 1 \in S => n \in S
  <2> SUFFICES ASSUME NEW n \in 1 .. last, n - 1 \in S
               PROVE  n \in S
    OBVIOUS
  <2>1. run[n] = Freed(run[n - 1]) /\ n \in 0 .. last
    BY <1>3 DEF FreeingRun
  <2>2. Draining(run[n - 1], a, v, from, purged, g, s)
    OBVIOUS
  <2>3. Draining(run[n], a, v, from, purged, g, s)
    BY <2>1, <2>2, FreedKeeps
  <2> QED BY <2>1, <2>3
<1> HIDE DEF S
<1>8. last \in S
  BY <1>6, <1>7, Upwards
<1>9. Draining(run[last], a, v, from, purged, g, s)
  BY <1>8 DEF S
<1> QED BY <1>3, <1>9 DEF Draining, c

-----------------------------------------------------------------------------
\* Steps that show the same table and directory, whatever the handles do

Moved(a, z, v, from, purged) ==
  /\ Steady(z, v, from, purged) /\ SameView(a, z) /\ z.vol = a.vol
  /\ a.left = 0 => z.left = 0

LEMMA MovedKept ==
  ASSUME NEW a, NEW z, NEW v, NEW from, NEW purged, Kept(a, z, v, from, purged)
  PROVE  Moved(a, z, v, from, purged)
BY DEF Kept, Moved, SameRest

LEMMA MovedOn ==
  ASSUME NEW a, NEW y, NEW z, NEW v, NEW from, NEW purged,
         Moved(a, y, v, from, purged), Moved(y, z, v, from, purged)
  PROVE  Moved(a, z, v, from, purged)
BY DEF Moved, SameView

LEMMA MovedGood ==
  ASSUME NEW a, NEW z, NEW v, NEW from, NEW purged, Steady(a, v, from, purged),
         Good(View(a), v, purged), Moved(a, z, v, from, purged)
  PROVE  Steady(z, v, from, purged) /\ Good(View(z), v, purged)
<1>1. /\ Holds(View(z), v) /\ a.vol = v /\ z.vol = v /\ Steady(z, v, from, purged)
      /\ TableOf(View(z), v) = TableOf(View(a), v) /\ DirOf(View(z), v) = DirOf(View(a), v)
  BY DEF Moved, Steady, SameView, Tab, Dir
<1> QED BY <1>1, GoodSame, Zenon

LEMMA FitMoved ==
  ASSUME NEW a, NEW z, NEW v, NEW from, NEW purged, NEW g, Fit(a, v, from, purged, g),
         Moved(a, z, v, from, purged)
  PROVE  Fit(z, v, from, purged, g)
BY DEF Fit, Moved, SameView

\* The card and the cache are the same.
OneCard(a, z) ==
  /\ IsMachine(z)
  /\ z.disk = a.disk /\ z.log = a.log /\ z.left = a.left /\ z.blk = a.blk /\ z.buf = a.buf
  /\ z.dirty = a.dirty /\ z.mirror = a.mirror /\ z.start = a.start /\ z.vol = a.vol

LEMMA SameCardMoved ==
  ASSUME NEW a, NEW z, NEW v, NEW from, NEW purged, Steady(a, v, from, purged),
         OneCard(a, z), z.ok \in BOOLEAN
  PROVE  Moved(a, z, v, from, purged) /\ StillDirty(a, z) /\ View(z) = View(a)
<1>1. View(z) = View(a)
  BY DEF OneCard, View
<1>2. Steady(z, v, from, purged)
  BY <1>1 DEF OneCard, Steady
<1>3. SameView(a, z) /\ StillDirty(a, z)
  BY <1>1 DEF OneCard, SameView, Tab, Dir, StillDirty
<1> QED BY <1>1, <1>2, <1>3 DEF Moved, OneCard

LEMMA StillDirtyOn ==
  ASSUME NEW a, NEW y, NEW z, StillDirty(a, y), StillDirty(y, z)
  PROVE  StillDirty(a, z)
BY DEF StillDirty

-----------------------------------------------------------------------------
\* The length of a chain

\* One cluster after the other.
ChainTo(a, c, k, run) ==
  run = [n \in 0 .. k |-> IF n = 0 THEN [at |-> a, c |-> c, done |-> FALSE, size |-> 0]
                          ELSE Measured(run[n - 1])]

LEMMA ChainExists ==
  ASSUME NEW a, NEW c
  PROVE  \A k \in Nat : \E run : ChainTo(a, c, k, run)
<1> DEFINE S == {k \in Nat : ~\E run : ChainTo(a, c, k, run)}
<1>1. CASE S = {}
  BY <1>1
<1>2. CASE S # {}
  <2>1. PICK k \in S : \A j \in S : k <= j
    BY <1>2, LeastNumber
  <2>2. CASE k = 0
    <3> DEFINE run == [n \in 0 .. 0 |-> [at |-> a, c |-> c, done |-> FALSE, size |-> 0]]
    <3>1. ChainTo(a, c, 0, run)
      BY DEF ChainTo
    <3> QED BY <2>1, <2>2, <3>1
  <2>3. CASE k # 0
    <3>1. k - 1 \in Nat /\ k - 1 \notin S
      BY <2>1, <2>3
    <3>2. PICK run : ChainTo(a, c, k - 1, run)
      BY <3>1
    <3> DEFINE on == [n \in 0 .. k |-> IF n = k THEN Measured(run[n - 1]) ELSE run[n]]
    <3>3. \A n \in 0 .. k - 1 : /\ on[n] = run[n]
                                /\ run[n] = IF n = 0 THEN [at |-> a, c |-> c, done |-> FALSE, size |-> 0]
                                            ELSE Measured(run[n - 1])
      <4>1. \A n \in 0 .. k - 1 : n \in 0 .. k /\ n # k
        BY <2>1
      <4>2. \A n \in 0 .. k - 1 : run[n] = IF n = 0 THEN [at |-> a, c |-> c, done |-> FALSE, size |-> 0]
                                           ELSE Measured(run[n - 1])
        BY <3>2, Zenon DEF ChainTo
      <4> QED BY <4>1, <4>2, Zenon
    <3>4. \A n \in 0 .. k : on[n] = IF n = 0 THEN [at |-> a, c |-> c, done |-> FALSE, size |-> 0]
                                     ELSE Measured(on[n - 1])
      <4> SUFFICES ASSUME NEW n \in 0 .. k
                   PROVE  on[n] = IF n = 0 THEN [at |-> a, c |-> c, done |-> FALSE, size |-> 0] ELSE Measured(on[n - 1])
        OBVIOUS
      <4> HIDE DEF on
      <4>1. CASE n = k
        <5>1. on[k] = Measured(run[k - 1]) /\ k - 1 \in 0 .. k - 1
          BY <2>1, <2>3 DEF on
        <5> QED BY <2>3, <3>3, <4>1, <5>1
      <4>2. CASE n # k
        <5>1. n \in 0 .. k - 1 /\ (n # 0 => n - 1 \in 0 .. k - 1)
          BY <2>1, <4>2
        <5> QED BY <3>3, <5>1
      <4> QED BY <4>1, <4>2
    <3>5. ChainTo(a, c, k, on)
      <4>1. on = [n \in 0 .. k |-> on[n]]
        OBVIOUS
      <4> HIDE DEF on
      <4> QED BY <3>4, <4>1, Zenon DEF ChainTo
    <3> QED BY <2>1, <3>5
  <2> QED BY <2>2, <2>3
<1> QED BY <1>1, <1>2

ChainRun(a, c, k, run) ==
  /\ run[0] = [at |-> a, c |-> c, done |-> FALSE, size |-> 0]
  /\ \A n \in 1 .. k : run[n] = Measured(run[n - 1])

LEMMA ChainRuns ==
  ASSUME NEW a, NEW c, NEW k \in Nat, NEW run, ChainTo(a, c, k, run)
  PROVE  ChainRun(a, c, k, run)
<1>1. \A n \in 0 .. k : run[n] = IF n = 0 THEN [at |-> a, c |-> c, done |-> FALSE, size |-> 0]
                                 ELSE Measured(run[n - 1])
  BY Zenon DEF ChainTo
<1>2. 0 \in 0 .. k /\ \A n \in 1 .. k : n \in 0 .. k /\ n # 0
  OBVIOUS
<1> QED BY <1>1, <1>2, Zenon DEF ChainRun

LEMMA ChainIs ==
  ASSUME NEW a, NEW c, NEW last \in Nat, last = FatEnd(a) + 1
  PROVE  \E run : /\ ChainRun(a, c, last, run)
                  /\ ChainSize(a, c) = IF run[last].at.ok
                                       THEN [run[last].at EXCEPT !.val = run[last].size]
                                       ELSE run[last].at
<1> DEFINE run == CHOOSE run : ChainTo(a, c, last, run)
<1>1. ChainTo(a, c, last, run)
  BY ChainExists
<1>2. ChainSize(a, c) = IF run[last].at.ok THEN [run[last].at EXCEPT !.val = run[last].size]
                        ELSE run[last].at
  BY DEF ChainSize, ChainTo
<1> HIDE DEF run
<1>3. ChainRun(a, c, last, run)
  BY <1>1, ChainRuns
<1> QED BY <1>2, <1>3, Zenon

\* The machine z has read the table, as far as a did not fail.
Peeked(a, z, v, from, purged) == Kept(a, z, v, from, purged) /\ StillDirty(a, z)

LEMMA PeekedOn ==
  ASSUME NEW a, NEW y, NEW z, NEW v, NEW from, NEW purged,
         Peeked(a, y, v, from, purged), Peeked(y, z, v, from, purged)
  PROVE  Peeked(a, z, v, from, purged)
BY KeptOn, StillDirtyOn DEF Peeked

Measuring(s, a, v, from, purged) ==
  /\ Peeked(a, s.at, v, from, purged)
  /\ s = [at |-> s.at, c |-> s.c, done |-> s.done, size |-> s.size]
  /\ s.done \in BOOLEAN /\ s.c \in Nat /\ s.size \in Nat

LEMMA MeasuredKeeps ==
  ASSUME NEW a, NEW v, NEW from, NEW purged, Steady(a, v, from, purged),
         Good(View(a), v, purged), NEW s, Measuring(s, a, v, from, purged),
         NEW z, z = Measured(s)
  PROVE  Measuring(z, a, v, from, purged)
<1> DEFINE w == FatGet(s.at, s.c)
<1>0. /\ Steady(s.at, v, from, purged) /\ Good(View(s.at), v, purged) /\ s.at.ok \in BOOLEAN
      /\ s.done \in BOOLEAN /\ s.c \in Nat /\ s.size \in Nat
      /\ s = [at |-> s.at, c |-> s.c, done |-> s.done, size |-> s.size]
      /\ Peeked(a, s.at, v, from, purged)
  BY KeptGood DEF Measuring, Peeked, Kept, Steady
<1>1. CASE s.done \/ ~s.at.ok
  BY <1>1 DEF Measured
<1>2. CASE ~s.done /\ s.at.ok
  <2>1. z = IF ~w.ok THEN [s EXCEPT !.at = w]
            ELSE [at |-> w, c |-> w.val, done |-> IsEOC(w.val),
                  size |-> s.size + UnitsPerBlock * w.vol.blocksPerCluster]
    BY <1>2 DEF Measured
  <2>2. Looked(s.at, w, s.c, v, from, purged)
    BY <1>0, FatGetDoes
  <2> HIDE DEF w
  <2>3. /\ Peeked(s.at, w, v, from, purged) /\ w.ok \in BOOLEAN /\ (w.ok => w.val \in Nat)
        /\ w.vol.blocksPerCluster \in Nat
    BY <2>2 DEF Looked, Peeked, Kept, Steady, Layout16
  <2>4. Peeked(a, w, v, from, purged)
    BY <1>0, <2>3, PeekedOn
  <2>5. CASE ~w.ok
    <3>1. z = [at |-> w, c |-> s.c, done |-> s.done, size |-> s.size]
      BY <1>0, <2>1, <2>5
    <3>2. /\ z.at = w /\ z.c = s.c /\ z.done = s.done /\ z.size = s.size
          /\ z = [at |-> z.at, c |-> z.c, done |-> z.done, size |-> z.size]
      BY <3>1
    <3> QED BY <1>0, <2>4, <3>2 DEF Measuring
  <2>6. CASE w.ok
    <3> DEFINE more == s.size + UnitsPerBlock * w.vol.blocksPerCluster
    <3>1. z = [at |-> w, c |-> w.val, done |-> IsEOC(w.val), size |-> more]
      BY <2>1, <2>6
    <3>2. more \in Nat
      BY <1>0, <2>3, LayoutAssumption
    <3> HIDE DEF more
    <3>3. /\ z.at = w /\ z.c = w.val /\ z.done = IsEOC(w.val) /\ z.size = more
          /\ z = [at |-> z.at, c |-> z.c, done |-> z.done, size |-> z.size]
      BY <3>1
    <3>4. IsEOC(w.val) \in BOOLEAN
      BY DEF IsEOC
    <3> QED BY <2>3, <2>4, <2>6, <3>2, <3>3, <3>4 DEF Measuring
  <2> QED BY <2>3, <2>5, <2>6
<1> QED BY <1>0, <1>1, <1>2

Sized(a, z, v, from, purged) == Peeked(a, z, v, from, purged) /\ (z.ok => z.val \in Nat)

\* To measure a chain changes nothing.
LEMMA ChainSizeDoes ==
  ASSUME NEW a, NEW v, NEW from, NEW purged, Steady(a, v, from, purged),
         Good(View(a), v, purged), NEW c \in Nat, NEW z, z = ChainSize(a, c)
  PROVE  Sized(a, z, v, from, purged)
<1>1. PICK last \in Nat : last = FatEnd(a) + 1
  BY DEF FatEnd, Steady, Layout16
<1>2. PICK run : /\ ChainRun(a, c, last, run)
                 /\ ChainSize(a, c) = IF run[last].at.ok
                                      THEN [run[last].at EXCEPT !.val = run[last].size]
                                      ELSE run[last].at
  BY <1>1, ChainIs
<1> DEFINE S == {n \in 0 .. last : Measuring(run[n], a, v, from, purged)}
<1>3. 0 \in S
  <2>1. run[0] = [at |-> a, c |-> c, done |-> FALSE, size |-> 0]
    BY <1>2 DEF ChainRun
  <2>2. Peeked(a, a, v, from, purged)
    BY KeptSelf, KeptFailed DEF Peeked, StillDirty
  <2>3. /\ run[0].at = a /\ run[0].c = c /\ run[0].done = FALSE /\ run[0].size = 0
        /\ run[0] = [at |-> run[0].at, c |-> run[0].c, done |-> run[0].done, size |-> run[0].size]
    BY <2>1
  <2>4. Measuring(run[0], a, v, from, purged)
    <3>0. run[0].done \in BOOLEAN
      BY <2>3, Zenon
    <3>1. run[0].c \in Nat /\ run[0].size \in Nat
      <4>1. run[0].c = c /\ run[0].size = 0
        BY <2>3, Zenon
      <4> QED BY <4>1
    <3>2. Peeked(a, run[0].at, v, from, purged)
      BY <2>2, <2>3
    <3> QED BY <2>3, <3>0, <3>1, <3>2, Zenon DEF Measuring
  <2> QED BY <2>4
<1>4. \A n \in 1 .. last : n - 1 \in S => n \in S
  <2> SUFFICES ASSUME NEW n \in 1 .. last, n - 1 \in S
               PROVE  n \in S
    OBVIOUS
  <2>1. run[n] = Measured(run[n - 1]) /\ n \in 0 .. last
    BY <1>2 DEF ChainRun
  <2>2. Measuring(run[n - 1], a, v, from, purged)
    OBVIOUS
  <2>3. Measuring(run[n], a, v, from, purged)
    BY <2>1, <2>2, MeasuredKeeps
  <2> QED BY <2>1, <2>3
<1> HIDE DEF S
<1>5. last \in S
  BY <1>3, <1>4, Upwards
<1> DEFINE s == run[last]
           w == s.at
<1>6. Measuring(s, a, v, from, purged)
  BY <1>5 DEF S
<1>7. z = IF w.ok THEN [w EXCEPT !.val = s.size] ELSE w
  BY <1>2
<1> HIDE DEF s
<1>8. /\ Kept(a, w, v, from, purged) /\ StillDirty(a, w) /\ Steady(w, v, from, purged)
      /\ w.ok \in BOOLEAN /\ IsMachine(w) /\ s.size \in Nat
  BY <1>6 DEF Measuring, Peeked, Kept, Steady
<1> HIDE DEF w
<1>9. CASE ~w.ok
  BY <1>7, <1>8, <1>9 DEF Sized, Peeked
<1>10. CASE w.ok
  <2>1. /\ OneCard(w, z) /\ SameRest(w, z) /\ z.val = s.size /\ z.ok = w.ok
    BY <1>7, <1>8, <1>10 DEF IsMachine, MachineFields, OneCard, SameRest
  <2>2. Moved(w, z, v, from, purged) /\ StillDirty(w, z)
    BY <1>8, <2>1, SameCardMoved
  <2>3. Kept(w, z, v, from, purged)
    BY <1>8, <2>1, <2>2 DEF Kept, Moved
  <2>4. Peeked(a, z, v, from, purged)
    BY <1>8, <2>2, <2>3, PeekedOn DEF Peeked
  <2> QED BY <1>8, <2>1, <2>4 DEF Sized
<1> QED BY <1>8, <1>9, <1>10

-----------------------------------------------------------------------------
\* Reading

Handles == [type : {"closed", "file", "subdir", "root16", "root32"}, read : BOOLEAN,
            write : BOOLEAN, dirty : BOOLEAN, cur : Nat, pos : Nat, size : Nat, first : Nat,
            dirBlock : Nat, dirIndex : Nat]

\* The handle y is x somewhere else.
Elsewhere(x, y) ==
  /\ y \in Handles
  /\ y.type = x.type /\ y.read = x.read /\ y.write = x.write /\ y.dirty = x.dirty
  /\ y.size = x.size /\ y.first = x.first /\ y.dirBlock = x.dirBlock /\ y.dirIndex = x.dirIndex

OtherHand(a, z, h) == (h = "f" => z.d = a.d) /\ (h = "d" => z.f = a.f)

Begins(x, v) == (x.pos \div UnitsPerBlock) % v.blocksPerCluster = 0 /\ x.pos % UnitsPerBlock = 0

\* The current cluster of handle h is the one of its position.
Reached(a, z, h, v, from, purged) ==
  /\ Moved(a, z, v, from, purged) /\ StillDirty(a, z) /\ OtherHand(a, z, h)
  /\ Elsewhere(a[h], z[h]) /\ z[h].pos = a[h].pos
  /\ z.ok => a.ok
  /\ a[h].type = "root16" \/ ~Begins(a[h], v) => z = a
  /\ a[h].type # "root16" /\ Begins(a[h], v) =>
       IF a[h].pos = 0 THEN z[h].cur = a[h].first
       ELSE IF ~z.ok THEN z[h].cur = a[h].cur
       ELSE /\ a[h].cur <= v.clusterCount + 1 /\ z.blk \in Table(v)
            /\ a[h].cur \in ClustersOf(v) => z[h].cur = Tab(a)[a[h].cur]

LEMMA NextClusterDoes ==
  ASSUME NEW a, NEW v, NEW from, NEW purged, Steady(a, v, from, purged),
         Good(View(a), v, purged), NEW h \in {"f", "d"}, a[h] \in Handles,
         NEW z, z = NextCluster(FatGet(a, a[h].cur), h)
  PROVE  /\ Moved(a, z, v, from, purged) /\ StillDirty(a, z) /\ OtherHand(a, z, h)
         /\ Elsewhere(a[h], z[h]) /\ z[h].pos = a[h].pos
         /\ z.ok => /\ a.ok /\ a[h].cur <= v.clusterCount + 1 /\ z.blk \in Table(v)
                    /\ a[h].cur \in ClustersOf(v) => z[h].cur = Tab(a)[a[h].cur]
         /\ ~z.ok => z[h].cur = a[h].cur
         /\ a.ok /\ ~a.dirty /\ a[h].cur <= v.clusterCount + 1 => z.ok
<1> DEFINE w == FatGet(a, a[h].cur)
<1>1. a[h].cur \in Nat
  BY DEF Handles
<1>0. z = NextCluster(w, h)
  OBVIOUS
<1>2. Looked(a, w, a[h].cur, v, from, purged)
  BY <1>1, FatGetDoes
<1> HIDE DEF w
<1>3. /\ Kept(a, w, v, from, purged) /\ Steady(w, v, from, purged) /\ StillDirty(a, w)
      /\ IsMachine(w) /\ w.ok \in BOOLEAN /\ w.f = a.f /\ w.d = a.d
      /\ w.ok => /\ a.ok /\ a[h].cur <= v.clusterCount + 1 /\ w.val \in Nat /\ w.blk \in Table(v)
                 /\ a[h].cur \in ClustersOf(v) => w.val = Tab(a)[a[h].cur]
      /\ a.ok /\ ~a.dirty /\ a[h].cur <= v.clusterCount + 1 => w.ok
  BY <1>2 DEF Looked, Kept, Steady, SameRest
<1>4. Moved(a, w, v, from, purged) /\ w[h] = a[h]
  BY <1>3, MovedKept
<1>5. CASE ~w.ok
  <2>1. z = w
    BY <1>0, <1>5 DEF NextCluster
  <2> QED BY <1>3, <1>4, <1>5, <2>1 DEF OtherHand, Elsewhere
<1>6. CASE w.ok
  <2>1. z = [w EXCEPT ![h].cur = w.val]
    BY <1>0, <1>6 DEF NextCluster
  <2>2. /\ OneCard(w, z) /\ z.ok = w.ok /\ z[h] = [a[h] EXCEPT !.cur = w.val]
        /\ OtherHand(w, z, h)
    BY <1>3, <1>4, <2>1 DEF IsMachine, MachineFields, OneCard, OtherHand
  <2>3. Moved(w, z, v, from, purged) /\ StillDirty(w, z)
    BY <1>3, <2>2, SameCardMoved
  <2>4. Moved(a, z, v, from, purged) /\ StillDirty(a, z)
    BY <1>3, <1>4, <2>3, MovedOn, StillDirtyOn
  <2>5. Elsewhere(a[h], z[h]) /\ z[h].pos = a[h].pos /\ z[h].cur = w.val
    BY <1>3, <1>6, <2>2 DEF Elsewhere, Handles
  <2>6. OtherHand(a, z, h) /\ z.blk = w.blk
    BY <1>3, <2>2 DEF OtherHand, OneCard
  <2> QED BY <1>3, <1>6, <2>2, <2>4, <2>5, <2>6
<1> QED BY <1>3, <1>5, <1>6

LEMMA ReadClusterDoes ==
  ASSUME NEW a, NEW v, NEW from, NEW purged, Steady(a, v, from, purged),
         Good(View(a), v, purged), NEW h \in {"f", "d"}, a[h] \in Handles,
         NEW z, z = ReadCluster(a, h)
  PROVE  Reached(a, z, h, v, from, purged)
<1>1. IsMachine(a) /\ a.ok \in BOOLEAN /\ a.vol = v
  BY DEF Steady
<1>2. BeginsCluster(a, h) <=> Begins(a[h], v)
  BY <1>1 DEF BeginsCluster, BlockOfCluster, Begins
<1>3. OneCard(a, a) /\ Elsewhere(a[h], a[h]) /\ OtherHand(a, a, h)
  BY <1>1 DEF OneCard, Elsewhere, OtherHand
<1>4. CASE a[h].type = "root16" \/ ~Begins(a[h], v)
  <2>1. z = a
    BY <1>2, <1>4 DEF ReadCluster
  <2>2. Moved(a, a, v, from, purged) /\ StillDirty(a, a)
    BY <1>1, <1>3, SameCardMoved
  <2> QED BY <1>3, <1>4, <2>1, <2>2 DEF Reached
<1>5. CASE ~(a[h].type = "root16" \/ ~Begins(a[h], v)) /\ a[h].pos = 0
  <2>1. z = [a EXCEPT ![h].cur = a[h].first]
    BY <1>2, <1>5 DEF ReadCluster
  <2>2. /\ OneCard(a, z) /\ z.ok = a.ok /\ z[h] = [a[h] EXCEPT !.cur = a[h].first]
        /\ OtherHand(a, z, h)
    BY <1>1, <2>1 DEF IsMachine, MachineFields, OneCard, OtherHand
  <2>3. Moved(a, z, v, from, purged) /\ StillDirty(a, z)
    BY <1>1, <2>2, SameCardMoved
  <2>4. Elsewhere(a[h], z[h]) /\ z[h].pos = a[h].pos /\ z[h].cur = a[h].first
    BY <2>2 DEF Elsewhere, Handles
  <2> QED BY <1>5, <2>2, <2>3, <2>4 DEF Reached
<1>6. CASE ~(a[h].type = "root16" \/ ~Begins(a[h], v)) /\ a[h].pos # 0
  <2>1. z = NextCluster(FatGet(a, a[h].cur), h)
    BY <1>2, <1>6 DEF ReadCluster
  <2> QED BY <1>6, <2>1, NextClusterDoes DEF Reached
<1> QED BY <1>4, <1>5, <1>6

Readable(x) == IsOpen(x) /\ x.read /\ x.pos < x.size

\* A unit has been read with handle h; y is the machine when its cluster was
\* reached.
HasRead(a, y, z, h, v, from, purged) ==
  /\ Moved(a, z, v, from, purged) /\ StillDirty(a, z) /\ OtherHand(a, z, h)
  /\ Elsewhere(a[h], z[h])
  /\ z.ok => a.ok
  /\ ~Readable(a[h]) => z[h] = a[h]
  /\ Readable(a[h]) =>
       /\ Reached(a, y, h, v, from, purged) /\ StillDirty(y, z)
       /\ z.ok => y.ok
       /\ z[h].cur = y[h].cur
       /\ z[h].pos = IF z.ok THEN a[h].pos + 1 ELSE a[h].pos
       /\ z.ok => /\ z.unit = z.buf[a[h].pos % UnitsPerBlock]
                  /\ z.blk = BlockAt(y, h)
                  /\ y.blk # z.blk => ~z.dirty

LEMMA ReadDoes ==
  ASSUME NEW a, NEW v, NEW from, NEW purged, Steady(a, v, from, purged),
         Good(View(a), v, purged), NEW h \in {"f", "d"}, a[h] \in Handles,
         NEW z, z = Read(a, h)
  PROVE  HasRead(a, ReadCluster(a, h), z, h, v, from, purged)
<1>1. IsMachine(a) /\ a.ok \in BOOLEAN /\ a.vol = v /\ a[h].pos \in Nat /\ a[h].size \in Nat
  BY DEF Steady, Handles
<1>2. CASE ~Readable(a[h])
  <2>1. z = [Fail(a) EXCEPT !.got = -1] \/ z = [a EXCEPT !.got = 0]
    BY <1>1, <1>2 DEF Read, Readable
  <2>2. OneCard(a, z) /\ z.ok \in BOOLEAN /\ (z.ok => a.ok) /\ z.f = a.f /\ z.d = a.d
    BY <1>1, <2>1 DEF IsMachine, MachineFields, OneCard, Fail
  <2>3. Moved(a, z, v, from, purged) /\ StillDirty(a, z)
    BY <2>2, SameCardMoved
  <2> QED BY <1>2, <2>2, <2>3 DEF HasRead, OtherHand, Elsewhere
<1>3. CASE Readable(a[h])
  <2> DEFINE y == ReadCluster(a, h)
             x == BlockRead(y, h)
  <2>1. z = UnitRead(x, h)
    BY <1>1, <1>3 DEF Read, Readable
  <2>2. Reached(a, y, h, v, from, purged)
    BY ReadClusterDoes
  <2> HIDE DEF y
  <2>3. /\ Moved(a, y, v, from, purged) /\ Steady(y, v, from, purged) /\ StillDirty(a, y)
        /\ OtherHand(a, y, h) /\ y.ok \in BOOLEAN /\ (y.ok => a.ok)
        /\ Elsewhere(a[h], y[h]) /\ y[h].pos = a[h].pos /\ y[h] \in Handles
        /\ Good(View(y), v, purged)
    BY <2>2, MovedGood DEF Reached, Moved, Steady, Elsewhere
  <2>4. /\ Moved(y, x, v, from, purged) /\ Steady(x, v, from, purged) /\ StillDirty(y, x)
        /\ x.f = y.f /\ x.d = y.d /\ x.ok \in BOOLEAN /\ (x.ok => y.ok)
        /\ x.ok => x.blk = BlockAt(y, h) /\ (y.blk # x.blk => ~x.dirty)
        /\ IsMachine(x)
    <3>1. CASE ~y.ok
      <4>1. x = y
        BY <3>1 DEF BlockRead
      <4>2. OneCard(y, y) /\ IsMachine(y)
        BY <2>3 DEF OneCard, Steady
      <4>3. Moved(y, y, v, from, purged) /\ StillDirty(y, y)
        BY <2>3, <4>2, SameCardMoved
      <4> QED BY <2>3, <3>1, <4>1, <4>2, <4>3
    <3>2. CASE y.ok
      <4>1. x = CacheRawBlock(y, BlockAt(y, h), FALSE)
        BY <3>2 DEF BlockRead
      <4> HIDE DEF x
      <4>2. Cached(y, x, BlockAt(y, h), FALSE, v, from, purged)
        BY <2>3, <4>1, CacheRawBlockDoes
      <4>3. Kept(y, x, v, from, purged) /\ Steady(x, v, from, purged) /\ StillDirty(y, x)
        BY <4>2 DEF Cached, Kept
      <4> QED BY <4>2, <4>3, MovedKept DEF Cached, Kept, SameRest, Steady
    <3> QED BY <2>3, <3>1, <3>2
  <2> HIDE DEF x
  <2>5. x[h] = y[h] /\ OtherHand(y, x, h)
    BY <2>4 DEF OtherHand
  <2>6. Moved(a, x, v, from, purged) /\ StillDirty(a, x) /\ OtherHand(a, x, h)
    BY <2>3, <2>4, <2>5, MovedOn, StillDirtyOn DEF OtherHand
  <2>7. /\ OneCard(x, z) /\ z.ok = x.ok /\ OtherHand(x, z, h)
        /\ ~x.ok => z[h] = y[h]
        /\ x.ok => z[h] = [y[h] EXCEPT !.pos = y[h].pos + 1] /\ z.unit = x.buf[y[h].pos % UnitsPerBlock]
    <3>1. CASE ~x.ok
      <4>1. z = [x EXCEPT !.got = -1]
        BY <2>1, <3>1 DEF UnitRead
      <4> QED BY <2>4, <2>5, <3>1, <4>1 DEF IsMachine, MachineFields, OneCard, OtherHand
    <3>2. CASE x.ok
      <4>1. z = [x EXCEPT !.got = 1, !.unit = x.buf[x[h].pos % UnitsPerBlock],
                          ![h].pos = x[h].pos + 1]
        BY <2>1, <3>2 DEF UnitRead
      <4>2. IsMachine(x) /\ x[h] = y[h]
        BY <2>4, <2>5
      <4>3. z[h] = [x[h] EXCEPT !.pos = x[h].pos + 1] /\ OtherHand(x, z, h)
        BY <4>1, <4>2 DEF IsMachine, MachineFields, OtherHand
      <4>4. OneCard(x, z) /\ z.ok = x.ok /\ z.unit = x.buf[x[h].pos % UnitsPerBlock]
        BY <4>1, <4>2 DEF IsMachine, MachineFields, OneCard
      <4> QED BY <3>2, <4>2, <4>3, <4>4
    <3> QED BY <2>4, <3>1, <3>2
  <2>8. Moved(x, z, v, from, purged) /\ StillDirty(x, z)
    BY <2>4, <2>7, SameCardMoved
  <2>9. Moved(a, z, v, from, purged) /\ StillDirty(a, z) /\ OtherHand(a, z, h) /\ StillDirty(y, z)
    BY <2>4, <2>6, <2>7, <2>8, MovedOn, StillDirtyOn DEF OtherHand
  <2>10. /\ Elsewhere(a[h], z[h]) /\ z[h].cur = y[h].cur
         /\ z[h].pos = IF z.ok THEN a[h].pos + 1 ELSE a[h].pos
    <3>1. CASE ~x.ok
      BY <2>3, <2>7, <3>1 DEF Elsewhere
    <3>2. CASE x.ok
      <4>1. z[h] = [y[h] EXCEPT !.pos = y[h].pos + 1] /\ y[h] \in Handles
        BY <2>3, <2>7, <3>2
      <4>2. /\ z[h] \in Handles /\ z[h].cur = y[h].cur /\ z[h].pos = y[h].pos + 1
            /\ z[h].type = y[h].type /\ z[h].read = y[h].read /\ z[h].write = y[h].write
            /\ z[h].dirty = y[h].dirty /\ z[h].size = y[h].size /\ z[h].first = y[h].first
            /\ z[h].dirBlock = y[h].dirBlock /\ z[h].dirIndex = y[h].dirIndex
        BY <4>1 DEF Handles
      <4> QED BY <2>3, <2>7, <3>2, <4>2 DEF Elsewhere
    <3> QED BY <2>4, <3>1, <3>2
  <2>11. z.blk = x.blk /\ z.buf = x.buf /\ z.dirty = x.dirty
    BY <2>7 DEF OneCard
  <2>12. z.ok => /\ z.unit = z.buf[a[h].pos % UnitsPerBlock] /\ z.blk = BlockAt(y, h)
                 /\ (y.blk # z.blk => ~z.dirty)
    BY <2>3, <2>4, <2>7, <2>11
  <2> QED BY <1>3, <2>2, <2>3, <2>4, <2>7, <2>9, <2>10, <2>12 DEF HasRead, y
<1> QED BY <1>2, <1>3

-----------------------------------------------------------------------------
\* Looking for a name in the directory

LEMMA WithinRoot ==
  ASSUME NEW v, Layout16(v), NEW pos \in Nat, pos < v.rootEntries
  PROVE  /\ v.rootStart + (pos \div UnitsPerBlock) \in Root(v) /\ pos % UnitsPerBlock \in Units
<1>1. PICK u \in Nat \ {0} : u = UnitsPerBlock
  BY LayoutAssumption
<1>2. PICK e \in Nat : e = v.rootEntries /\ (e % u) = 0
  BY <1>1 DEF Layout16
<1>3. /\ e \div u \in Nat /\ e = u * (e \div u) + (e % u)
      /\ pos \div u \in Nat /\ (pos % u) \in 0 .. u - 1 /\ pos = u * (pos \div u) + (pos % u)
  <2>1. e \div u \in Nat /\ e = u * (e \div u) + (e % u)
    BY Division, Zenon
  <2>2. pos \div u \in Nat /\ (pos % u) \in 0 .. u - 1 /\ pos = u * (pos \div u) + (pos % u)
    BY Division, Zenon
  <2> QED BY <2>1, <2>2
<1>4. PICK i \in Nat, j \in Nat, r \in Nat :
        i = e \div u /\ j = pos \div u /\ r = (pos % u) /\ r \in 0 .. u - 1
  BY <1>3
<1>5. e = u * i + 0 /\ pos = u * j + r
  BY <1>2, <1>3, <1>4
<1>6. CASE j < i
  <2>1. v.rootStart \in Nat
    BY DEF Layout16
  <2>2. v.rootStart + j \in v.rootStart .. v.rootStart + i - 1
    BY <1>6, <2>1
  <2> QED BY <1>1, <1>2, <1>4, <2>2 DEF Root, Units
<1>7. CASE i <= j
  <2>1. i * u <= j * u
    BY <1>7, Growing
  <2> QED BY <1>2, <1>5, <2>1
<1> QED BY <1>6, <1>7

\* One entry after the other.
LookingTo(a, name, k, run) ==
  run = [n \in 0 .. k |-> IF n = 0 THEN [at |-> a, empty |-> FALSE, done |-> FALSE]
                          ELSE Compared(run[n - 1], name)]

LEMMA LookingExists ==
  ASSUME NEW a, NEW name
  PROVE  \A k \in Nat : \E run : LookingTo(a, name, k, run)
<1> DEFINE S == {k \in Nat : ~\E run : LookingTo(a, name, k, run)}
<1>1. CASE S = {}
  BY <1>1
<1>2. CASE S # {}
  <2>1. PICK k \in S : \A j \in S : k <= j
    BY <1>2, LeastNumber
  <2>2. CASE k = 0
    <3> DEFINE run == [n \in 0 .. 0 |-> [at |-> a, empty |-> FALSE, done |-> FALSE]]
    <3>1. LookingTo(a, name, 0, run)
      BY DEF LookingTo
    <3> QED BY <2>1, <2>2, <3>1
  <2>3. CASE k # 0
    <3>1. k - 1 \in Nat /\ k - 1 \notin S
      BY <2>1, <2>3
    <3>2. PICK run : LookingTo(a, name, k - 1, run)
      BY <3>1
    <3> DEFINE on == [n \in 0 .. k |-> IF n = k THEN Compared(run[n - 1], name) ELSE run[n]]
    <3>3. \A n \in 0 .. k - 1 : /\ on[n] = run[n]
                                /\ run[n] = IF n = 0 THEN [at |-> a, empty |-> FALSE, done |-> FALSE]
                                            ELSE Compared(run[n - 1], name)
      <4>1. \A n \in 0 .. k - 1 : n \in 0 .. k /\ n # k
        BY <2>1
      <4>2. \A n \in 0 .. k - 1 : run[n] = IF n = 0 THEN [at |-> a, empty |-> FALSE, done |-> FALSE]
                                           ELSE Compared(run[n - 1], name)
        BY <3>2, Zenon DEF LookingTo
      <4> QED BY <4>1, <4>2, Zenon
    <3>4. \A n \in 0 .. k : on[n] = IF n = 0 THEN [at |-> a, empty |-> FALSE, done |-> FALSE]
                                     ELSE Compared(on[n - 1], name)
      <4> SUFFICES ASSUME NEW n \in 0 .. k
                   PROVE  on[n] = IF n = 0 THEN [at |-> a, empty |-> FALSE, done |-> FALSE] ELSE Compared(on[n - 1], name)
        OBVIOUS
      <4> HIDE DEF on
      <4>1. CASE n = k
        <5>1. on[k] = Compared(run[k - 1], name) /\ k - 1 \in 0 .. k - 1
          BY <2>1, <2>3 DEF on
        <5> QED BY <2>3, <3>3, <4>1, <5>1
      <4>2. CASE n # k
        <5>1. n \in 0 .. k - 1 /\ (n # 0 => n - 1 \in 0 .. k - 1)
          BY <2>1, <4>2
        <5> QED BY <3>3, <5>1
      <4> QED BY <4>1, <4>2
    <3>5. LookingTo(a, name, k, on)
      <4>1. on = [n \in 0 .. k |-> on[n]]
        OBVIOUS
      <4> HIDE DEF on
      <4> QED BY <3>4, <4>1, Zenon DEF LookingTo
    <3> QED BY <2>1, <3>5
  <2> QED BY <2>2, <2>3
<1> QED BY <1>1, <1>2

LookingRun(a, name, k, run) ==
  /\ run[0] = [at |-> a, empty |-> FALSE, done |-> FALSE]
  /\ \A n \in 1 .. k : run[n] = Compared(run[n - 1], name)

LEMMA LookingRuns ==
  ASSUME NEW a, NEW name, NEW k \in Nat, NEW run, LookingTo(a, name, k, run)
  PROVE  LookingRun(a, name, k, run)
<1>1. \A n \in 0 .. k : run[n] = IF n = 0 THEN [at |-> a, empty |-> FALSE, done |-> FALSE]
                                 ELSE Compared(run[n - 1], name)
  BY Zenon DEF LookingTo
<1>2. 0 \in 0 .. k /\ \A n \in 1 .. k : n \in 0 .. k /\ n # 0
  OBVIOUS
<1> QED BY <1>1, <1>2, Zenon DEF LookingRun

LEMMA LookingIs ==
  ASSUME NEW a, NEW name, NEW last \in Nat, last = a.d.size
  PROVE  \E run : /\ LookingRun(a, name, last, run)
                  /\ SearchDir(a, name)
                       = IF run[last].done \/ ~run[last].at.ok THEN run[last].at
                         ELSE [run[last].at EXCEPT !.val = IF run[last].empty THEN "slot"
                                                           ELSE "full"]
<1> DEFINE run == CHOOSE run : LookingTo(a, name, last, run)
<1>1. LookingTo(a, name, last, run)
  BY LookingExists
<1>2. SearchDir(a, name)
        = IF run[last].done \/ ~run[last].at.ok THEN run[last].at
          ELSE [run[last].at EXCEPT !.val = IF run[last].empty THEN "slot" ELSE "full"]
  BY DEF SearchDir, LookingTo
<1> HIDE DEF run
<1>3. LookingRun(a, name, last, run)
  BY <1>1, LookingRuns
<1> QED BY <1>2, <1>3, Zenon

\* The handle on the root directory.
RootHand(x, v) == x \in Handles /\ x.type = "root16" /\ x.read = TRUE /\ x.size = v.rootEntries

\* Nothing is open but the root directory.
Shut(a, v) == RootHand(a.d, v) /\ a.f \in Handles /\ a.f.type = "closed"

Slot(x) == <<x.dirBlock, x.dirIndex>>

\* The outcome of the search for an entry.
Sought(z, v, name) ==
  /\ z.val = "slot" => Slot(z.f) \in Slots(v)
  /\ z.val = "found" => /\ z.blk \in Root(v) /\ z.f.dirIndex \in Units
                        /\ z.buf[z.f.dirIndex].name = name

Looking(s, a, v, from, purged, name, n) ==
  /\ s = [at |-> s.at, empty |-> s.empty, done |-> s.done]
  /\ s.empty \in BOOLEAN /\ s.done \in BOOLEAN
  /\ Moved(a, s.at, v, from, purged) /\ Shut(s.at, v) /\ (s.at.ok => a.ok)
  /\ StillDirty(a, s.at)
  /\ s.empty => Slot(s.at.f) \in Slots(v)
  /\ ~s.done /\ s.at.ok => s.at.d.pos = n
  /\ s.done => Sought(s.at, v, name)

LEMMA ComparedKeeps ==
  ASSUME NEW a, NEW v, NEW from, NEW purged, Steady(a, v, from, purged),
         Good(View(a), v, purged), NEW name, NEW n \in Nat, n < v.rootEntries,
         NEW s, Looking(s, a, v, from, purged, name, n), NEW z, z = Compared(s, name)
  PROVE  Looking(z, a, v, from, purged, name, n + 1)
<1> DEFINE w == Read(s.at, "d")
           index == s.at.d.pos % UnitsPerBlock
           empty == w.unit.name \in {"FREE", "DELETED"}
           x == IF empty /\ ~s.empty
                THEN [w EXCEPT !.f.dirIndex = index, !.f.dirBlock = w.blk] ELSE w
<1>0. /\ s = [at |-> s.at, empty |-> s.empty, done |-> s.done]
      /\ s.empty \in BOOLEAN /\ s.done \in BOOLEAN
      /\ Moved(a, s.at, v, from, purged) /\ Shut(s.at, v) /\ (s.at.ok => a.ok)
      /\ StillDirty(a, s.at)
      /\ s.empty => Slot(s.at.f) \in Slots(v)
      /\ Steady(s.at, v, from, purged) /\ Good(View(s.at), v, purged) /\ s.at.ok \in BOOLEAN
  BY MovedGood DEF Looking, Moved, Steady
<1>1. CASE s.done \/ ~s.at.ok
  <2>1. z = s
    BY <1>1 DEF Compared
  <2> QED BY <1>1, <2>1 DEF Looking
<1>2. CASE ~s.done /\ s.at.ok
  <2>1. s.at.d.pos = n /\ RootHand(s.at.d, v) /\ s.at.d \in Handles
    BY <1>2 DEF Looking, Shut, RootHand
  <2>2. IsDir(s.at.d) /\ ReadDirCache(s.at, "d") = w
    BY <2>1 DEF IsDir, RootHand, ReadDirCache
  <2>3. z = IF ~w.ok THEN [s EXCEPT !.at = w]
            ELSE IF w.unit.name = "FREE"
            THEN [at |-> [x EXCEPT !.val = "slot"], empty |-> TRUE, done |-> TRUE]
            ELSE IF w.unit.name = name
            THEN [s EXCEPT !.at = [w EXCEPT !.val = "found", !.f.dirIndex = index], !.done = TRUE]
            ELSE [at |-> x, empty |-> s.empty \/ empty, done |-> FALSE]
    BY <1>2, <2>2 DEF Compared
  <2>4. HasRead(s.at, ReadCluster(s.at, "d"), w, "d", v, from, purged)
    BY <1>0, <2>1, ReadDoes
  <2> HIDE DEF w
  <2>5. Readable(s.at.d) /\ s.at.d.type = "root16"
    <3>1. s.at.d.type = "root16" /\ s.at.d.read = TRUE /\ s.at.d.size = v.rootEntries
      BY <2>1 DEF RootHand
    <3> QED BY <2>1, <3>1 DEF Readable, IsOpen
  <2>6. /\ Moved(s.at, w, v, from, purged) /\ StillDirty(s.at, w) /\ w.f = s.at.f
        /\ Elsewhere(s.at.d, w.d) /\ (w.ok => s.at.ok) /\ w.ok \in BOOLEAN /\ IsMachine(w)
        /\ w.ok => /\ w.d.pos = n + 1 /\ w.unit = w.buf[n % UnitsPerBlock]
                   /\ w.blk = BlockAt(ReadCluster(s.at, "d"), "d")
    BY <2>1, <2>4, <2>5 DEF HasRead, OtherHand, Moved, Steady
  <2>7. /\ Moved(a, w, v, from, purged) /\ StillDirty(a, w) /\ Shut(w, v)
        /\ Steady(w, v, from, purged)
    <3>1. RootHand(w.d, v)
      BY <2>1, <2>6 DEF RootHand, Elsewhere
    <3> QED BY <1>0, <2>6, <3>1, MovedOn, StillDirtyOn DEF Shut, Moved
  <2>8. w.ok => w.blk \in Root(v) /\ index \in Units
    <3>1. ReadCluster(s.at, "d") = s.at
      BY <2>5 DEF ReadCluster
    <3>2. BlockAt(s.at, "d") = v.rootStart + (n \div UnitsPerBlock)
      BY <1>0, <2>1, <2>5 DEF BlockAt, Steady
    <3>3. v.rootStart + (n \div UnitsPerBlock) \in Root(v) /\ n % UnitsPerBlock \in Units
      BY <1>0, WithinRoot DEF Steady
    <3> QED BY <2>1, <2>6, <3>1, <3>2, <3>3
  <2>9. CASE ~w.ok
    <3>1. z = [at |-> w, empty |-> s.empty, done |-> FALSE]
      BY <1>0, <1>2, <2>3, <2>9
    <3>2. /\ z.at = w /\ z.empty = s.empty /\ z.done = FALSE
          /\ z = [at |-> z.at, empty |-> z.empty, done |-> z.done]
      BY <3>1
    <3> QED BY <1>0, <2>6, <2>7, <2>9, <3>2 DEF Looking
  <2>10. CASE w.ok
    <3>1. index \in Units /\ w.blk \in Root(v) /\ index \in Nat /\ w.blk \in Nat
      BY <1>0, <2>8, <2>10, PartsApart DEF Units, Steady
    <3>2. index = n % UnitsPerBlock
      BY <2>1
    <3> HIDE DEF index
    <3>3. /\ Moved(a, x, v, from, purged) /\ StillDirty(a, x) /\ Shut(x, v)
          /\ Steady(x, v, from, purged) /\ IsMachine(x) /\ x.ok = w.ok /\ x.d = w.d
          /\ s.empty \/ empty => Slot(x.f) \in Slots(v)
      <4>1. CASE empty /\ ~s.empty
        <5>1. x = [w EXCEPT !.f.dirIndex = index, !.f.dirBlock = w.blk]
          BY <4>1
        <5> HIDE DEF x
        <5>2. /\ OneCard(w, x) /\ x.ok = w.ok /\ x.d = w.d
              /\ x.f = [w.f EXCEPT !.dirIndex = index, !.dirBlock = w.blk]
          BY <2>6, <5>1 DEF IsMachine, MachineFields, OneCard
        <5>3. /\ x.f \in Handles /\ x.f.type = "closed" /\ x.f.dirIndex = index
              /\ x.f.dirBlock = w.blk
          BY <2>7, <3>1, <5>2 DEF Shut, Handles
        <5>4. Moved(w, x, v, from, purged) /\ StillDirty(w, x)
          BY <2>6, <2>7, <5>2, SameCardMoved
        <5>5. Slot(x.f) \in Slots(v)
          BY <3>1, <5>3 DEF Slot, Slots
        <5>6. Moved(a, x, v, from, purged) /\ StillDirty(a, x)
          BY <2>7, <5>4, MovedOn, StillDirtyOn
        <5> QED BY <2>7, <5>2, <5>3, <5>5, <5>6 DEF Shut, Moved, OneCard
      <4>2. CASE ~(empty /\ ~s.empty)
        <5>1. x = w
          BY <4>2
        <5> QED BY <1>0, <2>6, <2>7, <4>2, <5>1
      <4> QED BY <4>1, <4>2
    <3> HIDE DEF x
    <3>4. CASE w.unit.name = "FREE"
      <4> DEFINE y == [x EXCEPT !.val = "slot"]
      <4>1. z = [at |-> y, empty |-> TRUE, done |-> TRUE]
        BY <2>3, <2>10, <3>4
      <4>2. OneCard(x, y) /\ y.ok = x.ok /\ y.d = x.d /\ y.f = x.f /\ y.val = "slot"
        BY <3>3 DEF IsMachine, MachineFields, OneCard
      <4> HIDE DEF y
      <4>3. Moved(x, y, v, from, purged) /\ StillDirty(x, y)
        BY <2>10, <3>3, <4>2, SameCardMoved
      <4>4. Moved(a, y, v, from, purged) /\ StillDirty(a, y) /\ Shut(y, v)
        BY <3>3, <4>2, <4>3, MovedOn, StillDirtyOn DEF Shut
      <4>5. Slot(y.f) \in Slots(v)
        BY <3>3, <3>4, <4>2
      <4>6. /\ z.at = y /\ z.empty = TRUE /\ z.done = TRUE
            /\ z = [at |-> z.at, empty |-> z.empty, done |-> z.done]
        BY <4>1
      <4> QED BY <1>0, <1>2, <4>2, <4>4, <4>5, <4>6 DEF Looking, Sought
    <3>5. CASE w.unit.name # "FREE" /\ w.unit.name = name
      <4> DEFINE y == [w EXCEPT !.val = "found", !.f.dirIndex = index]
      <4>1. z = [at |-> y, empty |-> s.empty, done |-> TRUE]
        BY <1>0, <2>3, <2>10, <3>5
      <4>2. /\ OneCard(w, y) /\ y.ok = w.ok /\ y.d = w.d /\ y.val = "found"
            /\ y.f = [w.f EXCEPT !.dirIndex = index]
        BY <2>6 DEF IsMachine, MachineFields, OneCard
      <4> HIDE DEF y
      <4>3. y.f \in Handles /\ y.f.type = "closed" /\ y.f.dirIndex = index /\ y.f.dirBlock = w.f.dirBlock
        BY <2>7, <3>1, <4>2 DEF Shut, Handles
      <4>4. Moved(w, y, v, from, purged) /\ StillDirty(w, y)
        BY <2>6, <2>7, <4>2, SameCardMoved
      <4>5. Moved(a, y, v, from, purged) /\ StillDirty(a, y) /\ Shut(y, v)
        BY <2>7, <4>2, <4>3, <4>4, MovedOn, StillDirtyOn DEF Shut
      <4>6. y.blk \in Root(v) /\ y.f.dirIndex \in Units /\ y.buf[y.f.dirIndex].name = name
        BY <2>6, <2>10, <3>1, <3>2, <3>5, <4>2, <4>3 DEF OneCard
      <4>7. s.empty => Slot(y.f) \in Slots(v)
        <5>1. s.empty => w.f.dirBlock \in Root(v)
          BY <1>0, <2>6 DEF Slot, Slots
        <5> QED BY <3>1, <4>3, <5>1 DEF Slot, Slots
      <4>8. /\ z.at = y /\ z.empty = s.empty /\ z.done = TRUE
            /\ z = [at |-> z.at, empty |-> z.empty, done |-> z.done]
        BY <4>1
      <4> QED BY <1>0, <1>2, <4>2, <4>5, <4>6, <4>7, <4>8 DEF Looking, Sought
    <3>6. CASE w.unit.name # "FREE" /\ w.unit.name # name
      <4>1. z = [at |-> x, empty |-> s.empty \/ empty, done |-> FALSE]
        BY <2>3, <2>10, <3>6
      <4>2. /\ z.at = x /\ z.empty = (s.empty \/ empty) /\ z.done = FALSE
            /\ z = [at |-> z.at, empty |-> z.empty, done |-> z.done]
        BY <4>1
      <4>3. (s.empty \/ empty) \in BOOLEAN
        OBVIOUS
      <4> QED BY <1>0, <1>2, <2>6, <2>10, <3>3, <4>2, <4>3 DEF Looking
    <3> QED BY <3>4, <3>5, <3>6
  <2> QED BY <2>6, <2>9, <2>10
<1> QED BY <1>0, <1>1, <1>2

\* The name has been looked for.
LookedFor(a, z, v, from, purged, name) ==
  /\ Moved(a, z, v, from, purged) /\ StillDirty(a, z) /\ Shut(z, v) /\ (z.ok => a.ok)
  /\ z.ok => Sought(z, v, name)

LEMMA SearchDirDoes ==
  ASSUME NEW a, NEW v, NEW from, NEW purged, Steady(a, v, from, purged),
         Good(View(a), v, purged), Shut(a, v), a.d.pos = 0, NEW name, 
         NEW z, z = SearchDir(a, name)
  PROVE  LookedFor(a, z, v, from, purged, name)
<1>0. IsMachine(a) /\ a.ok \in BOOLEAN /\ v.rootEntries \in Nat /\ a.d.size = v.rootEntries
  BY DEF Steady, Layout16, Shut, RootHand
<1>1. PICK last \in Nat : last = a.d.size /\ last = v.rootEntries
  BY <1>0
<1>1a. last \in Nat /\ last = a.d.size
  BY <1>1
<1>2. PICK run : /\ LookingRun(a, name, last, run)
                 /\ SearchDir(a, name)
                      = IF run[last].done \/ ~run[last].at.ok THEN run[last].at
                        ELSE [run[last].at EXCEPT !.val = IF run[last].empty THEN "slot"
                                                          ELSE "full"]
  BY <1>1a, LookingIs
<1> DEFINE S == {n \in 0 .. last : Looking(run[n], a, v, from, purged, name, n)}
<1>3. 0 \in S
  <2>1. run[0] = [at |-> a, empty |-> FALSE, done |-> FALSE]
    BY <1>2 DEF LookingRun
  <2>2. /\ run[0].at = a /\ run[0].empty = FALSE /\ run[0].done = FALSE
        /\ run[0] = [at |-> run[0].at, empty |-> run[0].empty, done |-> run[0].done]
    BY <2>1
  <2>3. OneCard(a, a)
    BY <1>0 DEF OneCard
  <2>4. Moved(a, a, v, from, purged) /\ StillDirty(a, a)
    BY <1>0, <2>3, SameCardMoved
  <2>5. Looking(run[0], a, v, from, purged, name, 0)
    BY <2>2, <2>4 DEF Looking
  <2> QED BY <2>5
<1>4. \A n \in 1 .. last : n - 1 \in S => n \in S
  <2> SUFFICES ASSUME NEW n \in 1 .. last, n - 1 \in S
               PROVE  n \in S
    OBVIOUS
  <2>1. run[n] = Compared(run[n - 1], name) /\ n \in 0 .. last
    BY <1>2 DEF LookingRun
  <2>2. Looking(run[n - 1], a, v, from, purged, name, n - 1)
    OBVIOUS
  <2>3. n - 1 \in Nat /\ n - 1 < v.rootEntries /\ (n - 1) + 1 = n
    BY <1>1
  <2>4. Looking(run[n], a, v, from, purged, name, (n - 1) + 1)
    BY <2>1, <2>2, <2>3, ComparedKeeps
  <2> QED BY <2>1, <2>3, <2>4
<1> HIDE DEF S
<1>5. last \in S
  BY <1>3, <1>4, Upwards
<1> DEFINE s == run[last]
           w == s.at
<1>6. Looking(s, a, v, from, purged, name, last)
  BY <1>5 DEF S
<1>7. z = IF s.done \/ ~w.ok THEN w ELSE [w EXCEPT !.val = IF s.empty THEN "slot" ELSE "full"]
  BY <1>2
<1> HIDE DEF s
<1>8. /\ Moved(a, w, v, from, purged) /\ StillDirty(a, w) /\ Steady(w, v, from, purged)
      /\ w.ok \in BOOLEAN /\ IsMachine(w) /\ Shut(w, v) /\ (w.ok => a.ok)
      /\ s.done \in BOOLEAN /\ s.empty \in BOOLEAN
      /\ s.empty => Slot(w.f) \in Slots(v)
      /\ s.done => Sought(w, v, name)
  BY <1>6 DEF Looking, Moved, Steady
<1> HIDE DEF w
<1>9. CASE s.done \/ ~w.ok
  <2>1. z = w
    BY <1>7, <1>9
  <2> QED BY <1>8, <1>9, <2>1 DEF LookedFor
<1>10. CASE ~s.done /\ w.ok
  <2>1. /\ OneCard(w, z) /\ z.ok = w.ok /\ z.f = w.f /\ z.d = w.d
        /\ z.val = IF s.empty THEN "slot" ELSE "full"
    BY <1>7, <1>8, <1>10 DEF IsMachine, MachineFields, OneCard
  <2>2. Moved(w, z, v, from, purged) /\ StillDirty(w, z)
    BY <1>8, <2>1, SameCardMoved
  <2>3. Moved(a, z, v, from, purged) /\ StillDirty(a, z) /\ Shut(z, v)
    BY <1>8, <2>1, <2>2, MovedOn, StillDirtyOn DEF Shut
  <2>4. Sought(z, v, name)
    <3>1. CASE s.empty
      BY <1>8, <2>1, <3>1 DEF Sought
    <3>2. CASE ~s.empty
      BY <2>1, <3>2 DEF Sought
    <3> QED BY <3>1, <3>2
  <2> QED BY <1>8, <2>1, <2>3, <2>4 DEF LookedFor
<1> QED BY <1>8, <1>9, <1>10

-----------------------------------------------------------------------------
\* Opening a file

\* A new handle.
HandOf(x, ty, rd, wr, size, first, b, i) ==
  /\ x.type = ty /\ x.read = rd /\ x.write = wr /\ x.dirty = FALSE /\ x.cur = 0 /\ x.pos = 0
  /\ x.size = size /\ x.first = first /\ x.dirBlock = b /\ x.dirIndex = i

MadeHand(x, ty, rd, wr, size, first, b, i) ==
  x = [Closed EXCEPT !.type = ty, !.read = rd, !.write = wr, !.size = size,
                     !.first = first, !.dirBlock = b, !.dirIndex = i]

LEMMA HandIs ==
  ASSUME NEW ty \in {"file", "subdir"}, NEW rd \in BOOLEAN, NEW wr \in BOOLEAN,
         NEW size \in Nat, NEW first \in Nat, NEW b \in Nat, NEW i \in Nat, NEW x,
         MadeHand(x, ty, rd, wr, size, first, b, i)
  PROVE  x \in Handles /\ HandOf(x, ty, rd, wr, size, first, b, i)
<1>0. x = [Closed EXCEPT !.type = ty, !.read = rd, !.write = wr, !.size = size,
                         !.first = first, !.dirBlock = b, !.dirIndex = i]
  BY DEF MadeHand
<1>1. HandOf(x, ty, rd, wr, size, first, b, i)
  BY <1>0 DEF Closed, HandOf
<1>2. x \in Handles
  <2>1. Closed \in Handles
    BY DEF Closed, Handles
  <2> QED BY <1>0, <2>1 DEF Handles
<1> QED BY <1>1, <1>2

\* The handle x is on the file of slot s, whose entry is e.
OnEntry(x, e, s, flags) ==
  /\ x \in Handles /\ Slot(x) = s
  /\ x.type = IF e.dir THEN "subdir" ELSE "file"
  /\ x.read = ("read" \in flags) /\ x.write = ("write" \in flags) /\ x.dirty = FALSE
  /\ x.cur = 0 /\ x.pos = 0 /\ x.first = e.first
  /\ ~e.dir => x.size = e.size
  /\ x.write => ~e.dir

EntryOpening(a, z, s, flags, v, from, purged) ==
  /\ Moved(a, z, v, from, purged) /\ StillDirty(a, z) /\ (z.ok => a.ok) /\ z.d = a.d
  /\ ~z.ok => z.f = a.f
  /\ z.ok => OnEntry(z.f, Dir(a)[s], s, flags)

LEMMA OpenCachedEntryDoes ==
  ASSUME NEW a, NEW v, NEW from, NEW purged, Steady(a, v, from, purged),
         Good(View(a), v, purged), a.blk \in Root(v), NEW i \in Units,
         NEW flags, "trunc" \notin flags,
         NEW z, z = OpenCachedEntry(a, i, flags)
  PROVE  EntryOpening(a, z, <<a.blk, i>>, flags, v, from, purged)
<1>1. IsMachine(a) /\ a.ok \in BOOLEAN /\ a.vol = v
  BY DEF Steady
<1>2. PICK p \in DirEntry : p = a.buf[i] /\ p = Dir(a)[<<a.blk, i>>]
  BY ShownEntry
<1>3. p.dir \in BOOLEAN /\ p.first \in Nat /\ p.size \in Nat
  BY DEF DirEntry
<1>4. CASE p.dir /\ flags \cap {"write", "trunc"} # {}
  <2>1. z = [a EXCEPT !.ok = FALSE]
    BY <1>2, <1>4 DEF OpenCachedEntry, Fail
  <2>2. OneCard(a, z) /\ z.ok = FALSE /\ z.f = a.f /\ z.d = a.d
    BY <1>1, <2>1 DEF IsMachine, MachineFields, OneCard
  <2>3. Moved(a, z, v, from, purged) /\ StillDirty(a, z)
    BY <2>2, SameCardMoved
  <2> QED BY <2>2, <2>3 DEF EntryOpening
<1>5. CASE ~(p.dir /\ flags \cap {"write", "trunc"} # {})
  <2> DEFINE w == IF p.dir THEN ChainSize(a, p.first) ELSE [a EXCEPT !.val = p.size]
  <2>1. z = EntryOpened(w, p, a.blk, i, flags)
    BY <1>2, <1>5 DEF OpenCachedEntry
  <2>2. /\ Moved(a, w, v, from, purged) /\ StillDirty(a, w) /\ (w.ok => a.ok)
        /\ w.f = a.f /\ w.d = a.d /\ w.ok \in BOOLEAN /\ IsMachine(w)
        /\ w.ok => w.val \in Nat /\ (~p.dir => w.val = p.size)
    <3>1. CASE p.dir
      <4>1. w = ChainSize(a, p.first)
        BY <3>1
      <4> HIDE DEF w
      <4>2. Sized(a, w, v, from, purged)
        BY <1>3, <4>1, ChainSizeDoes
      <4> QED BY <3>1, <4>2, MovedKept DEF Sized, Peeked, Kept, SameRest, Steady
    <3>2. CASE ~p.dir
      <4>1. w = [a EXCEPT !.val = p.size]
        BY <3>2
      <4>2. OneCard(a, w) /\ w.ok = a.ok /\ w.f = a.f /\ w.d = a.d /\ w.val = p.size
        BY <1>1, <4>1 DEF IsMachine, MachineFields, OneCard
      <4> HIDE DEF w
      <4>3. Moved(a, w, v, from, purged) /\ StillDirty(a, w)
        BY <1>1, <4>2, SameCardMoved
      <4> QED BY <1>1, <1>3, <4>2, <4>3 DEF OneCard
    <3> QED BY <3>1, <3>2
  <2> HIDE DEF w
  <2>3. CASE ~w.ok
    <3>1. z = w
      BY <2>1, <2>3 DEF EntryOpened
    <3> QED BY <2>2, <2>3, <3>1 DEF EntryOpening
  <2>4. CASE w.ok
    <3> DEFINE x == [Closed EXCEPT
              !.type = IF p.dir THEN "subdir" ELSE "file",
              !.read = "read" \in flags, !.write = "write" \in flags,
              !.size = w.val, !.first = p.first, !.dirBlock = a.blk, !.dirIndex = i]
    <3>1. z = [w EXCEPT !.f = x]
      BY <2>1, <2>4 DEF EntryOpened
    <3>2. a.blk \in Nat /\ i \in Nat /\ w.val \in Nat
      BY <1>1, <2>2, <2>4, PartsApart DEF Units, Steady
    <3>3. PICK ty \in {"file", "subdir"}, rd \in BOOLEAN, wr \in BOOLEAN :
            /\ ty = (IF p.dir THEN "subdir" ELSE "file")
            /\ rd = ("read" \in flags) /\ wr = ("write" \in flags)
      <4>1. (IF p.dir THEN "subdir" ELSE "file") \in {"file", "subdir"}
        OBVIOUS
      <4>2. ("read" \in flags) \in BOOLEAN /\ ("write" \in flags) \in BOOLEAN
        OBVIOUS
      <4> HIDE DEF x
      <4> QED BY <4>1, <4>2, Zenon
    <3>3a. MadeHand(x, ty, rd, wr, w.val, p.first, a.blk, i)
      BY <3>3, Zenon DEF MadeHand
    <3> HIDE DEF x
    <3>4. OneCard(w, z) /\ z.ok = w.ok /\ z.f = x /\ z.d = w.d
      BY <2>2, <3>1 DEF IsMachine, MachineFields, OneCard
    <3>5. Moved(w, z, v, from, purged) /\ StillDirty(w, z)
      BY <2>2, <3>4, SameCardMoved DEF Moved
    <3>6. Moved(a, z, v, from, purged) /\ StillDirty(a, z)
      BY <2>2, <3>5, MovedOn, StillDirtyOn
    <3>7. x \in Handles /\ HandOf(x, ty, rd, wr, w.val, p.first, a.blk, i)
      <4>1. p.first \in Nat /\ w.val \in Nat /\ a.blk \in Nat /\ i \in Nat
        BY <1>3, <3>2
      <4> QED BY <3>3a, <4>1, HandIs, Zenon
    <3>9. x.write => ~p.dir
      BY <1>5, <3>3, <3>7 DEF HandOf
    <3>10. ~p.dir => x.size = p.size
      BY <2>2, <2>4, <3>7 DEF HandOf
    <3>11. OnEntry(x, p, <<a.blk, i>>, flags)
      BY <3>3, <3>7, <3>9, <3>10 DEF OnEntry, Slot, HandOf
    <3> QED BY <1>2, <2>2, <2>4, <3>4, <3>6, <3>11 DEF EntryOpening
  <2> QED BY <2>2, <2>3, <2>4
<1> QED BY <1>4, <1>5

\* A unit of a block of the directory changes in the cache.
UnitPut(a, z, i, x) ==
  /\ IsMachine(z)
  /\ z.disk = a.disk /\ z.log = a.log /\ z.left = a.left /\ z.ok = a.ok /\ z.blk = a.blk
  /\ z.dirty = a.dirty /\ z.mirror = a.mirror /\ z.start = a.start /\ z.vol = a.vol
  /\ z.buf = [a.buf EXCEPT ![i] = x]

LEMMA UnitPutDoes ==
  ASSUME NEW a, NEW v, NEW from, NEW purged, Steady(a, v, from, purged), a.dirty,
         a.blk \in Root(v), NEW i \in Units, NEW x \in DirEntry, NEW z, UnitPut(a, z, i, x)
  PROVE  /\ Steady(z, v, from, purged) /\ Tab(z) = Tab(a)
         /\ Dir(z) = [Dir(a) EXCEPT ![<<a.blk, i>>] = x]
<1>1. /\ IsMachine(z) /\ z.vol = v /\ Layout16(v) /\ a.vol = v /\ Holds(View(a), v)
      /\ z.dirty = a.dirty /\ z.blk = a.blk
  BY DEF UnitPut, Steady
<1>2. a.buf = View(a)[a.blk]
  BY Shown
<1>3. View(z) = Put(View(a), a.blk, [View(a)[a.blk] EXCEPT ![i] = x])
  BY <1>2 DEF View, Put, UnitPut
<1>4. /\ Holds(View(z), v) /\ TableOf(View(z), v) = TableOf(View(a), v)
      /\ DirOf(View(z), v) = [DirOf(View(a), v) EXCEPT ![<<a.blk, i>>] = x]
  BY <1>1, <1>3, UnitChanges
<1>5. Steady(z, v, from, purged)
  BY <1>1, <1>4 DEF Steady, UnitPut
<1> QED BY <1>1, <1>4, <1>5 DEF Tab, Dir

\* The entry x is in the directory.
HasEntry(a, z, i, x, v, from, purged, g) ==
  /\ Fit(z, v, from, purged, g) /\ Tab(z) = Tab(a)
  /\ Dir(z) = [Dir(a) EXCEPT ![<<a.blk, i>>] = x]
  /\ <<a.blk, i>> \in Slots(v) /\ Dir(z)[<<a.blk, i>>] = x

\* The entry of a file is brought up to date: its chain is long enough.
LEMMA EntryPutDoes ==
  ASSUME NEW a, NEW v, NEW from, NEW purged, NEW g, Fit(a, v, from, purged, g), a.dirty,
         a.blk \in Root(v), NEW i \in Units, NEW x \in DirEntry,
         Live(x) => Fed(x, <<a.blk, i>>, v, g), NEW z, UnitPut(a, z, i, x)
  PROVE  HasEntry(a, z, i, x, v, from, purged, g)
<1>1. /\ Steady(a, v, from, purged) /\ Dir(a) \in [Slots(v) -> DirEntry]
      /\ Chains(Tab(a), Dir(a), v, g, {})
  BY FitGood DEF Fit
<1>2. /\ Steady(z, v, from, purged) /\ Tab(z) = Tab(a)
      /\ Dir(z) = [Dir(a) EXCEPT ![<<a.blk, i>>] = x]
  BY <1>1, UnitPutDoes
<1>3. <<a.blk, i>> \in Slots(v)
  BY DEF Slots
<1>4. Chains(Tab(z), Dir(z), v, g, {})
  <2>1. {} \ {<<a.blk, i>>} \subseteq {}
    OBVIOUS
  <2>2. Chains(Tab(a), [Dir(a) EXCEPT ![<<a.blk, i>>] = x], v, g, {})
    BY <1>1, <1>3, <2>1, EntryChanges, Zenon
  <2> QED BY <1>2, <2>2, Zenon
<1> QED BY <1>1, <1>2, <1>3, <1>4 DEF Fit, HasEntry

\* A new entry is in the directory, unless z has failed.
Entering(a, z, name, v, from, purged, g) ==
  /\ Fit(z, v, from, purged, g) /\ (a.left = 0 => z.left = 0) /\ (z.ok => a.ok)
  /\ z.f = a.f /\ z.d = a.d
  /\ z.ok => /\ z.blk = a.f.dirBlock /\ ~z.dirty
             /\ Dir(z)[Slot(a.f)] = [FreeEntry EXCEPT !.name = name]

LEMMA NewEntryDoes ==
  ASSUME NEW a, NEW v, NEW from, NEW purged, NEW g, Fit(a, v, from, purged, g),
         Slot(a.f) \in Slots(v), NEW name \in Names,
         NEW z, z = NewEntry(CacheDirEntry(a, "f", TRUE), name)
  PROVE  Entering(a, z, name, v, from, purged, g)
<1> DEFINE w == CacheDirEntry(a, "f", TRUE)
<1>0. z = NewEntry(w, name)
  OBVIOUS
<1>1. Steady(a, v, from, purged) /\ Good(View(a), v, purged)
  BY FitGood
<1>2. a.f.dirBlock \in Root(v) /\ a.f.dirIndex \in Units
  BY DEF Slot, Slots
<1>3. w = CacheRawBlock(a, a.f.dirBlock, TRUE)
  BY DEF CacheDirEntry
<1> HIDE DEF w
<1>4. Cached(a, w, a.f.dirBlock, TRUE, v, from, purged)
  BY <1>1, <1>2, <1>3, CacheRawBlockDoes
<1>5. /\ Kept(a, w, v, from, purged) /\ Steady(w, v, from, purged) /\ IsMachine(w)
      /\ w.f = a.f /\ w.d = a.d /\ w.ok \in BOOLEAN /\ (w.ok => a.ok)
      /\ (a.left = 0 => w.left = 0)
      /\ w.ok => w.blk = a.f.dirBlock /\ w.dirty
  BY <1>4 DEF Cached, Kept, Steady, SameRest
<1>6. Fit(w, v, from, purged, g)
  BY <1>5, FitKept
<1>7. CASE ~w.ok
  <2>1. z = w
    BY <1>0, <1>7 DEF NewEntry
  <2> QED BY <1>5, <1>6, <1>7, <2>1 DEF Entering
<1>8. CASE w.ok
  <2> DEFINE e == [FreeEntry EXCEPT !.name = name]
             y == [w EXCEPT !.buf[w.f.dirIndex] = e]
  <2>1. z = CacheFlush(y)
    BY <1>0, <1>8 DEF NewEntry
  <2>2. /\ UnitPut(w, y, a.f.dirIndex, e) /\ y.f = w.f /\ y.d = w.d /\ y.ok = w.ok
        /\ y.left = w.left
    BY <1>5 DEF UnitPut, IsMachine, MachineFields
  <2>3. e \in DirEntry /\ e.first = 0 /\ e.size = 0
    BY DEF FreeEntry, DirEntry
  <2> HIDE DEF e, y
  <2>4. Fed(e, <<w.blk, a.f.dirIndex>>, v, g)
    BY <2>3 DEF Fed
  <2>5. /\ Fit(y, v, from, purged, g) /\ Dir(y)[<<w.blk, a.f.dirIndex>>] = e
    <3>1. HasEntry(w, y, a.f.dirIndex, e, v, from, purged, g)
      BY <1>2, <1>5, <1>6, <1>8, <2>2, <2>3, <2>4, EntryPutDoes
    <3> QED BY <3>1 DEF HasEntry
  <2>6. Steady(y, v, from, purged) /\ Good(View(y), v, purged)
    BY <2>5, FitGood
  <2>7. Flushed(y, z, v, from, purged)
    BY <2>1, <2>6, CacheFlushDoes
  <2>8. /\ Kept(y, z, v, from, purged) /\ z.blk = y.blk /\ (z.ok => ~z.dirty)
        /\ z.f = y.f /\ z.d = y.d /\ (y.left = 0 => z.left = 0) /\ Dir(z) = Dir(y)
    BY <2>7 DEF Flushed, Kept, SameRest, SameView
  <2>9. Fit(z, v, from, purged, g)
    BY <2>5, <2>8, FitKept
  <2>10. y.blk = a.f.dirBlock
    BY <1>5, <1>8, <2>2 DEF UnitPut
  <2> QED BY <1>5, <1>8, <2>2, <2>5, <2>8, <2>9, <2>10 DEF Entering, Slot, e
<1> QED BY <1>5, <1>7, <1>8

\* An entry that was not to be there is a new one.
Made(e, name, flags) == {"creat", "excl"} \subseteq flags => e = [FreeEntry EXCEPT !.name = name]

\* A file of that name is open, unless z has failed.
Opening(a, z, name, flags, v, from, purged, g) ==
  /\ Fit(z, v, from, purged, g) /\ (a.left = 0 => z.left = 0) /\ (z.ok => a.ok)
  /\ RootHand(z.d, v) /\ z.f \in Handles
  /\ ~z.ok => z.f.type = "closed"
  /\ z.ok => /\ Safe(z) /\ Slot(z.f) \in Slots(v) /\ Dir(z)[Slot(z.f)].name = name
             /\ OnEntry(z.f, Dir(z)[Slot(z.f)], Slot(z.f), flags)
             /\ Made(Dir(z)[Slot(z.f)], name, flags)

\* The entry that the search has found, or made, is opened.
LEMMA OpenFoundDoes ==
  ASSUME NEW a, NEW v, NEW from, NEW purged, NEW g, Fit(a, v, from, purged, g), Shut(a, v),
         a.blk \in Root(v), NEW i \in Units, NEW name, Dir(a)[<<a.blk, i>>].name = name,
         NEW flags, "trunc" \notin flags, Made(Dir(a)[<<a.blk, i>>], name, flags),
         NEW z, z = OpenCachedEntry(a, i, flags)
  PROVE  Opening(a, z, name, flags, v, from, purged, g)
<1>1. Steady(a, v, from, purged) /\ Good(View(a), v, purged)
  BY FitGood
<1>2. EntryOpening(a, z, <<a.blk, i>>, flags, v, from, purged)
  BY <1>1, OpenCachedEntryDoes
<1>3. /\ Moved(a, z, v, from, purged) /\ StillDirty(a, z) /\ (z.ok => a.ok) /\ z.d = a.d
      /\ ~z.ok => z.f = a.f
      /\ z.ok => OnEntry(z.f, Dir(a)[<<a.blk, i>>], <<a.blk, i>>, flags)
      /\ Dir(z) = Dir(a) /\ z.vol = v /\ (a.left = 0 => z.left = 0)
  BY <1>2 DEF EntryOpening, Moved, SameView, Steady
<1>4. Fit(z, v, from, purged, g)
  BY <1>3, FitMoved
<1>5. Safe(z)
  BY <1>3 DEF StillDirty, Safe
<1>6. <<a.blk, i>> \in Slots(v)
  BY DEF Slots
<1>7. z.f \in Handles
  BY <1>3 DEF OnEntry, Shut
<1>8. CASE z.ok
  <2>1. Slot(z.f) = <<a.blk, i>>
    BY <1>3, <1>8 DEF OnEntry
  <2> QED BY <1>3, <1>4, <1>5, <1>6, <1>7, <1>8, <2>1 DEF Opening, Shut
<1>9. CASE ~z.ok
  BY <1>3, <1>4, <1>7, <1>9 DEF Opening, Shut
<1> QED BY <1>8, <1>9

HandPut(x, y, cur, pos) == y = [x EXCEPT !.cur = cur, !.pos = pos]

LEMMA HandMoves ==
  ASSUME NEW x \in Handles, NEW cur \in Nat, NEW pos \in Nat, NEW y, HandPut(x, y, cur, pos)
  PROVE  Elsewhere(x, y) /\ y.cur = cur /\ y.pos = pos
<1>1. y \in Handles /\ y.cur = cur /\ y.pos = pos
  BY DEF Handles, HandPut
<1>2. /\ y.type = x.type /\ y.read = x.read /\ y.write = x.write /\ y.dirty = x.dirty
      /\ y.size = x.size /\ y.first = x.first /\ y.dirBlock = x.dirBlock
      /\ y.dirIndex = x.dirIndex
  BY DEF Handles, HandPut
<1> QED BY <1>1, <1>2 DEF Elsewhere

\* The file that is opened has been looked for, or made.
LEMMA SearchedDoes ==
  ASSUME NEW a, NEW v, NEW from, NEW purged, NEW g, Fit(a, v, from, purged, g), Shut(a, v),
         NEW name \in Names, a.ok => Sought(a, v, name), NEW flags, "trunc" \notin flags,
         NEW z, z = Searched(a, name, flags)
  PROVE  Opening(a, z, name, flags, v, from, purged, g)
<1>1. Steady(a, v, from, purged) /\ Good(View(a), v, purged) /\ a.ok \in BOOLEAN /\ IsMachine(a)
  BY FitGood DEF Steady
<1>2. a.f \in Handles /\ a.f.type = "closed" /\ RootHand(a.d, v)
  BY DEF Shut
<1>3. CASE ~a.ok
  <2>1. z = a
    BY <1>3 DEF Searched
  <2> QED BY <1>2, <1>3, <2>1 DEF Opening
<1>4. ASSUME a.ok, z = Fail(a)
      PROVE  Opening(a, z, name, flags, v, from, purged, g)
  <2>1. OneCard(a, z) /\ z.ok = FALSE /\ z.f = a.f /\ z.d = a.d
    BY <1>1, <1>4 DEF IsMachine, MachineFields, OneCard, Fail
  <2>2. Moved(a, z, v, from, purged)
    BY <1>1, <2>1, SameCardMoved
  <2>3. Fit(z, v, from, purged, g)
    BY <2>2, FitMoved
  <2> QED BY <1>2, <2>1, <2>2, <2>3 DEF Opening, Moved
<1>5. CASE a.ok /\ a.val = "found"
  <2>1. a.blk \in Root(v) /\ a.f.dirIndex \in Units /\ a.buf[a.f.dirIndex].name = name
    BY <1>5 DEF Sought
  <2>2. CASE {"creat", "excl"} \subseteq flags
    <3>1. z = Fail(a)
      BY <1>5, <2>2 DEF Searched
    <3> QED BY <1>4, <1>5, <3>1
  <2>3. CASE ~({"creat", "excl"} \subseteq flags)
    <3>1. z = OpenCachedEntry(a, a.f.dirIndex, flags)
      BY <1>5, <2>3 DEF Searched
    <3>2. Dir(a)[<<a.blk, a.f.dirIndex>>].name = name
      BY <1>1, <2>1, ShownEntry
    <3>3. Made(Dir(a)[<<a.blk, a.f.dirIndex>>], name, flags)
      BY <2>3 DEF Made
    <3> QED BY <2>1, <3>1, <3>2, <3>3, OpenFoundDoes
  <2> QED BY <2>2, <2>3
<1>6. CASE a.ok /\ a.val # "found"
  <2>1. CASE ~({"creat", "write"} \subseteq flags)
    <3>1. z = Fail(a)
      BY <1>6, <2>1 DEF Searched
    <3> QED BY <1>4, <1>6, <3>1
  <2>2. CASE {"creat", "write"} \subseteq flags /\ a.val = "slot"
    <3> DEFINE c == NewEntry(CacheDirEntry(a, "f", TRUE), name)
    <3>1. z = OpenMade(c, flags)
      BY <1>6, <2>2 DEF Searched, SlotFor
    <3>2. Slot(a.f) \in Slots(v)
      BY <1>6, <2>2 DEF Sought
    <3>3. Entering(a, c, name, v, from, purged, g)
      BY <3>2, NewEntryDoes
    <3> HIDE DEF c
    <3>4. /\ Fit(c, v, from, purged, g) /\ (a.left = 0 => c.left = 0) /\ (c.ok => a.ok)
          /\ c.f = a.f /\ c.d = a.d
          /\ c.ok => /\ c.blk = a.f.dirBlock
                     /\ Dir(c)[Slot(a.f)] = [FreeEntry EXCEPT !.name = name]
      BY <3>3 DEF Entering
    <3>5. Shut(c, v) /\ c.ok \in BOOLEAN
      BY <3>4, FitGood DEF Shut, Steady
    <3>6. CASE ~c.ok
      <4>1. z = c
        BY <3>1, <3>6 DEF OpenMade
      <4> QED BY <1>2, <3>4, <3>6, <4>1 DEF Opening
    <3>7. CASE c.ok
      <4>1. z = OpenCachedEntry(c, c.f.dirIndex, flags)
        BY <3>1, <3>7 DEF OpenMade
      <4>2. c.blk \in Root(v) /\ c.f.dirIndex \in Units /\ <<c.blk, c.f.dirIndex>> = Slot(a.f)
        BY <3>2, <3>4, <3>7 DEF Slot, Slots
      <4>3. Dir(c)[<<c.blk, c.f.dirIndex>>].name = name
        BY <3>4, <3>7, <4>2 DEF FreeEntry
      <4>4. Made(Dir(c)[<<c.blk, c.f.dirIndex>>], name, flags)
        BY <3>4, <3>7, <4>2 DEF Made
      <4>5. Opening(c, z, name, flags, v, from, purged, g)
        BY <3>4, <3>5, <4>1, <4>2, <4>3, <4>4, OpenFoundDoes
      <4> QED BY <3>4, <4>5 DEF Opening
    <3> QED BY <3>5, <3>6, <3>7
  <2>3. CASE {"creat", "write"} \subseteq flags /\ a.val # "slot"
    <3> DEFINE e == Fail(a)
    <3>1. SlotFor(a) = e
      BY <1>2, <2>3 DEF SlotFor, RootHand
    <3>2. e.ok = FALSE
      BY <1>1 DEF Fail, IsMachine, MachineFields
    <3>3. z = OpenMade(NewEntry(e, name), flags)
      BY <1>6, <2>3, <3>1 DEF Searched
    <3>4. z = e
      BY <3>2, <3>3 DEF NewEntry, OpenMade
    <3> QED BY <1>4, <1>6, <3>4
  <2> QED BY <2>1, <2>2, <2>3
<1> QED BY <1>1, <1>3, <1>5, <1>6

\* A file is opened: the volume stays as it is, but for a new entry.
LEMMA OpenDoes ==
  ASSUME NEW a, NEW v, NEW from, NEW purged, NEW g, Fit(a, v, from, purged, g), Shut(a, v),
         NEW name \in Names, NEW flags, "trunc" \notin flags, NEW z, z = Open(a, name, flags)
  PROVE  Opening(a, z, name, flags, v, from, purged, g)
<1>1. Steady(a, v, from, purged) /\ Good(View(a), v, purged) /\ a.ok \in BOOLEAN /\ IsMachine(a)
  BY FitGood DEF Steady
<1>2. a.f \in Handles /\ a.f.type = "closed" /\ RootHand(a.d, v)
  BY DEF Shut
<1> DEFINE x == Rewind([a EXCEPT !.f = Closed], "d")
           w == SearchDir(x, name)
<1>3. z = Searched(w, name, flags)
  BY <1>2 DEF Open, IsOpen
<1>4. /\ OneCard(a, x) /\ x.ok = a.ok /\ x.f = Closed
      /\ x.d = [a.d EXCEPT !.cur = 0, !.pos = 0]
  BY <1>1 DEF Rewind, IsMachine, MachineFields, OneCard
<1> HIDE DEF x
<1>5. Moved(a, x, v, from, purged)
  BY <1>1, <1>4, SameCardMoved
<1>6. Shut(x, v) /\ x.d.pos = 0
  <2>1. Closed \in Handles /\ Closed.type = "closed"
    BY DEF Closed, Handles
  <2>2. RootHand(x.d, v) /\ x.d.pos = 0
    <3>1. a.d \in Handles /\ a.d.type = "root16" /\ a.d.read = TRUE /\ a.d.size = v.rootEntries
      BY <1>2 DEF RootHand
    <3>2. Elsewhere(a.d, x.d) /\ x.d.pos = 0
      <4>1. HandPut(a.d, x.d, 0, 0)
        BY <1>4 DEF HandPut
      <4>2. a.d \in Handles
        BY <3>1
      <4>3. PICK zero \in Nat : zero = 0
        OBVIOUS
      <4>4. HandPut(a.d, x.d, zero, zero)
        BY <4>1, <4>3
      <4>5. Elsewhere(a.d, x.d) /\ x.d.pos = zero
        BY <4>2, <4>4, HandMoves
      <4> QED BY <4>3, <4>5
    <3> QED BY <3>1, <3>2 DEF RootHand, Elsewhere
  <2> QED BY <1>4, <2>1, <2>2 DEF Shut
<1>7. Fit(x, v, from, purged, g)
  BY <1>5, FitMoved
<1>8. Steady(x, v, from, purged) /\ Good(View(x), v, purged)
  BY <1>7, FitGood
<1>9. LookedFor(x, w, v, from, purged, name)
  BY <1>6, <1>8, SearchDirDoes
<1> HIDE DEF w
<1>10. /\ Moved(x, w, v, from, purged) /\ Shut(w, v) /\ (w.ok => x.ok)
       /\ w.ok => Sought(w, v, name)
  BY <1>9 DEF LookedFor
<1>11. Fit(w, v, from, purged, g)
  BY <1>7, <1>10, FitMoved
<1>12. Opening(w, z, name, flags, v, from, purged, g)
  BY <1>3, <1>10, <1>11, SearchedDoes
<1>13. /\ (a.left = 0 => w.left = 0) /\ (w.ok => a.ok)
  BY <1>4, <1>10 DEF Moved, OneCard
<1> QED BY <1>12, <1>13 DEF Opening

-----------------------------------------------------------------------------
\* Moving about in a file

\* The cluster is one of the chain of slot s, or its end.
OnChain(c, g, s) == IsEOC(c) \/ (c \in g.has /\ g.own[c] = s)

LEMMA ChainLeadsOn ==
  ASSUME NEW v, Layout16(v), NEW t, t \in [ClustersOf(v) -> Nat], NEW dir, NEW g, NEW purged,
         Chains(t, dir, v, g, purged), NEW s, NEW c, c \in g.has, g.own[c] = s
  PROVE  /\ c \in ClustersOf(v) /\ ~IsEOC(c) /\ c # 0
         /\ OnChain(t[c], g, s) /\ t[c] # 0
         /\ ~IsEOC(t[c]) => g.rank[t[c]] = g.rank[c] + 1
         /\ IsEOC(t[c]) => g.rank[c] + 1 = g.len[s]
<1>1. c \in ClustersOf(v) /\ t[c] # 0
  BY OwnedIsTaken
<1>2. \A e \in ClustersOf(v) : ~IsEOC(e) /\ e # 0
  BY DEF ClustersOf, IsEOC, Layout16, EOC
<1>3. Leads(t, g, c) /\ g.has \subseteq ClustersOf(v)
  BY DEF Chains
<1> QED BY <1>1, <1>2, <1>3 DEF Leads, OnChain

\* From cluster to cluster.
FollowingTo(a, k, run) ==
  run = [n \in 0 .. k |-> IF n = 0 THEN a
                          ELSE NextCluster(FatGet(run[n - 1], run[n - 1].f.cur), "f")]

LEMMA FollowingExists ==
  ASSUME NEW a
  PROVE  \A k \in Nat : \E run : FollowingTo(a, k, run)
<1> DEFINE S == {k \in Nat : ~\E run : FollowingTo(a, k, run)}
<1>1. CASE S = {}
  BY <1>1
<1>2. CASE S # {}
  <2>1. PICK k \in S : \A j \in S : k <= j
    BY <1>2, LeastNumber
  <2>2. CASE k = 0
    <3> DEFINE run == [n \in 0 .. 0 |-> a]
    <3>1. FollowingTo(a, 0, run)
      BY DEF FollowingTo
    <3> QED BY <2>1, <2>2, <3>1
  <2>3. CASE k # 0
    <3>1. k - 1 \in Nat /\ k - 1 \notin S
      BY <2>1, <2>3
    <3>2. PICK run : FollowingTo(a, k - 1, run)
      BY <3>1
    <3> DEFINE on == [n \in 0 .. k |-> IF n = k THEN NextCluster(FatGet(run[n - 1], run[n - 1].f.cur), "f") ELSE run[n]]
    <3>3. \A n \in 0 .. k - 1 : /\ on[n] = run[n]
                                /\ run[n] = IF n = 0 THEN a
                                            ELSE NextCluster(FatGet(run[n - 1], run[n - 1].f.cur), "f")
      <4>1. \A n \in 0 .. k - 1 : n \in 0 .. k /\ n # k
        BY <2>1
      <4>2. \A n \in 0 .. k - 1 : run[n] = IF n = 0 THEN a
                                           ELSE NextCluster(FatGet(run[n - 1], run[n - 1].f.cur), "f")
        BY <3>2, Zenon DEF FollowingTo
      <4> QED BY <4>1, <4>2, Zenon
    <3>4. \A n \in 0 .. k : on[n] = IF n = 0 THEN a
                                     ELSE NextCluster(FatGet(on[n - 1], on[n - 1].f.cur), "f")
      <4> SUFFICES ASSUME NEW n \in 0 .. k
                   PROVE  on[n] = IF n = 0 THEN a ELSE NextCluster(FatGet(on[n - 1], on[n - 1].f.cur), "f")
        OBVIOUS
      <4> HIDE DEF on
      <4>1. CASE n = k
        <5>1. on[k] = NextCluster(FatGet(run[k - 1], run[k - 1].f.cur), "f") /\ k - 1 \in 0 .. k - 1
          BY <2>1, <2>3 DEF on
        <5> QED BY <2>3, <3>3, <4>1, <5>1
      <4>2. CASE n # k
        <5>1. n \in 0 .. k - 1 /\ (n # 0 => n - 1 \in 0 .. k - 1)
          BY <2>1, <4>2
        <5> QED BY <3>3, <5>1
      <4> QED BY <4>1, <4>2
    <3>5. FollowingTo(a, k, on)
      <4>1. on = [n \in 0 .. k |-> on[n]]
        OBVIOUS
      <4> HIDE DEF on
      <4> QED BY <3>4, <4>1, Zenon DEF FollowingTo
    <3> QED BY <2>1, <3>5
  <2> QED BY <2>2, <2>3
<1> QED BY <1>1, <1>2

FollowingRun(a, k, run) ==
  /\ run[0] = a
  /\ \A n \in 1 .. k : run[n] = NextCluster(FatGet(run[n - 1], run[n - 1].f.cur), "f")

LEMMA FollowingRuns ==
  ASSUME NEW a, NEW k \in Nat, NEW run, FollowingTo(a, k, run)
  PROVE  FollowingRun(a, k, run)
<1>1. \A n \in 0 .. k : run[n] = IF n = 0 THEN a
                                 ELSE NextCluster(FatGet(run[n - 1], run[n - 1].f.cur), "f")
  BY Zenon DEF FollowingTo
<1>2. 0 \in 0 .. k /\ \A n \in 1 .. k : n \in 0 .. k /\ n # 0
  OBVIOUS
<1> QED BY <1>1, <1>2, Zenon DEF FollowingRun

LEMMA FollowingIs ==
  ASSUME NEW a, NEW last \in Nat
  PROVE  \E run : FollowingRun(a, last, run) /\ FollowChain(a, "f", last) = run[last]
<1> DEFINE run == CHOOSE run : FollowingTo(a, last, run)
<1>1. FollowingTo(a, last, run)
  BY FollowingExists
<1>2. FollowChain(a, "f", last) = run[last]
  BY DEF FollowChain, FollowingTo
<1> HIDE DEF run
<1>3. FollowingRun(a, last, run)
  BY <1>1, FollowingRuns
<1> QED BY <1>2, <1>3, Zenon

\* The machine z has followed the chain of slot s in the table.
Followed(a, z, n, v, from, purged, g, s) ==
  /\ Moved(a, z, v, from, purged) /\ StillDirty(a, z) /\ z.d = a.d
  /\ Elsewhere(a.f, z.f) /\ z.f.pos = a.f.pos
  /\ z.ok => a.ok
  /\ OnChain(z.f.cur, g, s)
  /\ a.ok /\ ~a.dirty /\ a.f.cur \in g.has /\ g.rank[a.f.cur] + n < g.len[s] =>
       z.ok /\ z.f.cur \in g.has /\ g.rank[z.f.cur] = g.rank[a.f.cur] + n

LEMMA FollowingKeeps ==
  ASSUME NEW a, NEW v, NEW from, NEW purged, NEW g, Fit(a, v, from, purged, g),
         a.f \in Handles, NEW s \in Slots(v), a.f.cur \in g.has => g.own[a.f.cur] = s,
         NEW n \in Nat, NEW y, Followed(a, y, n, v, from, purged, g, s),
         NEW z, z = NextCluster(FatGet(y, y.f.cur), "f")
  PROVE  Followed(a, z, n + 1, v, from, purged, g, s)
<1>1. /\ Layout16(v) /\ Tab(a) \in [ClustersOf(v) -> Nat] /\ Chains(Tab(a), Dir(a), v, g, {})
  BY FitGood DEF Fit
<1>2. /\ Moved(a, y, v, from, purged) /\ StillDirty(a, y) /\ y.d = a.d
      /\ Elsewhere(a.f, y.f) /\ y.f.pos = a.f.pos /\ (y.ok => a.ok) /\ y.f \in Handles
      /\ OnChain(y.f.cur, g, s) /\ Tab(y) = Tab(a)
  BY DEF Followed, Elsewhere, Moved, SameView
<1>3. Fit(y, v, from, purged, g)
  BY <1>2, FitMoved
<1>4. Steady(y, v, from, purged) /\ Good(View(y), v, purged)
  BY <1>3, FitGood
<1>5. y["f"] \in Handles /\ z = NextCluster(FatGet(y, y["f"].cur), "f")
  BY <1>2
<1>6. /\ Moved(y, z, v, from, purged) /\ StillDirty(y, z) /\ z.d = y.d
      /\ Elsewhere(y.f, z.f) /\ z.f.pos = y.f.pos
      /\ z.ok => /\ y.ok /\ y.f.cur <= v.clusterCount + 1
                 /\ y.f.cur \in ClustersOf(v) => z.f.cur = Tab(y)[y.f.cur]
      /\ ~z.ok => z.f.cur = y.f.cur
      /\ y.ok /\ ~y.dirty /\ y.f.cur <= v.clusterCount + 1 => z.ok
  BY <1>4, <1>5, NextClusterDoes DEF OtherHand
<1>7. /\ Moved(a, z, v, from, purged) /\ StillDirty(a, z) /\ z.d = a.d
      /\ Elsewhere(a.f, z.f) /\ z.f.pos = a.f.pos /\ (z.ok => a.ok)
  BY <1>2, <1>6, MovedOn, StillDirtyOn DEF Elsewhere
<1>8. \A c \in g.has : /\ c \in ClustersOf(v) /\ c <= v.clusterCount + 1
                       /\ g.own[c] = s => OnChain(Tab(a)[c], g, s)
                       /\ g.own[c] = s => (~IsEOC(Tab(a)[c]) => g.rank[Tab(a)[c]] = g.rank[c] + 1)
                       /\ g.own[c] = s => (IsEOC(Tab(a)[c]) => g.rank[c] + 1 = g.len[s])
  <2> SUFFICES ASSUME NEW c \in g.has
               PROVE  /\ c \in ClustersOf(v) /\ c <= v.clusterCount + 1
                      /\ g.own[c] = s =>
                           /\ OnChain(Tab(a)[c], g, s)
                           /\ ~IsEOC(Tab(a)[c]) => g.rank[Tab(a)[c]] = g.rank[c] + 1
                           /\ IsEOC(Tab(a)[c]) => g.rank[c] + 1 = g.len[s]
    BY Zenon
  <2>1. c \in ClustersOf(v)
    BY <1>1 DEF Chains
  <2>2. c <= v.clusterCount + 1
    BY <2>1 DEF ClustersOf
  <2>3. g.own[c] = s => /\ OnChain(Tab(a)[c], g, s)
                        /\ ~IsEOC(Tab(a)[c]) => g.rank[Tab(a)[c]] = g.rank[c] + 1
                        /\ IsEOC(Tab(a)[c]) => g.rank[c] + 1 = g.len[s]
    BY <1>1, ChainLeadsOn
  <2> QED BY <2>1, <2>2, <2>3
<1>9. OnChain(z.f.cur, g, s)
  <2>1. CASE ~z.ok
    BY <1>2, <1>6, <2>1
  <2>2. CASE z.ok
    <3>1. ~IsEOC(y.f.cur)
      <4>1. y.f.cur \in Nat /\ y.f.cur <= v.clusterCount + 1
        BY <1>2, <1>6, <2>2 DEF Handles
      <4>2. v.clusterCount \in Nat /\ v.clusterCount + 1 < EOC
        BY <1>1 DEF Layout16
      <4> QED BY <4>1, <4>2 DEF IsEOC, EOC
    <3> QED BY <1>2, <1>6, <1>8, <2>2, <3>1 DEF OnChain
  <2> QED BY <2>1, <2>2
<1>10. ASSUME a.ok, ~a.dirty, a.f.cur \in g.has, g.rank[a.f.cur] + (n + 1) < g.len[s]
       PROVE  z.ok /\ z.f.cur \in g.has /\ g.rank[z.f.cur] = g.rank[a.f.cur] + (n + 1)
  <2>1. g.rank[a.f.cur] \in Nat /\ g.len[s] \in Nat
    BY <1>1, <1>10 DEF Chains
  <2>2. g.rank[a.f.cur] + n < g.len[s]
    BY <1>10, <2>1
  <2>3. y.ok /\ y.f.cur \in g.has /\ g.rank[y.f.cur] = g.rank[a.f.cur] + n
    BY <1>10, <2>2 DEF Followed
  <2>4. ~y.dirty
    BY <1>2, <1>10 DEF StillDirty
  <2>5. g.own[y.f.cur] = s
    <3>1. ~IsEOC(y.f.cur)
      BY <1>1, <1>8, <2>3 DEF IsEOC, Layout16, EOC, ClustersOf
    <3> QED BY <1>2, <3>1 DEF OnChain
  <2>6. z.ok /\ z.f.cur = Tab(a)[y.f.cur]
    BY <1>2, <1>6, <1>8, <2>3, <2>4
  <2>7. ~IsEOC(z.f.cur)
    BY <1>8, <1>10, <2>1, <2>3, <2>5, <2>6
  <2>8. z.f.cur \in g.has
    BY <1>9, <2>7 DEF OnChain
  <2> QED BY <1>8, <2>1, <2>3, <2>5, <2>6, <2>7, <2>8
<1> QED BY <1>7, <1>9, <1>10 DEF Followed

LEMMA FollowChainDoes ==
  ASSUME NEW a, NEW v, NEW from, NEW purged, NEW g, Fit(a, v, from, purged, g),
         a.f \in Handles, NEW s \in Slots(v), OnChain(a.f.cur, g, s),
         NEW count \in Nat, NEW z, z = FollowChain(a, "f", count)
  PROVE  Followed(a, z, count, v, from, purged, g, s)
<1>1. PICK run : FollowingRun(a, count, run) /\ FollowChain(a, "f", count) = run[count]
  BY FollowingIs
<1>2. /\ IsMachine(a) /\ a.ok \in BOOLEAN /\ Steady(a, v, from, purged) /\ Layout16(v)
      /\ Chains(Tab(a), Dir(a), v, g, {})
  BY FitGood DEF Steady, Fit
<1>3. a.f.cur \in g.has => g.own[a.f.cur] = s
  <2>1. \A c \in g.has : ~IsEOC(c)
    BY <1>2 DEF Chains, ClustersOf, IsEOC, Layout16, EOC
  <2> QED BY <2>1 DEF OnChain
<1> DEFINE S == {n \in 0 .. count : Followed(a, run[n], n, v, from, purged, g, s)}
<1>4. 0 \in S
  <2>1. run[0] = a
    BY <1>1 DEF FollowingRun
  <2>2. OneCard(a, a) /\ Elsewhere(a.f, a.f)
    BY <1>2 DEF OneCard, Elsewhere
  <2>3. Moved(a, a, v, from, purged) /\ StillDirty(a, a)
    BY <1>2, <2>2, SameCardMoved
  <2>4. a.f.cur \in g.has => g.rank[a.f.cur] + 0 = g.rank[a.f.cur]
    BY <1>2 DEF Chains
  <2>5. Followed(a, a, 0, v, from, purged, g, s)
    BY <2>2, <2>3, <2>4 DEF Followed
  <2> QED BY <2>1, <2>5
<1>5. \A n \in 1 .. count : n - 1 \in S => n \in S
  <2> SUFFICES ASSUME NEW n \in 1 .. count, n - 1 \in S
               PROVE  n \in S
    OBVIOUS
  <2>1. run[n] = NextCluster(FatGet(run[n - 1], run[n - 1].f.cur), "f") /\ n \in 0 .. count
    BY <1>1 DEF FollowingRun
  <2>2. Followed(a, run[n - 1], n - 1, v, from, purged, g, s)
    OBVIOUS
  <2>3. n - 1 \in Nat /\ (n - 1) + 1 = n
    OBVIOUS
  <2>4. Followed(a, run[n], (n - 1) + 1, v, from, purged, g, s)
    BY <1>3, <2>1, <2>2, <2>3, FollowingKeeps
  <2> QED BY <2>1, <2>3, <2>4
<1> HIDE DEF S
<1>6. count \in S
  BY <1>4, <1>5, Upwards
<1> QED BY <1>1, <1>6 DEF S

\* Arithmetic on positions.
LEMMA DivisionIs ==
  ASSUME NEW k \in Nat \ {0}, NEW q \in Nat, NEW r \in Nat, r < k, NEW n \in Nat, n = q * k + r
  PROVE  n \div k = q /\ (n % k) = r
<1>1. PICK p \in Nat, i \in Nat : p = n \div k /\ i = (n % k) /\ i < k /\ n = k * p + i
  BY Division
<1>2. k * p = p * k /\ q * k \in Nat /\ p * k \in Nat
  BY SMT
<1>3. CASE q < p
  <2>1. (q + 1) * k <= p * k
    BY <1>3, Growing
  <2>2. (q + 1) * k = q * k + k
    BY SMT
  <2> QED BY <1>1, <1>2, <2>1, <2>2
<1>4. CASE p < q
  <2>1. (p + 1) * k <= q * k
    BY <1>4, Growing
  <2>2. (p + 1) * k = p * k + k
    BY SMT
  <2> QED BY <1>1, <1>2, <2>1, <2>2
<1>5. CASE p = q
  BY <1>1, <1>2, <1>5
<1> QED BY <1>3, <1>4, <1>5

LEMMA PerChainIs ==
  ASSUME NEW v, Layout16(v)
  PROVE  PerChain(v) \in Nat /\ PerChain(v) >= 2
<1>1. PICK u \in Nat \ {0, 1} : u = UnitsPerBlock
  BY LayoutAssumption
<1>2. PICK b \in Nat \ {0} : b = v.blocksPerCluster
  BY DEF Layout16
<1>3. u * b \in Nat /\ u * b >= 2
  <2>1. 1 * u <= b * u
    BY <1>1, <1>2, Growing
  <2> QED BY <2>1
<1> QED BY <1>1, <1>2, <1>3 DEF PerChain

\* A cluster begins where the position is a multiple of its size.
LEMMA BeginsWhere ==
  ASSUME NEW v, Layout16(v), NEW x, x.pos \in Nat
  PROVE  /\ Begins(x, v) => \E k \in Nat : x.pos = k * PerChain(v)
         /\ \A k \in Nat : x.pos = k * PerChain(v) => Begins(x, v)
<1>1. PICK u \in Nat \ {0, 1} : u = UnitsPerBlock
  BY LayoutAssumption
<1>2. PICK b \in Nat \ {0} : b = v.blocksPerCluster
  BY DEF Layout16
<1>3. PICK n \in Nat : n = x.pos
  OBVIOUS
<1>4. PerChain(v) = u * b /\ (Begins(x, v) <=> ((n \div u) % b) = 0 /\ (n % u) = 0)
  BY <1>1, <1>2, <1>3 DEF PerChain, Begins
<1>5. ASSUME ((n \div u) % b) = 0, (n % u) = 0
      PROVE  \E k \in Nat : n = k * (u * b)
  <2>1. PICK q \in Nat : q = n \div u /\ n = u * q + (n % u)
    BY Division
  <2>2. PICK k \in Nat : k = q \div b /\ q = b * k + (q % b)
    BY Division
  <2>3. n = u * q /\ q = b * k
    BY <1>5, <2>1, <2>2
  <2>4. n = k * (u * b)
    BY <2>3
  <2> QED BY <2>4
<1>6. ASSUME NEW k \in Nat, n = k * (u * b)
      PROVE  ((n \div u) % b) = 0 /\ (n % u) = 0
  <2>1. PICK q \in Nat : q = k * b
    OBVIOUS
  <2>2. n = q * u + 0 /\ q = k * b + 0 /\ 0 < u /\ 0 < b
    BY <1>6, <2>1
  <2>3. n \div u = q /\ (n % u) = 0
    BY <2>2, DivisionIs
  <2>4. (q % b) = 0
    BY <2>2, DivisionIs
  <2> QED BY <2>3, <2>4
<1> QED BY <1>3, <1>4, <1>5, <1>6

\* The handle x is on the file of slot s: what it says of the file and its
\* place in it fit the chain.
Holding(x, dir, v, g, s) ==
  /\ x \in Handles /\ x.type = "file" /\ Slot(x) = s /\ s \in Slots(v)
  /\ dir[s].first \in {0, x.first}
  /\ x.pos <= x.size /\ (x.cur = 0 => x.pos = 0)
  /\ x.cur # 0 => x.first # 0 /\ OnChain(x.cur, g, s)
  /\ x.first = 0 => x.size = 0
  /\ x.first # 0 => /\ x.first \in g.has /\ g.own[x.first] = s /\ g.rank[x.first] = 0
                    /\ x.size <= g.len[s] * PerChain(v)

\* A handle that is only somewhere else in its file.
LEMMA HoldingElsewhere ==
  ASSUME NEW x, NEW y, NEW dir, NEW v, NEW g, NEW s, Holding(x, dir, v, g, s), Elsewhere(x, y),
         y.pos <= y.size, y.cur = 0 => y.pos = 0,
         y.cur # 0 => y.first # 0 /\ OnChain(y.cur, g, s)
  PROVE  Holding(y, dir, v, g, s)
BY DEF Holding, Elsewhere, Slot

\* The position is pos now, or z has failed.
HasSought(a, z, pos, v, from, purged, g, s) ==
  /\ Moved(a, z, v, from, purged) /\ StillDirty(a, z) /\ z.d = a.d /\ (z.ok => a.ok)
  /\ Elsewhere(a.f, z.f) /\ z.f.pos \in {a.f.pos, pos}
  /\ Holding(z.f, Dir(z), v, g, s)
  /\ pos = 0 => z.f.cur = 0 /\ z.f.pos = 0
  /\ z.ok => z.f.pos = pos
  /\ a.ok /\ ~a.dirty /\ pos >= 0 /\ pos < a.f.pos => z.f.pos = pos
  /\ a.ok /\ pos >= 0 /\ pos = a.f.pos - 1 /\ Begins(a.f, v) => z.f.pos = pos

\* Where the way from position old to position pos begins, and how many
\* clusters it leads on.
Way(p, pos, old, far, near) ==
  /\ far \in Nat /\ far * p <= pos - 1
  /\ old # 0 => near \in Nat
  /\ old # 0 /\ ~(far < near) => far - near \in Nat
  /\ old # 0 /\ pos < old => far <= near
  /\ \A k \in Nat : old = k * p /\ pos = old - 1 => far = near

LEMMA WayIs ==
  ASSUME NEW p \in Nat, p >= 2, NEW pos \in Nat \ {0}, NEW old \in Nat,
         NEW far, far = (pos - 1) \div p, NEW near, near = (old - 1) \div p
  PROVE  Way(p, pos, old, far, near)
<1>1. PICK x \in Nat : x = pos - 1
  OBVIOUS
<1>2. far \in Nat /\ x = p * far + (x % p) /\ (x % p) \in Nat
  BY <1>1, Division
<1>3. far * p <= x
  BY <1>2
<1>4. ASSUME old # 0
      PROVE  near \in Nat /\ (pos < old => far <= near)
  <2>1. PICK y \in Nat : y = old - 1
    BY <1>4
  <2>2. near \in Nat
    BY <2>1, Division
  <2>3. pos < old => x <= y
    BY <1>1, <2>1
  <2> QED BY <1>1, <2>1, <2>2, <2>3, DivisionMonotone
<1>5. ASSUME NEW k \in Nat, old = k * p, pos = old - 1
      PROVE  far = near
  <2>1. k # 0
    BY <1>5
  <2>2. PICK i \in Nat : k = i + 1
    BY <2>1
  <2>3. PICK q \in Nat : q = i * p /\ old = q + p
    BY <1>5, <2>2
  <2>4. old - 1 = q + (p - 1) /\ pos - 1 = q + (p - 2)
    BY <1>5, <2>3
  <2>5. near = i
    <3>1. p - 1 \in Nat /\ p - 1 < p /\ old - 1 \in Nat /\ old - 1 = i * p + (p - 1)
      BY <2>3, <2>4
    <3> QED BY <3>1, DivisionIs
  <2>6. far = i
    <3>1. p - 2 \in Nat /\ p - 2 < p /\ pos - 1 \in Nat /\ pos - 1 = i * p + (p - 2)
      BY <2>3, <2>4
    <3> QED BY <3>1, DivisionIs
  <2> QED BY <2>5, <2>6
<1> QED BY <1>1, <1>2, <1>3, <1>4, <1>5 DEF Way

LEMMA NoWay ==
  ASSUME NEW a
  PROVE  FollowChain(a, "f", 0) = a
<1>1. PICK run : FollowingRun(a, 0, run) /\ FollowChain(a, "f", 0) = run[0]
  BY FollowingIs
<1> QED BY <1>1 DEF FollowingRun

LEMMA SeekSetDoes ==
  ASSUME NEW a, NEW v, NEW from, NEW purged, NEW g, Fit(a, v, from, purged, g), NEW s,
         Holding(a.f, Dir(a), v, g, s), NEW pos \in Int, NEW z, z = SeekSet(a, "f", pos)
  PROVE  HasSought(a, z, pos, v, from, purged, g, s)
<1> DEFINE x == a.f
<1>0. /\ IsMachine(a) /\ a.ok \in BOOLEAN /\ Steady(a, v, from, purged) /\ Layout16(v)
      /\ Chains(Tab(a), Dir(a), v, g, {}) /\ a.vol = v
  BY FitGood DEF Steady, Fit
<1>1. /\ x \in Handles /\ x.type = "file" /\ s \in Slots(v)
      /\ x.pos <= x.size /\ (x.cur = 0 => x.pos = 0)
      /\ x.cur # 0 => x.first # 0 /\ OnChain(x.cur, g, s)
      /\ x.first = 0 => x.size = 0
      /\ x.first # 0 => /\ x.first \in g.has /\ g.own[x.first] = s /\ g.rank[x.first] = 0
                        /\ x.size <= g.len[s] * PerChain(v)
  BY DEF Holding
<1>2. x.pos \in Nat /\ x.size \in Nat /\ x.cur \in Nat /\ x.first \in Nat
  BY <1>1 DEF Handles
<1>3. IsOpen(x) /\ x.type # "root16"
  BY <1>1 DEF IsOpen
<1>4. CASE pos \notin 0 .. x.size
  <2>1. z = Fail(a)
    BY <1>4 DEF SeekSet
  <2>2. OneCard(a, z) /\ z.ok = FALSE /\ z.f = x /\ z.d = a.d
    BY <1>0, <2>1 DEF IsMachine, MachineFields, OneCard, Fail
  <2>3. Moved(a, z, v, from, purged) /\ StillDirty(a, z) /\ Dir(z) = Dir(a)
    BY <1>0, <2>2, SameCardMoved DEF Moved, SameView
  <2>4. Elsewhere(x, z.f)
    BY <1>1, <2>2 DEF Elsewhere
  <2>5. pos # 0 /\ ~(pos >= 0 /\ pos < x.pos) /\ ~(pos >= 0 /\ pos = x.pos - 1)
    BY <1>1, <1>2, <1>4
  <2> HIDE DEF x
  <2> QED BY <2>2, <2>3, <2>4, <2>5 DEF HasSought, x
<1>5. CASE pos = 0
  <2>1. z = Rewind(a, "f")
    BY <1>2, <1>3, <1>5 DEF SeekSet
  <2>2. OneCard(a, z) /\ z.ok = a.ok /\ z.f = [x EXCEPT !.cur = 0, !.pos = 0] /\ z.d = a.d
    BY <1>0, <2>1 DEF IsMachine, MachineFields, OneCard, Rewind
  <2>3. Moved(a, z, v, from, purged) /\ StillDirty(a, z) /\ Dir(z) = Dir(a)
    BY <1>0, <2>2, SameCardMoved DEF Moved, SameView
  <2>4. Elsewhere(x, z.f) /\ z.f.cur = 0 /\ z.f.pos = 0
    <3>1. HandPut(x, z.f, 0, 0)
      BY <2>2 DEF HandPut
    <3> HIDE DEF x
    <3>2. PICK zero \in Nat : zero = 0
      OBVIOUS
    <3>3. HandPut(x, z.f, zero, zero) /\ x \in Handles
      BY <1>1, <3>1, <3>2
    <3>4. Elsewhere(x, z.f) /\ z.f.cur = zero /\ z.f.pos = zero
      BY <3>3, HandMoves
    <3> QED BY <3>2, <3>4
  <2>5. Holding(z.f, Dir(z), v, g, s)
    <3>1. z.f.pos <= z.f.size
      BY <1>2, <2>4 DEF Elsewhere
    <3> QED BY <2>3, <2>4, <3>1, HoldingElsewhere
  <2> HIDE DEF x
  <2> QED BY <1>5, <2>2, <2>3, <2>4, <2>5 DEF HasSought, x
<1>6. CASE pos \in 1 .. x.size
  <2> DEFINE p == UnitsPerBlock * a.vol.blocksPerCluster
             near == (x.pos - 1) \div p
             far == (pos - 1) \div p
             restart == x.pos = 0 \/ far < near
             w == IF restart THEN [a EXCEPT !.f.cur = x.first] ELSE a
             count == IF restart THEN far ELSE far - near
             y == FollowChain(w, "f", count)
  <2>1. z = Placed(y, "f", pos)
    BY <1>3, <1>6 DEF SeekSet
  <2>2. p = PerChain(v) /\ p \in Nat /\ p >= 2 /\ pos \in Nat \ {0} /\ pos \in Nat
    BY <1>0, <1>6, PerChainIs DEF PerChain
  <2> HIDE DEF p
  <2>3. /\ far \in Nat /\ far * p <= pos - 1
        /\ x.pos # 0 => near \in Nat
        /\ x.pos # 0 /\ ~(far < near) => far - near \in Nat
        /\ x.pos # 0 /\ pos < x.pos => far <= near
        /\ \A k \in Nat : x.pos = k * p /\ pos = x.pos - 1 => far = near
    <3>1. far = (pos - 1) \div p /\ near = (x.pos - 1) \div p
      OBVIOUS
    <3> HIDE DEF near, far, x
    <3>2. Way(p, pos, x.pos, far, near)
      BY <1>2, <2>2, <3>1, WayIs
    <3> QED BY <3>2 DEF Way
  <2> HIDE DEF near, far
  <2>4. count \in Nat
    BY <2>3
  <2>5. x.first # 0
    BY <1>1, <1>6
  <2>6. /\ OneCard(a, w) /\ w.ok = a.ok /\ w.d = a.d /\ Elsewhere(x, w.f) /\ w.f.pos = x.pos
        /\ OnChain(w.f.cur, g, s) /\ (restart => w.f.cur = x.first) /\ (~restart => w = a)
    <3>1. CASE restart
      <4>1. w = [a EXCEPT !.f.cur = x.first]
        BY <3>1
      <4>2. /\ OneCard(a, w) /\ w.ok = a.ok /\ w.d = a.d /\ w.f = [x EXCEPT !.cur = x.first]
        BY <1>0, <4>1 DEF IsMachine, MachineFields, OneCard
      <4> HIDE DEF w, x
      <4>3. Elsewhere(x, w.f) /\ w.f.pos = x.pos /\ w.f.cur = x.first
        BY <1>1, <4>2 DEF Elsewhere, Handles
      <4> QED BY <1>1, <2>5, <3>1, <4>2, <4>3 DEF OnChain
    <3>2. CASE ~restart
      <4>1. w = a
        BY <3>2
      <4>2. OneCard(a, a) /\ Elsewhere(x, x)
        BY <1>0, <1>1 DEF OneCard, Elsewhere
      <4> QED BY <1>1, <3>2, <4>1, <4>2
    <3> QED BY <3>1, <3>2
  <2>7. PICK back \in BOOLEAN : back <=> (x.pos = 0 \/ far < near)
    OBVIOUS
  <2>8. /\ back => w.f.cur = x.first /\ count = far
        /\ ~back => w = a /\ count = far - near /\ x.pos # 0 /\ ~(far < near)
    BY <2>6, <2>7
  <2> HIDE DEF w, count, x
  <2>9. /\ Moved(a, w, v, from, purged) /\ StillDirty(a, w)
    BY <1>0, <2>6, SameCardMoved
  <2>10. Fit(w, v, from, purged, g) /\ w.f \in Handles
    BY <2>6, <2>9, FitMoved DEF Elsewhere
  <2>11. Followed(w, y, count, v, from, purged, g, s)
    BY <1>1, <2>4, <2>6, <2>10, FollowChainDoes
  <2> HIDE DEF y
  <2>12. /\ Moved(w, y, v, from, purged) /\ StillDirty(w, y) /\ y.d = w.d
         /\ Elsewhere(w.f, y.f) /\ y.f.pos = w.f.pos /\ (y.ok => w.ok) /\ OnChain(y.f.cur, g, s)
         /\ Steady(y, v, from, purged) /\ IsMachine(y) /\ y.ok \in BOOLEAN
    BY <2>11 DEF Followed, Moved, Steady
  <2>13. /\ Moved(a, y, v, from, purged) /\ StillDirty(a, y) /\ y.d = a.d
         /\ Elsewhere(x, y.f) /\ y.f.pos = x.pos /\ (y.ok => a.ok)
    BY <2>6, <2>9, <2>12, MovedOn, StillDirtyOn DEF Elsewhere
  <2>14. y.f.cur # 0
    <3>1. 0 \notin g.has /\ ~IsEOC(0)
      BY <1>0 DEF Chains, ClustersOf, IsEOC, EOC, Layout16
    <3> QED BY <2>12, <3>1 DEF OnChain
  <2>15. /\ OneCard(y, z) /\ z.ok = y.ok /\ z.d = y.d /\ Elsewhere(y.f, z.f) /\ z.f.cur = y.f.cur
         /\ z.f.pos = IF y.ok THEN pos ELSE x.pos
    <3>1. CASE ~y.ok
      <4>1. z = y
        BY <2>1, <3>1 DEF Placed
      <4> QED BY <2>12, <2>13, <3>1, <4>1 DEF OneCard, Elsewhere
    <3>2. CASE y.ok
      <4>1. z = [y EXCEPT !.f.pos = pos]
        BY <2>1, <3>2 DEF Placed
      <4>2. OneCard(y, z) /\ z.ok = y.ok /\ z.d = y.d /\ z.f = [y.f EXCEPT !.pos = pos]
        BY <2>12, <4>1 DEF IsMachine, MachineFields, OneCard
      <4>3. Elsewhere(y.f, z.f) /\ z.f.cur = y.f.cur /\ z.f.pos = pos
        BY <2>2, <2>13, <4>2 DEF Elsewhere, Handles
      <4> QED BY <3>2, <4>2, <4>3
    <3> QED BY <2>12, <3>1, <3>2
  <2>16. Moved(y, z, v, from, purged) /\ StillDirty(y, z)
    BY <2>12, <2>15, SameCardMoved
  <2>17. /\ Moved(a, z, v, from, purged) /\ StillDirty(a, z) /\ z.d = a.d /\ (z.ok => a.ok)
         /\ Elsewhere(x, z.f) /\ z.f.pos \in {x.pos, pos} /\ Dir(z) = Dir(a)
    <3>1. Moved(a, z, v, from, purged) /\ StillDirty(a, z) /\ Dir(z) = Dir(a)
      BY <2>13, <2>16, MovedOn, StillDirtyOn DEF Moved, SameView
    <3> QED BY <2>13, <2>15, <3>1 DEF Elsewhere
  <2>18. Holding(z.f, Dir(z), v, g, s)
    <3>1. z.f.pos <= z.f.size
      BY <1>1, <1>6, <2>17 DEF Elsewhere
    <3>2. z.f.first # 0 /\ z.f.cur # 0 /\ OnChain(z.f.cur, g, s)
      BY <2>5, <2>12, <2>14, <2>15, <2>17 DEF Elsewhere
    <3>3. Holding(x, Dir(z), v, g, s)
      BY <2>17 DEF x
    <3> QED BY <2>17, <3>1, <3>2, <3>3, HoldingElsewhere
  <2>19. ASSUME a.ok, ~a.dirty, pos < x.pos
         PROVE  z.f.pos = pos
    <3>1. CASE back
      <4>1. w.ok /\ ~w.dirty /\ w.f.cur = x.first /\ count = far
        BY <2>6, <2>8, <2>19, <3>1 DEF OneCard
      <4>2. x.first \in g.has /\ g.rank[x.first] = 0 /\ g.own[x.first] = s
            /\ x.size <= g.len[s] * p /\ g.len[s] \in Nat
        BY <1>0, <1>1, <2>2, <2>5 DEF Chains
      <4>3. far < g.len[s]
        <5>1. CASE g.len[s] <= far
          <6>1. g.len[s] * p <= far * p /\ g.len[s] * p \in Nat /\ far * p \in Nat
            BY <2>2, <2>3, <4>2, <5>1, Growing
          <6> QED BY <1>2, <1>6, <2>3, <4>2, <6>1
        <5> QED BY <2>3, <4>2, <5>1
      <4>4. g.rank[w.f.cur] + count < g.len[s]
        BY <2>3, <4>1, <4>2, <4>3
      <4>5. y.ok
        BY <2>11, <4>1, <4>2, <4>4 DEF Followed
      <4> QED BY <2>15, <4>5
    <3>2. CASE ~back
      <4>1. count = 0 /\ w = a
        BY <2>3, <2>8, <2>19, <3>2
      <4>2. y = a
        BY <4>1, NoWay DEF y
      <4> QED BY <2>15, <2>19, <4>2
    <3> QED BY <3>1, <3>2
  <2>20. ASSUME a.ok, pos = x.pos - 1, Begins(x, v)
         PROVE  z.f.pos = pos
    <3>1. PICK k \in Nat : x.pos = k * p
      BY <1>0, <1>2, <2>2, <2>20, BeginsWhere
    <3>2. far = near /\ x.pos # 0
      BY <2>2, <2>3, <2>20, <3>1
    <3>3. ~back
      <4>1. ~(far < near)
        BY <2>3, <3>2
      <4> QED BY <2>7, <3>2, <4>1
    <3>4. count = 0 /\ w = a
      BY <2>3, <2>8, <3>2, <3>3
    <3>5. y = a
      BY <3>4, NoWay DEF y
    <3> QED BY <2>15, <2>20, <3>5
  <2>21. z.ok => z.f.pos = pos
    BY <2>15
  <2>22. pos # 0
    BY <2>2
  <2> QED BY <2>17, <2>18, <2>19, <2>20, <2>21, <2>22 DEF HasSought, x
<1> QED BY <1>2, <1>4, <1>5, <1>6

-----------------------------------------------------------------------------
\* A file gets longer

\* The handles x and y are on the same place of the same file.
SamePlace(x, y) ==
  /\ y \in Handles
  /\ y.type = x.type /\ y.read = x.read /\ y.write = x.write /\ y.pos = x.pos /\ y.size = x.size
  /\ y.dirBlock = x.dirBlock /\ y.dirIndex = x.dirIndex

\* The next cluster of handle f is the first of the chain of slot s, or is
\* hung behind its last.
Extends(a, v, g, s) ==
  \/ a.f.cur = 0 /\ a.f.first = 0
     /\ (Live(Dir(a)[s]) => Dir(a)[s].first = 0 /\ Dir(a)[s].size = 0)
  \/ a.f.cur \in g.has /\ g.own[a.f.cur] = s /\ IsEOC(Tab(a)[a.f.cur]) /\ a.f.first # 0

\* The chains g with cluster c of slot s behind cluster cur, if that is not 0.
Hung(g, w, c, cur, s) ==
  /\ c \in w.has /\ w.own[c] = s
  /\ cur = 0 => w.rank[c] = 0
  /\ cur # 0 => /\ w.rank[c] = g.rank[cur] + 1 /\ w.len[s] = g.len[s] + 1
                /\ \A e \in g.has : e \in w.has /\ w.own[e] = g.own[e] /\ w.rank[e] = g.rank[e]

\* Handle f has a new cluster, or z has failed.
Longer(a, z, v, from, purged, g, s) ==
  /\ Steady(z, v, from, purged) /\ Dir(z) = Dir(a) /\ z.d = a.d /\ (z.ok => a.ok)
  /\ a.left = 0 => z.left = 0
  /\ ~z.ok => z.f = a.f /\ Chains(Tab(z), Dir(z), v, g, {})
  /\ z.ok => /\ SamePlace(a.f, z.f)
             /\ z.f.first = IF a.f.first = 0 THEN z.f.cur ELSE a.f.first
             /\ z.f.cur \in ClustersOf(v)
             /\ \E w : Chains(Tab(z), Dir(z), v, w, {}) /\ Hung(g, w, z.f.cur, a.f.cur, s)

\* A free cluster becomes the first of a chain.
LEMMA FirstHung ==
  ASSUME NEW v, Layout16(v), NEW t, t \in [ClustersOf(v) -> Nat], NEW dir, NEW g,
         Chains(t, dir, v, g, {}), NEW s \in Slots(v), NEW c \in ClustersOf(v), t[c] = 0,
         Live(dir[s]) => dir[s].first = 0 /\ dir[s].size = 0
  PROVE  \E w : Chains([t EXCEPT ![c] = EOC], dir, v, w, {}) /\ Hung(g, w, c, 0, s)
<1>1. PICK w, u : w = Beginning(v, g, s, c) /\ u = [t EXCEPT ![c] = EOC]
  OBVIOUS
<1>2. c \in w.has /\ w.own[c] = s /\ w.rank[c] = 0
  BY <1>1 DEF Beginning
<1>3. Hung(g, w, c, 0, s)
  BY <1>2 DEF Hung
<1>4. Chains(u, dir, v, w, {})
  BY <1>1, ChainBegins, Zenon
<1> QED BY <1>1, <1>3, <1>4

\* A free cluster is hung behind the last of a chain.
LEMMA NextHung ==
  ASSUME NEW v, Layout16(v), NEW t, t \in [ClustersOf(v) -> Nat],
         NEW dir, dir \in [Slots(v) -> DirEntry], NEW g,
         Chains(t, dir, v, g, {}), NEW c \in ClustersOf(v), t[c] = 0,
         NEW cur \in g.has, IsEOC(t[cur])
  PROVE  \E w : /\ Chains([t EXCEPT ![c] = EOC, ![cur] = c], dir, v, w, {})
                /\ Hung(g, w, c, cur, g.own[cur])
<1>1. PICK s : s = g.own[cur]
  OBVIOUS
<1>2. PICK w, u : w = Extending(v, g, s, c) /\ u = [t EXCEPT ![c] = EOC, ![cur] = c]
  OBVIOUS
<1>8. Lengthened(v, g, t, c, cur, s, w, u)
  BY <1>1, <1>2 DEF Lengthened
<1>3. c \notin g.has
  BY OwnedIsTaken
<1>4. /\ c \in w.has
      /\ \A e \in g.has : e \in w.has /\ w.own[e] = g.own[e] /\ w.rank[e] = g.rank[e]
  <2>1. g.has \subseteq ClustersOf(v)
    BY DEF Chains
  <2> QED BY <1>2, <1>3, <2>1 DEF Extending
<1>5. /\ Chains(u, dir, v, w, {})
      /\ w.own[c] = s /\ w.rank[c] = g.rank[cur] + 1 /\ w.len[s] = g.len[s] + 1
  <2>1. Grown(u, dir, v, g, c, cur, s, w)
    BY <1>8, ChainGrows, Zenon
  <2> QED BY <2>1 DEF Grown
<1>6. cur # 0
  BY DEF Chains, ClustersOf
<1>7. Hung(g, w, c, cur, s)
  BY <1>4, <1>5, <1>6 DEF Hung
<1> QED BY <1>1, <1>2, <1>5, <1>7

\* A file gets a cluster that was free.
LEMMA AddClusterDoes ==
  ASSUME NEW a, NEW v, NEW from, NEW purged, NEW g, Fit(a, v, from, purged, g),
         a.f \in Handles, NEW s \in Slots(v), Extends(a, v, g, s),
         NEW z, z = AddCluster(a, "f")
  PROVE  Longer(a, z, v, from, purged, g, s)
<1> DEFINE x == AllocContiguous(a, 1, a.f.cur)
           cur == a.f.cur
<1>0. z = Added(x, "f")
  BY DEF AddCluster
<1>1. /\ Steady(a, v, from, purged) /\ Layout16(v) /\ Tab(a) \in [ClustersOf(v) -> Nat]
      /\ Dir(a) \in [Slots(v) -> DirEntry] /\ Chains(Tab(a), Dir(a), v, g, {})
  BY FitGood DEF Fit
<1>2. cur \in Nat /\ a.f.first \in Nat
  BY DEF Handles
<1>3. Allotment(a, x, cur, v, from, purged)
  BY <1>2, AllocContiguousDoes
<1> HIDE DEF x
<1>4. /\ Steady(x, v, from, purged) /\ IsMachine(x) /\ x.ok \in BOOLEAN /\ Dir(x) = Dir(a)
      /\ x.f = a.f /\ x.d = a.d /\ (x.ok => a.ok) /\ (a.left = 0 => x.left = 0)
      /\ ~x.ok => \/ Tab(x) = Tab(a)
                  \/ \E c \in ClustersOf(v) : Tab(a)[c] = 0 /\ Tab(x) = [Tab(a) EXCEPT ![c] = EOC]
      /\ x.ok => /\ x.val \in ClustersOf(v) /\ Tab(a)[x.val] = 0
                 /\ cur = 0 => Tab(x) = [Tab(a) EXCEPT ![x.val] = EOC]
                 /\ cur # 0 => Tab(x) = [Tab(a) EXCEPT ![x.val] = EOC, ![cur] = x.val]
  BY <1>3 DEF Allotment, Steady
<1>5. CASE ~x.ok
  <2>1. z = x
    BY <1>0, <1>5 DEF Added
  <2>2. Chains(Tab(x), Dir(a), v, g, {})
    <3>1. CASE Tab(x) = Tab(a)
      BY <1>1, <3>1
    <3>2. CASE \E c \in ClustersOf(v) : Tab(a)[c] = 0 /\ Tab(x) = [Tab(a) EXCEPT ![c] = EOC]
      <4>1. PICK c \in ClustersOf(v) : Tab(a)[c] = 0 /\ Tab(x) = [Tab(a) EXCEPT ![c] = EOC]
        BY <3>2
      <4>2. c \notin g.has
        BY <1>1, <4>1, OwnedIsTaken
      <4>3. Chains([Tab(a) EXCEPT ![c] = EOC], Dir(a), v, g, {})
        BY <1>1, <4>2, UnownedChanges
      <4> QED BY <4>1, <4>3
    <3> QED BY <1>4, <1>5, <3>1, <3>2
  <2> QED BY <1>4, <1>5, <2>1, <2>2 DEF Longer
<1>6. CASE x.ok
  <2> DEFINE c == x.val
  <2>1. z = [x EXCEPT !.f.cur = c, !.f.first = IF a.f.first = 0 THEN c ELSE a.f.first,
                      !.f.dirty = a.f.dirty \/ a.f.first = 0]
    BY <1>0, <1>4, <1>6 DEF Added
  <2>2. c \in ClustersOf(v) /\ c \in Nat /\ c # 0 /\ Tab(a)[c] = 0
    BY <1>4, <1>6 DEF ClustersOf
  <2> HIDE DEF c
  <2>3. PICK first \in Nat, dirt \in BOOLEAN :
          /\ first = (IF a.f.first = 0 THEN c ELSE a.f.first)
          /\ dirt = (a.f.dirty \/ a.f.first = 0)
    <3>1. (IF a.f.first = 0 THEN c ELSE a.f.first) \in Nat
      BY <1>2, <2>2
    <3>2. (a.f.dirty \/ a.f.first = 0) \in BOOLEAN
      OBVIOUS
    <3> QED BY <3>1, <3>2, Zenon
  <2>4. z = [x EXCEPT !.f.cur = c, !.f.first = first, !.f.dirty = dirt]
    BY <2>1, <2>3, Zenon
  <2>5. /\ OneCard(x, z) /\ z.ok = x.ok /\ z.d = x.d
        /\ z.f = [a.f EXCEPT !.cur = c, !.first = first, !.dirty = dirt]
    BY <1>4, <2>4 DEF IsMachine, MachineFields, OneCard
  <2>6. SamePlace(a.f, z.f) /\ z.f.first = first /\ z.f.cur = c
    BY <2>2, <2>5 DEF SamePlace, Handles
  <2>7. Moved(x, z, v, from, purged)
    BY <1>4, <2>5, SameCardMoved
  <2>8. /\ Steady(z, v, from, purged) /\ Dir(z) = Dir(a) /\ Tab(z) = Tab(x)
        /\ (a.left = 0 => z.left = 0)
    BY <1>4, <2>7 DEF Moved, SameView
  <2>9. \E w : Chains(Tab(x), Dir(a), v, w, {}) /\ Hung(g, w, c, cur, s)
    <3>1. CASE cur = 0
      <4>1. cur \notin g.has
        BY <1>1, <3>1 DEF Chains, ClustersOf, Layout16
      <4>2. Live(Dir(a)[s]) => Dir(a)[s].first = 0 /\ Dir(a)[s].size = 0
        BY <4>1 DEF Extends
      <4>3. PICK t, dir : t = Tab(a) /\ dir = Dir(a)
        OBVIOUS
      <4>4. \E w : Chains([t EXCEPT ![c] = EOC], dir, v, w, {}) /\ Hung(g, w, c, 0, s)
        BY <1>1, <2>2, <4>2, <4>3, FirstHung
      <4>5. Tab(x) = [Tab(a) EXCEPT ![c] = EOC]
        BY <1>4, <1>6, <3>1 DEF c
      <4> QED BY <3>1, <4>3, <4>4, <4>5
    <3>2. CASE cur # 0
      <4>1. cur \in g.has /\ g.own[cur] = s /\ IsEOC(Tab(a)[cur])
        BY <3>2 DEF Extends
      <4>2. Tab(x) = [Tab(a) EXCEPT ![c] = EOC, ![cur] = c]
        BY <1>4, <1>6, <3>2 DEF c
      <4>3. PICK t, dir : t = Tab(a) /\ dir = Dir(a)
        OBVIOUS
      <4>4. \E w : /\ Chains([t EXCEPT ![c] = EOC, ![cur] = c], dir, v, w, {})
                   /\ Hung(g, w, c, cur, g.own[cur])
        BY <1>1, <2>2, <4>1, <4>3, NextHung
      <4> QED BY <4>1, <4>2, <4>3, <4>4
    <3> QED BY <3>1, <3>2
  <2> QED BY <1>4, <1>6, <2>2, <2>3, <2>5, <2>6, <2>8, <2>9 DEF Longer
<1> QED BY <1>4, <1>5, <1>6

-----------------------------------------------------------------------------
\* Writing

\* The handle y is where x was, in the cluster that the next write goes to.
Ahead(x, y, dir, v, g, w, s) ==
  /\ SamePlace(x, y) /\ Holding(y, dir, v, w, s) /\ y.cur \in w.has /\ w.own[y.cur] = s
  /\ x.cur = 0 => w.rank[y.cur] = 0
  /\ x.cur # 0 => x.cur \in g.has /\ w.rank[y.cur] = g.rank[x.cur] + 1

\* The next write of the file has a cluster, or z has failed.
Widened(a, z, v, from, purged, g, s) ==
  /\ Steady(z, v, from, purged) /\ Dir(z) = Dir(a) /\ z.d = a.d
  /\ a.left = 0 => z.left = 0
  /\ ~z.ok => z.f = a.f /\ Chains(Tab(z), Dir(z), v, g, {})
  /\ z.ok => \E w : Chains(Tab(z), Dir(z), v, w, {}) /\ Ahead(a.f, z.f, Dir(z), v, g, w, s)

\* A chain that has become longer is long enough.
LEMMA StillLong ==
  ASSUME NEW i \in Nat, NEW p \in Nat, NEW n \in Nat, n <= i * p
  PROVE  n <= (i + 1) * p
<1>1. i + 1 \in Nat /\ i <= i + 1
  OBVIOUS
<1>2. i * p \in Nat /\ (i + 1) * p \in Nat /\ i * p <= (i + 1) * p
  BY <1>1, Growing
<1> QED BY <1>2

\* The handle that has got another cluster.
LEMMA AheadHung ==
  ASSUME NEW v, Layout16(v), NEW t, NEW dir, NEW g, NEW w, NEW s, NEW x, NEW y,
         Holding(x, dir, v, g, s), Chains(t, dir, v, w, {}), g.len[s] \in Nat,
         x.cur = 0 => x.first = 0, x.cur # 0 => x.cur \in g.has,
         SamePlace(x, y), y.first = IF x.first = 0 THEN y.cur ELSE x.first,
         y.cur \in ClustersOf(v), Hung(g, w, y.cur, x.cur, s)
  PROVE  Ahead(x, y, dir, v, g, w, s)
<1>1. y.cur # 0 /\ y.cur \in w.has /\ w.own[y.cur] = s
  BY DEF Hung, ClustersOf
<1>2. OnChain(y.cur, w, s) /\ y.first # 0
  BY <1>1 DEF OnChain
<1>3. /\ y \in Handles /\ y.type = "file" /\ Slot(y) = s /\ s \in Slots(v) /\ y.pos <= y.size
      /\ y.pos \in Nat /\ y.size \in Nat
  BY DEF SamePlace, Holding, Slot, Handles
<1>4. dir[s].first \in {0, y.first}
  BY DEF Holding
<1>5. PICK p \in Nat : p = PerChain(v)
  BY PerChainIs
<1>6. w.len[s] \in Nat
  BY <1>3 DEF Chains
<1>7. CASE x.cur = 0
  <2>1. y.first = y.cur /\ w.rank[y.cur] = 0 /\ y.size = 0
    BY <1>7 DEF Hung, Holding, SamePlace
  <2>2. y.size <= w.len[s] * p
    <3>1. w.len[s] * p \in Nat
      BY <1>5, <1>6, Growing
    <3> QED BY <2>1, <3>1
  <2>3. Holding(y, dir, v, w, s)
    BY <1>1, <1>2, <1>3, <1>4, <1>5, <2>1, <2>2 DEF Holding
  <2> QED BY <1>1, <1>7, <2>1, <2>3 DEF Ahead
<1>8. CASE x.cur # 0
  <2>1. x.first # 0 /\ y.first = x.first
    BY <1>8 DEF Holding
  <2>2. /\ x.first \in g.has /\ g.own[x.first] = s /\ g.rank[x.first] = 0
        /\ y.size <= g.len[s] * p
    BY <1>5, <2>1 DEF Holding, SamePlace
  <2>3. /\ w.len[s] = g.len[s] + 1 /\ w.rank[y.cur] = g.rank[x.cur] + 1
        /\ y.first \in w.has /\ w.own[y.first] = s /\ w.rank[y.first] = 0
    BY <1>8, <2>1, <2>2 DEF Hung
  <2>4. y.size <= w.len[s] * p
    <3>1. y.size <= (g.len[s] + 1) * p
      BY <1>3, <1>5, <2>2, StillLong
    <3> QED BY <2>3, <3>1
  <2>5. Holding(y, dir, v, w, s)
    BY <1>1, <1>2, <1>3, <1>4, <1>5, <2>3, <2>4 DEF Holding
  <2> QED BY <1>1, <1>8, <2>3, <2>5 DEF Ahead
<1> QED BY <1>7, <1>8

\* AddCluster, on the way to a write.
LEMMA AddedAhead ==
  ASSUME NEW a, NEW v, NEW from, NEW purged, NEW g, Fit(a, v, from, purged, g), NEW s,
         Holding(a.f, Dir(a), v, g, s), Extends(a, v, g, s), a.f.cur = 0 => a.f.first = 0,
         NEW z, z = AddCluster(a, "f")
  PROVE  Widened(a, z, v, from, purged, g, s)
<1>1. /\ Steady(a, v, from, purged) /\ Layout16(v) /\ s \in Slots(v) /\ a.f \in Handles
      /\ Chains(Tab(a), Dir(a), v, g, {})
  BY FitGood DEF Fit, Holding
<1>2. Longer(a, z, v, from, purged, g, s)
  BY <1>1, AddClusterDoes
<1>3. CASE ~z.ok
  BY <1>2, <1>3 DEF Longer, Widened
<1>4. CASE z.ok
  <2>1. PICK w : Chains(Tab(z), Dir(z), v, w, {}) /\ Hung(g, w, z.f.cur, a.f.cur, s)
    BY <1>2, <1>4 DEF Longer
  <2>2. /\ SamePlace(a.f, z.f) /\ z.f.cur \in ClustersOf(v) /\ Dir(z) = Dir(a)
        /\ z.f.first = IF a.f.first = 0 THEN z.f.cur ELSE a.f.first
    BY <1>2, <1>4 DEF Longer
  <2>3. g.len[s] \in Nat
    BY <1>1 DEF Chains
  <2>4. a.f.cur # 0 => a.f.cur \in g.has
    BY DEF Extends
  <2>5. Ahead(a.f, z.f, Dir(z), v, g, w, s)
    <3>1. PICK x, y, dir, t : x = a.f /\ y = z.f /\ dir = Dir(z) /\ t = Tab(z)
      OBVIOUS
    <3>2. /\ Holding(x, dir, v, g, s) /\ Chains(t, dir, v, w, {})
          /\ SamePlace(x, y) /\ y.cur \in ClustersOf(v) /\ Hung(g, w, y.cur, x.cur, s)
          /\ y.first = IF x.first = 0 THEN y.cur ELSE x.first
          /\ x.cur = 0 => x.first = 0
          /\ x.cur # 0 => x.cur \in g.has
      BY <2>1, <2>2, <2>4, <3>1
    <3>3. Ahead(x, y, dir, v, g, w, s)
      BY <1>1, <2>3, <3>2, AheadHung
    <3> QED BY <3>1, <3>3
  <2> QED BY <1>2, <1>4, <2>1, <2>5 DEF Longer, Widened
<1> QED BY <1>3, <1>4

\* The next write of a file has a cluster of the file's own.
LEMMA WriteClusterDoes ==
  ASSUME NEW a, NEW v, NEW from, NEW purged, NEW g, Fit(a, v, from, purged, g), a.ok, NEW s,
         Holding(a.f, Dir(a), v, g, s), NEW z, z = WriteCluster(a)
  PROVE  Widened(a, z, v, from, purged, g, s)
<1>1. /\ Steady(a, v, from, purged) /\ Layout16(v) /\ s \in Slots(v) /\ a.f \in Handles
      /\ Chains(Tab(a), Dir(a), v, g, {}) /\ Good(View(a), v, purged)
      /\ Tab(a) \in [ClustersOf(v) -> Nat]
  BY FitGood DEF Fit, Holding
<1>2. IsMachine(a)
  BY <1>1 DEF Steady
<1>3. CASE a.f.cur # 0
  <2> DEFINE y == FatGet(a, a.f.cur)
  <2>1. z = Extended(y)
    BY <1>3 DEF WriteCluster
  <2>2. Looked(a, y, a.f.cur, v, from, purged)
    <3>1. a.f.cur \in Nat
      BY <1>1 DEF Handles
    <3> QED BY <1>1, <3>1, FatGetDoes
  <2>3. /\ Steady(y, v, from, purged) /\ y.f = a.f /\ y.d = a.d /\ Dir(y) = Dir(a) /\ Tab(y) = Tab(a)
        /\ a.left = 0 => y.left = 0
    BY <2>2 DEF Looked, Kept, SameRest, SameView
  <2>4. Chains(Tab(y), Dir(y), v, g, {})
    BY <1>1, <2>3
  <2>5. CASE ~y.ok
    <3>1. z = y
      BY <2>1, <2>5 DEF Extended
    <3> QED BY <2>3, <2>4, <2>5, <3>1 DEF Widened
  <2>6. CASE y.ok
    <3>1. a.f.cur <= v.clusterCount + 1 /\ (a.f.cur \in ClustersOf(v) => y.val = Tab(a)[a.f.cur])
      BY <2>2, <2>6 DEF Looked
    <3>2. ~IsEOC(a.f.cur)
      <4>1. a.f.cur \in Nat
        BY <1>1 DEF Handles
      <4>2. v.clusterCount \in Nat /\ v.clusterCount + 1 < EOC
        BY <1>1 DEF Layout16
      <4>3. EOC \in Nat
        BY DEF EOC
      <4> QED BY <3>1, <4>1, <4>2, <4>3 DEF IsEOC
    <3>3. a.f.first # 0 /\ a.f.cur \in g.has /\ g.own[a.f.cur] = s
      BY <1>3, <3>2 DEF Holding, OnChain
    <3>4. a.f.cur \in ClustersOf(v) /\ y.val = Tab(a)[a.f.cur]
      BY <1>1, <3>1, <3>3 DEF Chains
    <3>5. CASE IsEOC(y.val)
      <4>1. z = AddCluster(y, "f")
        BY <2>1, <2>6, <3>5 DEF Extended
      <4>2. Extends(y, v, g, s)
        BY <2>3, <3>3, <3>4, <3>5 DEF Extends
      <4>3. Fit(y, v, from, purged, g) /\ Holding(y.f, Dir(y), v, g, s)
        BY <2>3, <2>4 DEF Fit
      <4>4. Widened(y, z, v, from, purged, g, s)
        <5>1. y.f.cur = 0 => y.f.first = 0
          BY <1>3, <2>3
        <5> HIDE DEF y
        <5> QED BY <4>1, <4>2, <4>3, <5>1, AddedAhead
      <4> QED BY <2>3, <4>4 DEF Widened
    <3>6. CASE ~IsEOC(y.val)
      <4>1. z = NextCluster(y, "f")
        BY <2>1, <2>6, <3>6 DEF Extended
      <4>2. /\ Moved(a, z, v, from, purged) /\ OtherHand(a, z, "f") /\ Elsewhere(a.f, z.f)
            /\ z.f.pos = a.f.pos /\ (a.f.cur \in ClustersOf(v) => (z.ok => z.f.cur = Tab(a)[a.f.cur]))
        <5>1. "f" \in {"f", "d"} /\ a["f"] \in Handles
          BY <1>1
        <5>2. z = NextCluster(FatGet(a, a["f"].cur), "f")
          BY <4>1
        <5> HIDE DEF y
        <5>3. /\ Moved(a, z, v, from, purged) /\ OtherHand(a, z, "f") /\ Elsewhere(a["f"], z["f"])
              /\ z["f"].pos = a["f"].pos
              /\ z.ok => (a["f"].cur \in ClustersOf(v) => z["f"].cur = Tab(a)[a["f"].cur])
          BY <1>1, <5>1, <5>2, NextClusterDoes
        <5> QED BY <5>3
      <4>3. z.ok = y.ok
        BY <2>3, <2>6, <4>1 DEF NextCluster, Steady, IsMachine, MachineFields
      <4>4. /\ Steady(z, v, from, purged) /\ Dir(z) = Dir(a) /\ Tab(z) = Tab(a) /\ z.d = a.d
            /\ a.left = 0 => z.left = 0
        BY <4>2 DEF Moved, SameView, OtherHand
      <4>5. /\ z.f.cur \in g.has /\ g.own[z.f.cur] = s /\ g.rank[z.f.cur] = g.rank[a.f.cur] + 1
            /\ z.f.cur # 0
        <5>1. z.f.cur = y.val
          BY <2>6, <3>4, <4>2, <4>3
        <5>2. OnChain(Tab(a)[a.f.cur], g, s) /\ Tab(a)[a.f.cur] # 0
          BY <1>1, <3>3, ChainLeadsOn
        <5>3. ~IsEOC(Tab(a)[a.f.cur]) => g.rank[Tab(a)[a.f.cur]] = g.rank[a.f.cur] + 1
          BY <1>1, <3>3, ChainLeadsOn
        <5> QED BY <3>4, <3>6, <5>1, <5>2, <5>3 DEF OnChain
      <4>6. Ahead(a.f, z.f, Dir(z), v, g, g, s)
        <5>1. SamePlace(a.f, z.f)
          BY <4>2 DEF Elsewhere, SamePlace
        <5>2. Holding(z.f, Dir(z), v, g, s)
          <6>1. z.f.pos <= z.f.size /\ OnChain(z.f.cur, g, s) /\ z.f.first # 0
            BY <3>3, <4>2, <4>5 DEF Elsewhere, Holding, OnChain
          <6> HIDE DEF y
          <6> QED BY <4>2, <4>4, <4>5, <6>1, HoldingElsewhere
        <5> QED BY <1>3, <3>3, <4>5, <5>1, <5>2 DEF Ahead
      <4>7. Chains(Tab(z), Dir(z), v, g, {})
        BY <1>1, <4>4
      <4> QED BY <2>6, <4>3, <4>4, <4>6, <4>7 DEF Widened
    <3> QED BY <3>5, <3>6
  <2> QED BY <2>5, <2>6
<1>4. CASE a.f.cur = 0 /\ a.f.first = 0
  <2>1. z = AddCluster(a, "f")
    BY <1>4 DEF WriteCluster
  <2>2. Extends(a, v, g, s)
    <3>1. Dir(a)[s].first = 0
      BY <1>4 DEF Holding
    <3>2. Live(Dir(a)[s]) => Fed(Dir(a)[s], s, v, g)
      BY <1>1 DEF Chains
    <3> QED BY <1>4, <3>1, <3>2 DEF Extends, Fed
  <2> QED BY <1>4, <2>1, <2>2, AddedAhead
<1>5. CASE a.f.cur = 0 /\ a.f.first # 0
  <2>1. z = [a EXCEPT !.f.cur = a.f.first]
    BY <1>5 DEF WriteCluster
  <2>2. OneCard(a, z) /\ z.ok = a.ok /\ z.f = [a.f EXCEPT !.cur = a.f.first] /\ z.d = a.d
    BY <1>2, <2>1 DEF IsMachine, MachineFields, OneCard
  <2>3. Moved(a, z, v, from, purged)
    BY <1>1, <2>2, SameCardMoved
  <2>4. Elsewhere(a.f, z.f) /\ z.f.pos = a.f.pos /\ z.f.cur = a.f.first
    BY <1>1, <2>2 DEF Elsewhere, Handles
  <2>5. /\ Steady(z, v, from, purged) /\ Dir(z) = Dir(a) /\ Tab(z) = Tab(a)
        /\ a.left = 0 => z.left = 0
    BY <2>3 DEF Moved, SameView
  <2>6. z.f.cur \in g.has /\ g.own[z.f.cur] = s /\ g.rank[z.f.cur] = 0 /\ z.f.cur # 0
    BY <1>5, <2>4 DEF Holding
  <2>7. Holding(z.f, Dir(z), v, g, s)
    <3>1. z.f.pos <= z.f.size /\ OnChain(z.f.cur, g, s) /\ z.f.first # 0
      BY <1>5, <2>4, <2>6 DEF Elsewhere, Holding, OnChain
    <3> QED BY <2>4, <2>5, <2>6, <3>1, HoldingElsewhere
  <2>8. SamePlace(a.f, z.f)
    BY <2>4 DEF Elsewhere, SamePlace
  <2>9. Ahead(a.f, z.f, Dir(z), v, g, g, s)
    BY <1>5, <2>6, <2>7, <2>8 DEF Ahead
  <2>10. Chains(Tab(z), Dir(z), v, g, {})
    BY <1>1, <2>5
  <2> QED BY <2>2, <2>5, <2>9, <2>10 DEF Widened
<1> QED BY <1>3, <1>4, <1>5

\* A handle behind the unit that has been written with it.
HandWrote(x, y, pos, size, dirt) == y = [x EXCEPT !.pos = pos, !.size = size, !.dirty = dirt]

LEMMA HandWroteIs ==
  ASSUME NEW x \in Handles, NEW pos \in Nat, NEW size \in Nat, NEW dirt \in BOOLEAN,
         NEW y, HandWrote(x, y, pos, size, dirt)
  PROVE  /\ y \in Handles /\ y.pos = pos /\ y.size = size /\ y.cur = x.cur /\ y.first = x.first
         /\ y.type = x.type /\ Slot(y) = Slot(x)
BY DEF HandWrote, Handles, Slot

\* The block in the cache changes, and it is one of the data.
DataPut(a, z) ==
  /\ IsMachine(z)
  /\ z.disk = a.disk /\ z.log = a.log /\ z.left = a.left /\ z.ok = a.ok /\ z.blk = a.blk
  /\ z.dirty = a.dirty /\ z.mirror = a.mirror /\ z.start = a.start /\ z.vol = a.vol

LEMMA DataPutDoes ==
  ASSUME NEW a, NEW v, NEW from, NEW purged, Steady(a, v, from, purged), a.dirty,
         a.blk \in Data(v), NEW z, DataPut(a, z)
  PROVE  Moved(a, z, v, from, purged)
<1>1. /\ IsMachine(z) /\ z.vol = v /\ Layout16(v) /\ a.vol = v /\ Holds(a.disk, v)
      /\ z.dirty = a.dirty /\ z.blk = a.blk /\ z.disk = a.disk
  BY DEF DataPut, Steady
<1>2. a.blk \in Nat /\ a.blk >= v.fatStart /\ a.blk \notin Table(v) /\ a.blk \notin Root(v)
  BY <1>1, PartsApart
<1>3. /\ Holds(View(z), v) /\ TableOf(View(z), v) = TableOf(a.disk, v)
      /\ DirOf(View(z), v) = DirOf(a.disk, v)
  BY <1>1, <1>2, PutElsewhere DEF View
<1>4. TableOf(View(a), v) = TableOf(a.disk, v) /\ DirOf(View(a), v) = DirOf(a.disk, v)
  BY <1>1, <1>2, PutElsewhere DEF View
<1>5. Steady(z, v, from, purged)
  BY <1>1, <1>2, <1>3 DEF Steady, DataPut
<1> QED BY <1>1, <1>3, <1>4, <1>5 DEF Moved, SameView, Tab, Dir, DataPut

\* The current cluster is not before the position but for one cluster.
Positioned(x, v, g) == x.cur \in g.has => x.pos <= (g.rank[x.cur] + 1) * PerChain(v)

\* To write behind the end finds the right cluster.
Roomy(x, v, g) == x.pos < x.size \/ ~Begins(x, v) \/ Positioned(x, v, g)

LEMMA OneMoreFits ==
  ASSUME NEW rank \in Nat, NEW len \in Nat, rank < len, NEW p \in Nat, p >= 2,
         NEW pos \in Nat, pos <= rank * p
  PROVE  pos + 1 <= len * p
<1>1. rank + 1 \in Nat /\ rank + 1 <= len
  OBVIOUS
<1>2. (rank + 1) * p \in Nat /\ len * p \in Nat /\ (rank + 1) * p <= len * p /\ rank * p \in Nat
  BY <1>1, Growing
<1>3. (rank + 1) * p = rank * p + p
  OBVIOUS
<1> QED BY <1>2, <1>3

\* The next write has its cluster, or y has failed.
Ready(a, y, v, from, purged, s) ==
  /\ Dir(y) = Dir(a) /\ y.d = a.d /\ (a.left = 0 => y.left = 0)
  /\ \E w : /\ Fit(y, v, from, purged, w) /\ Holding(y.f, Dir(y), v, w, s)
            /\ y.ok => /\ y.f.cur # 0
                       /\ y.f.pos = y.f.size => y.f.pos + 1 <= w.len[s] * PerChain(v)

LEMMA ReadyDoes ==
  ASSUME NEW a, NEW v, NEW from, NEW purged, NEW g, Fit(a, v, from, purged, g), a.ok, NEW s,
         Holding(a.f, Dir(a), v, g, s), Roomy(a.f, v, g),
         NEW y, y = IF BeginsCluster(a, "f") THEN WriteCluster(a) ELSE a
  PROVE  Ready(a, y, v, from, purged, s)
<1>1. /\ Steady(a, v, from, purged) /\ Layout16(v) /\ s \in Slots(v) /\ a.f \in Handles
      /\ Chains(Tab(a), Dir(a), v, g, {}) /\ a.vol = v
      /\ a.f.pos \in Nat /\ a.f.size \in Nat /\ a.f.pos <= a.f.size
  BY FitGood DEF Fit, Holding, Steady, Handles
<1>2. BeginsCluster(a, "f") <=> Begins(a.f, v)
  BY <1>1 DEF BeginsCluster, BlockOfCluster, Begins
<1>3. PICK p \in Nat : p = PerChain(v) /\ p >= 2
  BY <1>1, PerChainIs
<1>4. CASE ~Begins(a.f, v)
  <2>1. y = a
    BY <1>2, <1>4
  <2>2. \A k \in Nat : a.f.pos # k * p
    BY <1>1, <1>3, <1>4, BeginsWhere
  <2>3. a.f.cur # 0
    <3>1. a.f.pos # 0
      <4>1. 0 * p = 0
        BY <1>3
      <4> QED BY <2>2, <4>1
    <3> QED BY <3>1 DEF Holding
  <2>4. a.f.pos = a.f.size => a.f.pos + 1 <= g.len[s] * p
    <3>1. g.len[s] \in Nat
      BY <1>1 DEF Chains
    <3>2. a.f.size <= g.len[s] * p
      BY <1>3, <2>3 DEF Holding
    <3>3. PICK q \in Nat : q = g.len[s] * p
      BY <1>3, <3>1, Growing
    <3>4. a.f.pos # q
      BY <2>2, <3>1, <3>3
    <3> QED BY <1>1, <3>2, <3>3, <3>4
  <2> QED BY <1>3, <2>1, <2>3, <2>4 DEF Ready
<1>5. CASE Begins(a.f, v)
  <2>1. Widened(a, y, v, from, purged, g, s)
    BY <1>2, <1>5, WriteClusterDoes
  <2>2. CASE ~y.ok
    <3>1. y.f = a.f /\ Dir(y) = Dir(a) /\ Fit(y, v, from, purged, g)
      BY <2>1, <2>2 DEF Widened, Fit
    <3> QED BY <2>1, <2>2, <3>1 DEF Widened, Ready
  <2>3. CASE y.ok
    <3>1. PICK w : Chains(Tab(y), Dir(y), v, w, {}) /\ Ahead(a.f, y.f, Dir(y), v, g, w, s)
      BY <2>1, <2>3 DEF Widened
    <3>2. /\ Holding(y.f, Dir(y), v, w, s) /\ y.f.cur \in w.has /\ w.own[y.f.cur] = s
          /\ y.f.pos = a.f.pos /\ y.f.size = a.f.size
      BY <3>1 DEF Ahead, SamePlace
    <3>3. Fit(y, v, from, purged, w)
      BY <2>1, <3>1 DEF Widened, Fit
    <3>4. y.f.cur # 0
      BY <3>1, <3>2 DEF Chains, ClustersOf
    <3>5. ASSUME a.f.pos = a.f.size
          PROVE  a.f.pos + 1 <= w.len[s] * p
      <4>1. Positioned(a.f, v, g)
        BY <1>1, <1>5, <3>5 DEF Roomy
      <4>2. PICK rank \in Nat : rank = w.rank[y.f.cur] /\ rank < w.len[s]
        BY <3>1, <3>2 DEF Chains
      <4>3. a.f.pos <= rank * p
        <5>1. CASE a.f.cur = 0
          <6>1. a.f.pos = 0
            BY <5>1 DEF Holding
          <6>2. rank * p \in Nat
            BY <1>3, <4>2, Growing
          <6> QED BY <6>1, <6>2
        <5>2. CASE a.f.cur # 0
          <6>1. a.f.cur \in g.has /\ rank = g.rank[a.f.cur] + 1
            BY <3>1, <4>2, <5>2 DEF Ahead
          <6> QED BY <1>3, <4>1, <6>1 DEF Positioned
        <5> QED BY <5>1, <5>2
      <4>4. w.len[s] \in Nat
        BY <1>1, <3>1 DEF Chains
      <4> QED BY <1>1, <1>3, <4>2, <4>3, <4>4, OneMoreFits
    <3>6. y.f.pos = y.f.size => y.f.pos + 1 <= w.len[s] * PerChain(v)
      BY <1>3, <3>2, <3>5
    <3> QED BY <2>1, <3>2, <3>3, <3>4, <3>6 DEF Ready, Widened
  <2> QED BY <2>2, <2>3
<1> QED BY <1>4, <1>5

\* The block of the position is in the cache, and is to be written.
AtBlock(a, z, v, from, purged) ==
  /\ Moved(a, z, v, from, purged) /\ z.f = a.f /\ z.d = a.d /\ (z.ok => a.ok)
  /\ z.ok => z.dirty /\ z.blk \in Data(v)

LEMMA BlockIsData ==
  ASSUME NEW v, Layout16(v), NEW g, NEW s, NEW c \in Nat, c # 0, OnChain(c, g, s),
         g.has \subseteq ClustersOf(v), NEW i \in Nat
  PROVE  v.dataStart + (c - 2) * v.blocksPerCluster + i \in Data(v)
<1>1. c >= 2
  BY DEF OnChain, IsEOC, EOC, ClustersOf
<1>2. PICK n \in Nat, k \in Nat : n = c - 2 /\ k = v.blocksPerCluster
  <2>1. c - 2 \in Nat
    BY <1>1
  <2>2. v.blocksPerCluster \in Nat
    BY DEF Layout16
  <2> QED BY <2>1, <2>2
<1>3. n * k \in Nat
  BY <1>2
<1>4. v.dataStart \in Nat
  BY DEF Layout16
<1>5. v.dataStart + n * k + i \in Nat /\ v.dataStart + n * k + i >= v.dataStart
  BY <1>3, <1>4
<1> QED BY <1>2, <1>5 DEF Data

LEMMA WriteBlockDoes ==
  ASSUME NEW a, NEW v, NEW from, NEW purged, NEW g, Fit(a, v, from, purged, g), NEW s,
         Holding(a.f, Dir(a), v, g, s), a.ok => a.f.cur # 0,
         NEW z, z = WriteBlock(a)
  PROVE  AtBlock(a, z, v, from, purged)
<1>1. /\ Steady(a, v, from, purged) /\ Layout16(v) /\ s \in Slots(v) /\ a.f \in Handles
      /\ Chains(Tab(a), Dir(a), v, g, {}) /\ Good(View(a), v, purged)
      /\ a.vol = v /\ IsMachine(a) /\ a.ok \in BOOLEAN /\ a.f.type = "file"
  BY FitGood DEF Fit, Holding, Steady
<1>2. CASE ~a.ok
  <2>1. z = a
    BY <1>2 DEF WriteBlock
  <2>2. OneCard(a, a)
    BY <1>1 DEF OneCard
  <2>3. Moved(a, a, v, from, purged)
    BY <1>1, <2>2, SameCardMoved
  <2> QED BY <1>2, <2>1, <2>3 DEF AtBlock
<1>3. CASE a.ok
  <2> DEFINE b == BlockAt(a, "f")
  <2>1. b \in Data(v)
    <3>1. a.f.cur \in Nat /\ a.f.cur # 0 /\ OnChain(a.f.cur, g, s) /\ a.f.pos \in Nat
      BY <1>1, <1>3 DEF Holding, Handles
    <3>2. g.has \subseteq ClustersOf(v)
      BY <1>1 DEF Chains
    <3>3. PICK i \in Nat : i = BlockOfCluster(a, a.f.pos)
      <4>1. a.f.pos \div UnitsPerBlock \in Nat
        BY <3>1, LayoutAssumption, Division
      <4>2. v.blocksPerCluster \in Nat \ {0}
        BY <1>1 DEF Layout16
      <4>3. (a.f.pos \div UnitsPerBlock) % v.blocksPerCluster \in 0 .. v.blocksPerCluster - 1
        BY <4>1, <4>2, Division
      <4> QED BY <1>1, <4>2, <4>3 DEF BlockOfCluster
    <3>4. b = v.dataStart + (a.f.cur - 2) * v.blocksPerCluster + i
      BY <1>1, <3>3 DEF BlockAt, ClusterStartBlock
    <3>5. v.dataStart + (a.f.cur - 2) * v.blocksPerCluster + i \in Data(v)
      BY <1>1, <3>1, <3>2, BlockIsData
    <3> QED BY <3>4, <3>5
  <2> HIDE DEF b
  <2>2. CASE a.f.pos % UnitsPerBlock = 0 /\ a.f.pos >= a.f.size
    <3> DEFINE w == CacheFlush(a)
    <3>1. z = NewBlock(w, b)
      BY <1>3, <2>2 DEF WriteBlock, b
    <3>2. Flushed(a, w, v, from, purged)
      BY <1>1, CacheFlushDoes
    <3> HIDE DEF w
    <3>3. /\ Kept(a, w, v, from, purged) /\ Steady(w, v, from, purged) /\ (w.ok => ~w.dirty)
          /\ w.ok \in BOOLEAN
      BY <3>2 DEF Flushed, Kept, Steady
    <3>4. CASE ~w.ok
      <4>1. z = w
        BY <3>1, <3>4 DEF NewBlock
      <4>2. Moved(a, w, v, from, purged)
        BY <3>3, MovedKept
      <4> QED BY <3>3, <3>4, <4>1, <4>2 DEF AtBlock, Kept, SameRest
    <3>5. CASE w.ok
      <4>1. PICK content : content = JunkBlock
        OBVIOUS
      <4>2. z = [w EXCEPT !.blk = b, !.dirty = TRUE, !.buf = content]
        BY <3>1, <3>5, <4>1 DEF NewBlock
      <4>3. Kept(w, z, v, from, purged)
        BY <2>1, <3>3, <3>5, <4>2, Replaced
      <4>4. Kept(a, z, v, from, purged)
        BY <3>3, <4>3, KeptOn
      <4>5. Moved(a, z, v, from, purged)
        BY <4>4, MovedKept
      <4>6. z.dirty = TRUE /\ z.blk = b
        BY <3>3, <4>2 DEF Steady, IsMachine, MachineFields
      <4> QED BY <2>1, <4>4, <4>5, <4>6 DEF AtBlock, Kept, SameRest
    <3> QED BY <3>4, <3>5
  <2>3. CASE ~(a.f.pos % UnitsPerBlock = 0 /\ a.f.pos >= a.f.size)
    <3>1. z = CacheRawBlock(a, b, TRUE)
      BY <1>3, <2>3 DEF WriteBlock, b
    <3>2. Cached(a, z, b, TRUE, v, from, purged)
      <4>1. TRUE \in BOOLEAN /\ (TRUE => b \in Root(v) \union Data(v))
        BY <2>1
      <4> QED BY <1>1, <3>1, <4>1, CacheRawBlockDoes
    <3>3. Kept(a, z, v, from, purged) /\ (z.ok => z.blk = b /\ z.dirty)
      BY <3>2 DEF Cached
    <3>4. Moved(a, z, v, from, purged)
      BY <3>3, MovedKept
    <3> QED BY <2>1, <3>3, <3>4 DEF AtBlock, Kept, SameRest
  <2> QED BY <2>2, <2>3
<1> QED BY <1>2, <1>3

\* A unit has been written, and the file has grown with it; or z has failed.
HasWritten(a, z, v, from, purged, s) ==
  /\ Dir(z) = Dir(a) /\ z.d = a.d /\ (a.left = 0 => z.left = 0)
  /\ \E w : Fit(z, v, from, purged, w) /\ Holding(z.f, Dir(z), v, w, s)

LEMMA UnitWrittenDoes ==
  ASSUME NEW a, NEW v, NEW from, NEW purged, NEW g, Fit(a, v, from, purged, g), NEW s,
         Holding(a.f, Dir(a), v, g, s), a.ok => a.dirty /\ a.blk \in Data(v) /\ a.f.cur # 0,
         a.ok /\ a.f.pos = a.f.size => a.f.pos + 1 <= g.len[s] * PerChain(v),
         NEW unit, NEW z, z = UnitWritten(a, unit)
  PROVE  HasWritten(a, z, v, from, purged, s)
<1>1. /\ Steady(a, v, from, purged) /\ a.f \in Handles /\ IsMachine(a)
      /\ a.f.pos \in Nat /\ a.f.size \in Nat /\ a.f.pos <= a.f.size
  BY DEF Fit, Holding, Steady, Handles
<1>2. CASE ~a.ok
  BY <1>2 DEF UnitWritten, HasWritten
<1>3. CASE a.ok
  <2>1. PICK pos \in Nat, size \in Nat, dirt \in BOOLEAN :
          /\ pos = a.f.pos + 1
          /\ size = (IF a.f.pos + 1 > a.f.size THEN a.f.pos + 1 ELSE a.f.size)
          /\ dirt = (a.f.dirty \/ a.f.pos + 1 > a.f.size)
    <3>1. (a.f.dirty \/ a.f.pos + 1 > a.f.size) \in BOOLEAN
      OBVIOUS
    <3>2. a.f.pos + 1 \in Nat /\ (IF a.f.pos + 1 > a.f.size THEN a.f.pos + 1 ELSE a.f.size) \in Nat
      BY <1>1
    <3> QED BY <3>1, <3>2, Zenon
  <2>2. PICK i, content : i = a.f.pos % UnitsPerBlock /\ content = [a.buf EXCEPT ![i] = unit]
    OBVIOUS
  <2>3. z = [a EXCEPT !.buf[i] = unit, !.f.pos = pos, !.f.size = size, !.f.dirty = dirt]
    <3>1. z = [a EXCEPT !.buf[a.f.pos % UnitsPerBlock] = unit, !.f.pos = @ + 1,
                        !.f.size = IF a.f.pos + 1 > a.f.size THEN a.f.pos + 1 ELSE @,
                        !.f.dirty = @ \/ a.f.pos + 1 > a.f.size]
      BY <1>3 DEF UnitWritten
    <3> QED BY <2>1, <2>2, <3>1, Zenon
  <2>4. /\ DataPut(a, z) /\ z.d = a.d
        /\ z.f = [a.f EXCEPT !.pos = pos, !.size = size, !.dirty = dirt]
    BY <1>1, <2>3 DEF IsMachine, MachineFields, DataPut
  <2>5. Moved(a, z, v, from, purged)
    BY <1>1, <1>3, <2>4, DataPutDoes
  <2>6. Fit(z, v, from, purged, g) /\ Dir(z) = Dir(a) /\ (a.left = 0 => z.left = 0)
    BY <2>5, FitMoved DEF Moved, SameView
  <2>7. /\ z.f \in Handles /\ z.f.pos = pos /\ z.f.size = size /\ z.f.cur = a.f.cur
        /\ z.f.first = a.f.first /\ z.f.type = a.f.type /\ Slot(z.f) = Slot(a.f)
    <3>1. HandWrote(a.f, z.f, pos, size, dirt)
      BY <2>4 DEF HandWrote
    <3>2. PICK x, y : x = a.f /\ y = z.f
      OBVIOUS
    <3>3. /\ y \in Handles /\ y.pos = pos /\ y.size = size /\ y.cur = x.cur /\ y.first = x.first
          /\ y.type = x.type /\ Slot(y) = Slot(x)
      BY <1>1, <3>1, <3>2, HandWroteIs
    <3> QED BY <3>2, <3>3
  <2>8. pos <= size /\ a.f.first # 0 /\ a.f.cur # 0
    BY <1>1, <1>3, <2>1 DEF Holding
  <2>9. size <= g.len[s] * PerChain(v)
    <3>1. PICK q : q = g.len[s] * PerChain(v)
      OBVIOUS
    <3>2. a.f.size <= q
      BY <2>8, <3>1 DEF Holding
    <3>3. CASE a.f.pos = a.f.size
      BY <1>1, <1>3, <2>1, <3>1, <3>3
    <3>4. CASE a.f.pos # a.f.size
      <4>1. size = a.f.size
        BY <1>1, <2>1, <3>4
      <4> QED BY <3>1, <3>2, <4>1
    <3> QED BY <3>3, <3>4
  <2>10. Holding(z.f, Dir(z), v, g, s)
    BY <2>6, <2>7, <2>8, <2>9 DEF Holding
  <2> QED BY <2>4, <2>6, <2>10 DEF HasWritten
<1> QED BY <1>2, <1>3

\* A unit of a file is written, and the volume stays sound.
LEMMA WriteDoes ==
  ASSUME NEW a, NEW v, NEW from, NEW purged, NEW g, Fit(a, v, from, purged, g), a.ok, NEW s,
         Holding(a.f, Dir(a), v, g, s), Roomy(a.f, v, g),
         NEW unit, NEW z, z = Write(a, unit)
  PROVE  HasWritten(a, z, v, from, purged, s)
<1>1. /\ Steady(a, v, from, purged) /\ a.f \in Handles /\ IsMachine(a)
  BY DEF Fit, Holding, Steady
<1>2. CASE ~IsFile(a.f) \/ ~a.f.write
  <2>1. z = [a EXCEPT !.ok = FALSE]
    BY <1>2 DEF Write, Fail
  <2>2. OneCard(a, z) /\ z.ok = FALSE /\ z.f = a.f /\ z.d = a.d
    BY <1>1, <2>1 DEF IsMachine, MachineFields, OneCard
  <2>3. Moved(a, z, v, from, purged)
    BY <1>1, <2>2, SameCardMoved
  <2> QED BY <2>2, <2>3, FitMoved DEF HasWritten, Moved, SameView
<1>3. CASE IsFile(a.f) /\ a.f.write
  <2>1. PICK y : y = IF BeginsCluster(a, "f") THEN WriteCluster(a) ELSE a
    OBVIOUS
  <2>2. PICK x : x = WriteBlock(y)
    OBVIOUS
  <2>3. z = UnitWritten(x, unit)
    BY <1>3, <2>1, <2>2 DEF Write
  <2>4. Ready(a, y, v, from, purged, s)
    BY <2>1, ReadyDoes
  <2>5. PICK w : /\ Fit(y, v, from, purged, w) /\ Holding(y.f, Dir(y), v, w, s)
                 /\ y.ok => /\ y.f.cur # 0
                            /\ y.f.pos = y.f.size => y.f.pos + 1 <= w.len[s] * PerChain(v)
    BY <2>4 DEF Ready
  <2>6. AtBlock(y, x, v, from, purged)
    BY <2>2, <2>5, WriteBlockDoes
  <2>7. /\ Fit(x, v, from, purged, w) /\ x.f = y.f /\ x.d = y.d /\ Dir(x) = Dir(y)
        /\ (x.ok => y.ok) /\ (y.left = 0 => x.left = 0)
    BY <2>5, <2>6, FitMoved DEF AtBlock, Moved, SameView
  <2>8. HasWritten(x, z, v, from, purged, s)
    <3>1. Holding(x.f, Dir(x), v, w, s)
      BY <2>5, <2>7
    <3>2. x.ok => x.dirty /\ x.blk \in Data(v) /\ x.f.cur # 0
      BY <2>5, <2>6, <2>7 DEF AtBlock
    <3>3. x.ok /\ x.f.pos = x.f.size => x.f.pos + 1 <= w.len[s] * PerChain(v)
      BY <2>5, <2>7
    <3> QED BY <2>3, <2>7, <3>1, <3>2, <3>3, UnitWrittenDoes
  <2> QED BY <2>4, <2>7, <2>8 DEF HasWritten, Ready
<1> QED BY <1>2, <1>3

-----------------------------------------------------------------------------
\* Closing

\* The entry e once handle x has been synchronized.
Updated(x, e) == [e EXCEPT !.size = IF IsDir(x) THEN @ ELSE x.size, !.first = x.first]

\* If there is something to synchronize, the entry has its chain afterwards.
Due(x, dir, v, g) ==
  x.dirty => /\ Slot(x) \in Slots(v)
             /\ Live(dir[Slot(x)]) => Fed(Updated(x, dir[Slot(x)]), Slot(x), v, g)

LEMMA UpdatedIs ==
  ASSUME NEW x \in Handles, NEW e \in DirEntry
  PROVE  /\ Updated(x, e) \in DirEntry /\ Updated(x, e).first = x.first
         /\ Updated(x, e).size = (IF IsDir(x) THEN e.size ELSE x.size)
         /\ Updated(x, e).name = e.name /\ (Live(Updated(x, e)) <=> Live(e))
<1>1. PICK size \in Nat : size = (IF IsDir(x) THEN e.size ELSE x.size)
  BY DEF DirEntry, Handles
<1>2. PICK first \in Nat : first = x.first
  BY DEF Handles
<1>3. Updated(x, e) = [e EXCEPT !.size = size, !.first = first]
  BY <1>1, <1>2 DEF Updated
<1>4. /\ Updated(x, e) \in DirEntry /\ Updated(x, e).first = first /\ Updated(x, e).size = size
      /\ Updated(x, e).name = e.name
  BY <1>3 DEF DirEntry
<1> QED BY <1>1, <1>2, <1>4 DEF Live

LEMMA HoldingDue ==
  ASSUME NEW x, NEW dir, NEW v, NEW g, NEW s, dir \in [Slots(v) -> DirEntry], Holding(x, dir, v, g, s)
  PROVE  Due(x, dir, v, g)
<1>1. /\ x \in Handles /\ x.type = "file" /\ Slot(x) = s /\ s \in Slots(v) /\ dir[s] \in DirEntry
  BY DEF Holding
<1>2. ~IsDir(x)
  BY <1>1 DEF IsDir
<1>3. PICK e : e = Updated(x, dir[s])
  OBVIOUS
<1>4. e.first = x.first /\ e.size = x.size
  BY <1>1, <1>2, <1>3, UpdatedIs
<1>5. Fed(e, s, v, g)
  BY <1>4 DEF Fed, Holding
<1> QED BY <1>1, <1>3, <1>5 DEF Due

\* Two fields of a unit.
TwoPut(buf, i, size, first, new) == new = [buf EXCEPT ![i].size = size, ![i].first = first]

OnePut(buf, i, e, new) == new = [buf EXCEPT ![i] = e]
TwoSet(x, size, first, e) == e = [x EXCEPT !.size = size, !.first = first]

LEMMA TwoPutIs ==
  ASSUME NEW buf \in [Units -> DirEntry], NEW i \in Units, NEW size, NEW first, NEW new,
         TwoPut(buf, i, size, first, new), NEW e, TwoSet(buf[i], size, first, e)
  PROVE  OnePut(buf, i, e, new)
BY DEF TwoPut, OnePut, TwoSet



\* The entry is in the block in the cache, unless z has failed.
HasEntered(a, z, v, from, purged, g) ==
  /\ Fit(z, v, from, purged, g) /\ (a.left = 0 => z.left = 0) /\ z.d = a.d /\ (z.ok => a.ok)
  /\ SamePlace(a.f, z.f) /\ z.f.cur = a.f.cur /\ z.f.first = a.f.first
  /\ z.ok => Dir(z) = [Dir(a) EXCEPT ![Slot(a.f)] = Updated(a.f, Dir(a)[Slot(a.f)])]
  /\ ~z.ok => Dir(z) = Dir(a) /\ z.f = a.f

LEMMA EnteredDoes ==
  ASSUME NEW a, NEW v, NEW from, NEW purged, NEW g, Fit(a, v, from, purged, g),
         a.f \in Handles, a.f.dirty, Due(a.f, Dir(a), v, g),
         NEW z, z = Entered(CacheDirEntry(a, "f", TRUE), "f")
  PROVE  HasEntered(a, z, v, from, purged, g)
<1>1. /\ Steady(a, v, from, purged) /\ Layout16(v) /\ Good(View(a), v, purged)
      /\ Chains(Tab(a), Dir(a), v, g, {})
      /\ Dir(a) \in [Slots(v) -> DirEntry]
  BY FitGood DEF Fit
<1>2. PICK b \in Root(v), i \in Units : a.f.dirBlock = b /\ a.f.dirIndex = i
  <2>1. Slot(a.f) \in Slots(v)
    BY DEF Due
  <2> QED BY <2>1 DEF Slot, Slots
<1>3. Slot(a.f) = <<b, i>> /\ <<b, i>> \in Slots(v)
  BY <1>2 DEF Slot, Slots
<1> DEFINE w == CacheDirEntry(a, "f", TRUE)
<1>4. Cached(a, w, b, TRUE, v, from, purged)
  <2>1. w = CacheRawBlock(a, b, TRUE)
    BY <1>2 DEF CacheDirEntry
  <2>2. TRUE \in BOOLEAN /\ (TRUE => b \in Root(v) \union Data(v))
    BY <1>2
  <2> HIDE DEF w
  <2> QED BY <1>1, <2>1, <2>2, CacheRawBlockDoes
<1>5. z = Entered(w, "f")
  OBVIOUS
<1> HIDE DEF w
<1>6. /\ Kept(a, w, v, from, purged) /\ (w.ok => w.blk = b /\ w.dirty)
      /\ w.f = a.f /\ w.d = a.d /\ (w.ok => a.ok) /\ (a.left = 0 => w.left = 0)
      /\ Dir(w) = Dir(a) /\ Tab(w) = Tab(a)
  BY <1>4 DEF Cached, Kept, SameRest, SameView
<1>7. Fit(w, v, from, purged, g) /\ Steady(w, v, from, purged)
  BY <1>6, FitKept DEF Fit
<1>8. CASE ~w.ok
  <2>1. z = w
    BY <1>5, <1>8 DEF Entered
  <2>2. SamePlace(a.f, a.f)
    BY DEF SamePlace
  <2> QED BY <1>6, <1>7, <1>8, <2>1, <2>2 DEF HasEntered
<1>9. CASE w.ok
  <2>1. /\ w.blk \in Root(v) /\ w.blk = b /\ w.dirty /\ w.buf \in [Units -> DirEntry]
        /\ w.buf[i] = Dir(a)[<<b, i>>] /\ w.buf[i] \in DirEntry /\ IsMachine(w)
    <3>1. w.blk \in Root(v) /\ w.blk = b /\ w.dirty
      BY <1>2, <1>6, <1>9
    <3>2. w.buf \in [Units -> DirEntry]
      BY <1>7, <3>1, Shown
    <3>3. w.buf[i] = Dir(w)[<<w.blk, i>>]
      BY <1>2, <1>7, <3>1, ShownEntry
    <3> QED BY <1>2, <1>6, <1>7, <3>1, <3>2, <3>3 DEF Steady
  <2>2. PICK e : e = Updated(a.f, w.buf[i])
    OBVIOUS
  <2>3. PICK size, first : /\ size = (IF IsDir(a.f) THEN w.buf[i].size ELSE a.f.size)
                           /\ first = a.f.first
    OBVIOUS
  <2>4. z = [w EXCEPT !.buf[i].size = size, !.buf[i].first = first, !.f.dirty = FALSE]
    BY <1>2, <1>5, <1>6, <1>9, <2>3 DEF Entered
  <2>5. PICK buf : buf = w.buf
    OBVIOUS
  <2>6. TwoPut(buf, i, size, first, z.buf)
    BY <2>1, <2>4, <2>5 DEF TwoPut, IsMachine, MachineFields
  <2>7. z.buf = [w.buf EXCEPT ![i] = e]
    <3>1. TwoSet(buf[i], size, first, e)
      BY <2>2, <2>3, <2>5 DEF Updated, TwoSet
    <3>2. OnePut(buf, i, e, z.buf)
      BY <1>2, <2>1, <2>5, <2>6, <3>1, TwoPutIs
    <3> QED BY <2>5, <3>2 DEF OnePut
  <2>8. /\ UnitPut(w, z, i, e) /\ z.d = w.d /\ z.f = [a.f EXCEPT !.dirty = FALSE]
    <3>1. /\ IsMachine(z) /\ z.d = w.d /\ z.f = [a.f EXCEPT !.dirty = FALSE]
          /\ z.disk = w.disk /\ z.log = w.log /\ z.left = w.left /\ z.ok = w.ok /\ z.blk = w.blk
          /\ z.dirty = w.dirty /\ z.mirror = w.mirror /\ z.start = w.start /\ z.vol = w.vol
      BY <1>6, <2>1, <2>4 DEF IsMachine, MachineFields
    <3> QED BY <2>7, <3>1 DEF UnitPut
  <2>9. e \in DirEntry /\ (Live(e) => Fed(e, <<b, i>>, v, g))
    <3>1. Live(e) <=> Live(Dir(a)[<<b, i>>])
      BY <2>1, <2>2, UpdatedIs
    <3>2. Live(Dir(a)[<<b, i>>]) => Fed(e, <<b, i>>, v, g)
      BY <1>3, <2>1, <2>2 DEF Due
    <3>3. e \in DirEntry
      BY <2>1, <2>2, UpdatedIs
    <3> QED BY <3>1, <3>2, <3>3
  <2>10. Fit(z, v, from, purged, g) /\ Dir(z) = [Dir(w) EXCEPT ![<<w.blk, i>>] = e]
    <3>1. HasEntry(w, z, i, e, v, from, purged, g)
      BY <1>2, <1>7, <2>1, <2>8, <2>9, EntryPutDoes
    <3> QED BY <3>1 DEF HasEntry
  <2>11. SamePlace(a.f, z.f) /\ z.f.cur = a.f.cur /\ z.f.first = a.f.first
    <3>1. FALSE \in BOOLEAN
      OBVIOUS
    <3> QED BY <2>8, <3>1 DEF SamePlace, Handles
  <2>12. z.ok = w.ok /\ z.left = w.left
    BY <2>8 DEF UnitPut
  <2>13. Dir(z) = [Dir(a) EXCEPT ![Slot(a.f)] = Updated(a.f, Dir(a)[Slot(a.f)])]
    <3>1. <<w.blk, i>> = Slot(a.f) /\ e = Updated(a.f, Dir(a)[Slot(a.f)])
      BY <1>3, <1>6, <1>9, <2>1, <2>2
    <3> QED BY <1>6, <2>10, <3>1, Zenon
  <2>14. Fit(z, v, from, purged, g) /\ (a.left = 0 => z.left = 0) /\ z.d = a.d /\ (z.ok => a.ok)
    BY <1>6, <2>8, <2>10, <2>12
  <2>15. z.ok
    BY <1>9, <2>12
  <2> QED BY <2>11, <2>13, <2>14, <2>15, Zenon DEF HasEntered
<1> QED BY <1>8, <1>9

\* What is in the cache is on the card, and the entry with it; or z has failed.
HasSynced(a, z, v, from, purged, g) ==
  /\ Fit(z, v, from, purged, g) /\ (a.left = 0 => z.left = 0) /\ z.d = a.d
  /\ z.ok => a.ok /\ ~z.dirty
  /\ SamePlace(a.f, z.f) /\ z.f.cur = a.f.cur /\ z.f.first = a.f.first
  /\ z.ok /\ a.f.dirty =>
       Dir(z) = [Dir(a) EXCEPT ![Slot(a.f)] = Updated(a.f, Dir(a)[Slot(a.f)])]
  /\ ~a.f.dirty => Dir(z) = Dir(a)

LEMMA SyncDoes ==
  ASSUME NEW a, NEW v, NEW from, NEW purged, NEW g, Fit(a, v, from, purged, g),
         a.f \in Handles, IsOpen(a.f), Due(a.f, Dir(a), v, g), NEW z, z = Sync(a, "f")
  PROVE  HasSynced(a, z, v, from, purged, g)
<1>1. PICK y : y = IF a.f.dirty THEN Entered(CacheDirEntry(a, "f", TRUE), "f") ELSE a
  OBVIOUS
<1>2. z = CacheFlush(y)
  BY <1>1 DEF Sync
<1>3. /\ Fit(y, v, from, purged, g) /\ (a.left = 0 => y.left = 0) /\ y.d = a.d /\ (y.ok => a.ok)
      /\ SamePlace(a.f, y.f) /\ y.f.cur = a.f.cur /\ y.f.first = a.f.first
      /\ y.ok /\ a.f.dirty =>
           Dir(y) = [Dir(a) EXCEPT ![Slot(a.f)] = Updated(a.f, Dir(a)[Slot(a.f)])]
      /\ ~a.f.dirty => Dir(y) = Dir(a)
  <2>1. CASE a.f.dirty
    <3>1. HasEntered(a, y, v, from, purged, g)
      BY <1>1, <2>1, EnteredDoes
    <3>2. /\ Fit(y, v, from, purged, g) /\ (a.left = 0 => y.left = 0) /\ y.d = a.d
          /\ y.ok => a.ok
          /\ SamePlace(a.f, y.f) /\ y.f.cur = a.f.cur /\ y.f.first = a.f.first
      BY <3>1, Zenon DEF HasEntered
    <3>3. y.ok => Dir(y) = [Dir(a) EXCEPT ![Slot(a.f)] = Updated(a.f, Dir(a)[Slot(a.f)])]
      BY <3>1, Zenon DEF HasEntered
    <3> QED BY <2>1, <3>2, <3>3, Zenon
  <2>2. CASE ~a.f.dirty
    BY <1>1, <2>2 DEF SamePlace
  <2> QED BY <2>1, <2>2
<1>4. Steady(y, v, from, purged) /\ Good(View(y), v, purged)
  BY <1>3, FitGood
<1>5. Flushed(y, z, v, from, purged)
  BY <1>2, <1>4, CacheFlushDoes
<1>6. /\ Kept(y, z, v, from, purged) /\ z.f = y.f /\ z.d = y.d /\ (z.ok => y.ok /\ ~z.dirty)
      /\ Dir(z) = Dir(y) /\ (y.left = 0 => z.left = 0)
  BY <1>5 DEF Flushed, Kept, SameRest, SameView
<1>7. Fit(z, v, from, purged, g)
  BY <1>3, <1>6, FitKept
<1> QED BY <1>3, <1>6, <1>7 DEF HasSynced

\* The handle is closed, or z has failed.
HasClosed(a, z, v, from, purged, g) ==
  /\ Fit(z, v, from, purged, g) /\ (a.left = 0 => z.left = 0) /\ z.d = a.d /\ z.f \in Handles
  /\ z.ok => a.ok /\ ~z.dirty /\ z.f.type = "closed"

LEMMA CloseDoes ==
  ASSUME NEW a, NEW v, NEW from, NEW purged, NEW g, Fit(a, v, from, purged, g),
         a.f \in Handles, IsOpen(a.f), Due(a.f, Dir(a), v, g), NEW z, z = Close(a, "f")
  PROVE  HasClosed(a, z, v, from, purged, g)
<1> DEFINE y == Sync(a, "f")
<1>1. HasSynced(a, y, v, from, purged, g)
  BY SyncDoes
<1>2. z = ClosedIf(y, "f")
  BY DEF Close
<1> HIDE DEF y
<1>3. /\ Fit(y, v, from, purged, g) /\ (a.left = 0 => y.left = 0) /\ y.d = a.d /\ y.f \in Handles
      /\ y.ok => a.ok /\ ~y.dirty
  BY <1>1 DEF HasSynced, SamePlace
<1>4. CASE ~y.ok
  BY <1>2, <1>3, <1>4 DEF ClosedIf, HasClosed
<1>5. CASE y.ok
  <2>1. z = [y EXCEPT !.f.type = "closed"]
    BY <1>2, <1>5 DEF ClosedIf
  <2>2. Steady(y, v, from, purged) /\ IsMachine(y)
    BY <1>3 DEF Fit, Steady
  <2>3. OneCard(y, z) /\ z.ok = y.ok /\ z.d = y.d /\ z.f = [y.f EXCEPT !.type = "closed"]
    BY <2>1, <2>2 DEF IsMachine, MachineFields, OneCard
  <2>4. Moved(y, z, v, from, purged) /\ StillDirty(y, z)
    BY <2>2, <2>3, SameCardMoved DEF Steady
  <2>5. z.f \in Handles /\ z.f.type = "closed"
    BY <1>3, <2>3 DEF Handles
  <2>6. Fit(z, v, from, purged, g) /\ (y.left = 0 => z.left = 0) /\ ~z.dirty
    BY <1>3, <1>5, <2>4, FitMoved DEF Moved, StillDirty
  <2> QED BY <1>3, <1>5, <2>3, <2>5, <2>6 DEF HasClosed
<1> QED BY <1>4, <1>5

\* Nothing is open but the directory.
Shutting(a, z, v, from, purged, g) ==
  /\ Fit(z, v, from, purged, g) /\ (a.left = 0 => z.left = 0) /\ z.d = a.d
  /\ z.f \in Handles /\ z.f.type = "closed"

LEMMA ClosedHand == Closed \in Handles /\ Closed.type = "closed" /\ Closed.dirty = FALSE
BY DEF Closed, Handles

\* A machine whose handle has been closed, whatever it was.
HandGone(a, z) == z = [a EXCEPT !.ok = TRUE, !.f = Closed]

LEMMA HandGoneShuts ==
  ASSUME NEW a, NEW v, NEW from, NEW purged, NEW g, Fit(a, v, from, purged, g),
         NEW z, HandGone(a, z)
  PROVE  Shutting(a, z, v, from, purged, g) /\ z.ok
<1>1. Steady(a, v, from, purged) /\ IsMachine(a)
  BY DEF Fit, Steady
<1>2. OneCard(a, z) /\ z.ok = TRUE /\ z.f = Closed /\ z.d = a.d
  BY <1>1 DEF HandGone, IsMachine, MachineFields, OneCard
<1>3. Moved(a, z, v, from, purged)
  BY <1>1, <1>2, SameCardMoved
<1>4. Fit(z, v, from, purged, g) /\ (a.left = 0 => z.left = 0)
  BY <1>3, FitMoved DEF Moved
<1> QED BY <1>2, <1>4, ClosedHand DEF Shutting

\* File::close(): the file's entry is up to date, and the handle gone.
LEMMA FileCloseDoes ==
  ASSUME NEW a, NEW v, NEW from, NEW purged, NEW g, Fit(a, v, from, purged, g),
         a.f \in Handles, IsOpen(a.f) => Due(a.f, Dir(a), v, g), NEW z, z = FileClose(a)
  PROVE  Shutting(a, z, v, from, purged, g)
<1>1. CASE IsOpen(a.f)
  <2> DEFINE y == Close(a, "f")
  <2>1. HasClosed(a, y, v, from, purged, g)
    BY <1>1, CloseDoes
  <2>2. HandGone(y, z)
    BY <1>1 DEF FileClose, HandGone
  <2> HIDE DEF y
  <2>3. /\ Fit(y, v, from, purged, g) /\ (a.left = 0 => y.left = 0) /\ y.d = a.d
    BY <2>1 DEF HasClosed
  <2>4. Shutting(y, z, v, from, purged, g)
    BY <2>2, <2>3, HandGoneShuts
  <2> QED BY <2>3, <2>4 DEF Shutting
<1>2. CASE ~IsOpen(a.f)
  BY <1>2 DEF FileClose, Shutting, IsOpen
<1> QED BY <1>1, <1>2

-----------------------------------------------------------------------------
\* SD.h

\* A name that an entry in use can have.
IsName(name) == name \in Names /\ name \notin {"FREE", "DELETED"}

\* A file that has just been opened for writing.
LEMMA HoldingOpened ==
  ASSUME NEW x, NEW t, NEW dir, NEW v, NEW g, NEW s, NEW flags, OnEntry(x, dir[s], s, flags),
         "write" \in flags, Chains(t, dir, v, g, {}), s \in Slots(v), Live(dir[s])
  PROVE  Holding(x, dir, v, g, s)
<1>1. Fed(dir[s], s, v, g)
  BY DEF Chains
<1>2. /\ x \in Handles /\ Slot(x) = s /\ x.type = "file" /\ x.cur = 0 /\ x.pos = 0
      /\ x.first = dir[s].first /\ x.size = dir[s].size
  BY DEF OnEntry
<1>3. x.pos <= x.size
  BY <1>2 DEF Handles
<1>4. x.first = 0 => x.size = 0
  BY <1>1, <1>2 DEF Fed
<1>5. x.first # 0 => /\ x.first \in g.has /\ g.own[x.first] = s /\ g.rank[x.first] = 0
                     /\ x.size <= g.len[s] * PerChain(v)
  BY <1>1, <1>2 DEF Fed
<1>6. x.cur = 0 => x.pos = 0
  BY <1>2
<1> QED BY <1>2, <1>3, <1>4, <1>5, <1>6 DEF Holding

\* Nothing is open but the root directory.
Resting(a, z, v, from, purged, g) ==
  Fit(z, v, from, purged, g) /\ (a.left = 0 => z.left = 0) /\ Shut(z, v)

\* SD.exists() changes nothing.
LEMMA ExistsDoes ==
  ASSUME NEW a, NEW v, NEW from, NEW purged, NEW g, Fit(a, v, from, purged, g), Shut(a, v),
         NEW name, IsName(name), NEW z, z = Exists(a, name)
  PROVE  Resting(a, z, v, from, purged, g) /\ z.ok
<1> DEFINE o == Open(a, name, {"read"})
           c == IF o.ok THEN Close(o, "f") ELSE o
<1>1. z = [c EXCEPT !.val = o.ok, !.ok = TRUE, !.f.type = "closed"]
  BY DEF Exists, FoundOrNot
<1>2. Opening(a, o, name, {"read"}, v, from, purged, g)
  <2>1. name \in Names /\ "trunc" \notin {"read"}
    BY DEF IsName
  <2> QED BY <2>1, OpenDoes
<1> HIDE DEF o
<1>3. /\ Fit(o, v, from, purged, g) /\ (a.left = 0 => o.left = 0) /\ RootHand(o.d, v)
      /\ o.f \in Handles /\ (o.ok => IsOpen(o.f) /\ o.f.dirty = FALSE)
  BY <1>2 DEF Opening, OnEntry, IsOpen
<1>4. /\ Fit(c, v, from, purged, g) /\ (a.left = 0 => c.left = 0) /\ RootHand(c.d, v)
      /\ c.f \in Handles
  <2>1. CASE ~o.ok
    BY <1>3, <2>1
  <2>2. CASE o.ok
    <3>1. Due(o.f, Dir(o), v, g)
      BY <1>3, <2>2 DEF Due
    <3>2. c = Close(o, "f")
      BY <2>2
    <3> HIDE DEF c
    <3>3. HasClosed(o, c, v, from, purged, g)
      BY <1>3, <2>2, <3>1, <3>2, CloseDoes
    <3> QED BY <1>3, <3>3 DEF HasClosed
  <2> QED BY <2>1, <2>2
<1>5. PICK found : found = o.ok
  OBVIOUS
<1> HIDE DEF c
<1>6. Steady(c, v, from, purged) /\ IsMachine(c)
  BY <1>4 DEF Fit, Steady
<1>7. OneCard(c, z) /\ z.ok = TRUE /\ z.d = c.d /\ z.f = [c.f EXCEPT !.type = "closed"]
  BY <1>1, <1>5, <1>6 DEF IsMachine, MachineFields, OneCard
<1>8. Moved(c, z, v, from, purged)
  BY <1>6, <1>7, SameCardMoved
<1>9. Fit(z, v, from, purged, g) /\ (c.left = 0 => z.left = 0)
  BY <1>4, <1>8, FitMoved DEF Moved
<1>10. z.f \in Handles /\ z.f.type = "closed"
  BY <1>4, <1>7 DEF Handles
<1> QED BY <1>4, <1>7, <1>9, <1>10 DEF Resting, Shut

\* A file has been opened, or the handle is an empty one.
Opened(a, z, flags, v, from, purged, g) ==
  /\ Fit(z, v, from, purged, g) /\ (a.left = 0 => z.left = 0) /\ RootHand(z.d, v)
  /\ z.f \in Handles /\ z.f.pos <= z.f.size /\ z.f.dirty = FALSE /\ z.ok
  /\ IsOpen(z.f) => /\ Safe(z)
                    /\ "write" \in flags => \E s : Holding(z.f, Dir(z), v, g, s)

LEMMA IgnoredIs ==
  ASSUME NEW a, NEW v, NEW from, NEW purged, NEW g, Fit(a, v, from, purged, g),
         NEW z, z = [a EXCEPT !.ok = TRUE]
  PROVE  /\ Fit(z, v, from, purged, g) /\ z.f = a.f /\ z.d = a.d /\ z.ok /\ z.left = a.left
         /\ Dir(z) = Dir(a) /\ (Safe(a) => Safe(z)) /\ z.unit = a.unit
<1>1. Steady(a, v, from, purged) /\ IsMachine(a)
  BY DEF Fit, Steady
<1>2. /\ OneCard(a, z) /\ z.ok = TRUE /\ z.f = a.f /\ z.d = a.d /\ z.unit = a.unit
      /\ z.left = a.left
  BY <1>1 DEF IsMachine, MachineFields, OneCard
<1>3. Moved(a, z, v, from, purged) /\ StillDirty(a, z)
  BY <1>1, <1>2, SameCardMoved
<1>4. Fit(z, v, from, purged, g) /\ Dir(z) = Dir(a) /\ z.vol = a.vol
  BY <1>3, FitMoved DEF Moved, SameView
<1> QED BY <1>2, <1>3, <1>4 DEF StillDirty, Safe

\* SD.open(): a file that is opened for writing has its chain.
LEMMA SdOpenDoes ==
  ASSUME NEW a, NEW v, NEW from, NEW purged, NEW g, Fit(a, v, from, purged, g), Shut(a, v),
         NEW name, IsName(name), NEW flags, "trunc" \notin flags,
         NEW z, z = SdOpen(a, name, flags)
  PROVE  Opened(a, z, flags, v, from, purged, g)
<1> DEFINE o == Open(a, name, flags)
           y == IF "write" \in flags THEN SeekSet(o, "f", o.f.size) ELSE o
<1>1. z = IF o.ok THEN [y EXCEPT !.ok = TRUE] ELSE [o EXCEPT !.ok = TRUE, !.f = Closed]
  BY DEF SdOpen, FileOf
<1>2. Opening(a, o, name, flags, v, from, purged, g)
  <2>1. name \in Names
    BY DEF IsName
  <2> QED BY <2>1, OpenDoes
<1> HIDE DEF o
<1>3. /\ Fit(o, v, from, purged, g) /\ (a.left = 0 => o.left = 0) /\ RootHand(o.d, v)
      /\ o.f \in Handles
  BY <1>2 DEF Opening
<1>4. CASE ~o.ok
  <2>1. HandGone(o, z)
    BY <1>1, <1>4 DEF HandGone
  <2>2. Shutting(o, z, v, from, purged, g) /\ z.ok
    BY <1>3, <2>1, HandGoneShuts
  <2>3. z.f.pos <= z.f.size /\ z.f.dirty = FALSE
    <3>1. z.f = Closed
      BY <1>3, <2>1 DEF HandGone, Fit, Steady, IsMachine, MachineFields
    <3>2. z.f.pos = 0 /\ z.f.size = 0 /\ z.f.dirty = FALSE
      BY <3>1 DEF Closed
    <3> QED BY <3>2
  <2> QED BY <1>3, <2>2, <2>3 DEF Shutting, Opened, IsOpen
<1>5. CASE o.ok
  <2>1. z = [y EXCEPT !.ok = TRUE]
    BY <1>1, <1>5
  <2>2. PICK s : /\ s \in Slots(v) /\ Dir(o)[s].name = name
                 /\ OnEntry(o.f, Dir(o)[s], s, flags)
    BY <1>2, <1>5 DEF Opening
  <2>3. Safe(o) /\ o.f.dirty = FALSE
    BY <1>2, <1>5 DEF Opening, OnEntry
  <2>4. /\ Fit(y, v, from, purged, g) /\ (a.left = 0 => y.left = 0) /\ RootHand(y.d, v)
        /\ y.f \in Handles /\ Safe(y) /\ y.f.dirty = FALSE /\ y.f.pos <= y.f.size
        /\ "write" \in flags => Holding(y.f, Dir(y), v, g, s)
    <3>1. CASE "write" \notin flags
      <4>1. y = o
        BY <3>1
      <4>2. o.f.pos <= o.f.size
        BY <1>3, <2>2 DEF OnEntry, Handles
      <4> HIDE DEF y
      <4> QED BY <1>3, <2>3, <3>1, <4>1, <4>2
    <3>2. CASE "write" \in flags
      <4>1. Holding(o.f, Dir(o), v, g, s)
        <5>1. Live(Dir(o)[s])
          BY <2>2 DEF IsName, Live
        <5>2. Chains(Tab(o), Dir(o), v, g, {})
          BY <1>3 DEF Fit
        <5> QED BY <2>2, <3>2, <5>1, <5>2, HoldingOpened
      <4>2. PICK pos \in Int : pos = o.f.size
        BY <1>3 DEF Handles
      <4>3. y = SeekSet(o, "f", pos)
        BY <3>2, <4>2
      <4> HIDE DEF y
      <4>4. HasSought(o, y, pos, v, from, purged, g, s)
        BY <1>3, <4>1, <4>3, SeekSetDoes
      <4>5. /\ Moved(o, y, v, from, purged) /\ StillDirty(o, y) /\ y.d = o.d
            /\ Elsewhere(o.f, y.f) /\ Holding(y.f, Dir(y), v, g, s)
        BY <4>4 DEF HasSought
      <4>6. /\ Fit(y, v, from, purged, g) /\ (o.left = 0 => y.left = 0) /\ y.vol = o.vol
        BY <1>3, <4>5, FitMoved DEF Moved
      <4>7. Safe(y)
        BY <2>3, <4>5, <4>6 DEF Safe, StillDirty
      <4> QED BY <1>3, <2>3, <4>5, <4>6, <4>7 DEF Elsewhere, Holding
    <3> QED BY <3>1, <3>2
  <2> HIDE DEF y
  <2>5. /\ Fit(z, v, from, purged, g) /\ z.f = y.f /\ z.d = y.d /\ z.ok /\ z.left = y.left
        /\ Dir(z) = Dir(y) /\ Safe(z)
    BY <2>1, <2>4, IgnoredIs
  <2> QED BY <2>4, <2>5 DEF Opened
<1> QED BY <1>4, <1>5

-----------------------------------------------------------------------------
\* Looking for a card

\* One entry after the other.
SeekingTo(a, uid, k, run) ==
  run = [n \in 0 .. k |-> IF n = 0 THEN [at |-> a, done |-> FALSE]
                          ELSE SoughtIn(run[n - 1], uid)]

LEMMA SeekingExists ==
  ASSUME NEW a, NEW uid
  PROVE  \A k \in Nat : \E run : SeekingTo(a, uid, k, run)
<1> DEFINE S == {k \in Nat : ~\E run : SeekingTo(a, uid, k, run)}
<1>1. CASE S = {}
  BY <1>1
<1>2. CASE S # {}
  <2>1. PICK k \in S : \A j \in S : k <= j
    BY <1>2, LeastNumber
  <2>2. CASE k = 0
    <3> DEFINE run == [n \in 0 .. 0 |-> [at |-> a, done |-> FALSE]]
    <3>1. SeekingTo(a, uid, 0, run)
      BY DEF SeekingTo
    <3> QED BY <2>1, <2>2, <3>1
  <2>3. CASE k # 0
    <3>1. k - 1 \in Nat /\ k - 1 \notin S
      BY <2>1, <2>3
    <3>2. PICK run : SeekingTo(a, uid, k - 1, run)
      BY <3>1
    <3> DEFINE on == [n \in 0 .. k |-> IF n = k THEN SoughtIn(run[n - 1], uid) ELSE run[n]]
    <3>3. \A n \in 0 .. k - 1 : /\ on[n] = run[n]
                                /\ run[n] = IF n = 0 THEN [at |-> a, done |-> FALSE]
                                            ELSE SoughtIn(run[n - 1], uid)
      <4>1. \A n \in 0 .. k - 1 : n \in 0 .. k /\ n # k
        BY <2>1
      <4>2. \A n \in 0 .. k - 1 : run[n] = IF n = 0 THEN [at |-> a, done |-> FALSE]
                                           ELSE SoughtIn(run[n - 1], uid)
        BY <3>2, Zenon DEF SeekingTo
      <4> QED BY <4>1, <4>2, Zenon
    <3>4. \A n \in 0 .. k : on[n] = IF n = 0 THEN [at |-> a, done |-> FALSE]
                                     ELSE SoughtIn(on[n - 1], uid)
      <4> SUFFICES ASSUME NEW n \in 0 .. k
                   PROVE  on[n] = IF n = 0 THEN [at |-> a, done |-> FALSE] ELSE SoughtIn(on[n - 1], uid)
        OBVIOUS
      <4> HIDE DEF on
      <4>1. CASE n = k
        <5>1. on[k] = SoughtIn(run[k - 1], uid) /\ k - 1 \in 0 .. k - 1
          BY <2>1, <2>3 DEF on
        <5> QED BY <2>3, <3>3, <4>1, <5>1
      <4>2. CASE n # k
        <5>1. n \in 0 .. k - 1 /\ (n # 0 => n - 1 \in 0 .. k - 1)
          BY <2>1, <4>2
        <5> QED BY <3>3, <5>1
      <4> QED BY <4>1, <4>2
    <3>5. SeekingTo(a, uid, k, on)
      <4>1. on = [n \in 0 .. k |-> on[n]]
        OBVIOUS
      <4> HIDE DEF on
      <4> QED BY <3>4, <4>1, Zenon DEF SeekingTo
    <3> QED BY <2>1, <3>5
  <2> QED BY <2>2, <2>3
<1> QED BY <1>1, <1>2

SeekingRun(a, uid, k, run) ==
  /\ run[0] = [at |-> a, done |-> FALSE]
  /\ \A n \in 1 .. k : run[n] = SoughtIn(run[n - 1], uid)

LEMMA SeekingRuns ==
  ASSUME NEW a, NEW uid, NEW k \in Nat, NEW run, SeekingTo(a, uid, k, run)
  PROVE  SeekingRun(a, uid, k, run)
<1>1. \A n \in 0 .. k : run[n] = IF n = 0 THEN [at |-> a, done |-> FALSE]
                                 ELSE SoughtIn(run[n - 1], uid)
  BY Zenon DEF SeekingTo
<1>2. 0 \in 0 .. k /\ \A n \in 1 .. k : n \in 0 .. k /\ n # 0
  OBVIOUS
<1> QED BY <1>1, <1>2, Zenon DEF SeekingRun

LEMMA SeekingIs ==
  ASSUME NEW a, NEW uid, NEW last \in Nat, last = Tries(a)
  PROVE  \E run : /\ SeekingRun(a, uid, last, run)
                  /\ FindCard(a, uid) = IF run[last].done THEN run[last].at
                                        ELSE [run[last].at EXCEPT !.val = NullCard]
<1> DEFINE run == CHOOSE run : SeekingTo(a, uid, last, run)
<1>1. SeekingTo(a, uid, last, run)
  BY SeekingExists
<1>2. FindCard(a, uid) = IF run[last].done THEN run[last].at
                         ELSE [run[last].at EXCEPT !.val = NullCard]
  BY DEF FindCard, SeekingTo
<1> HIDE DEF run
<1>3. SeekingRun(a, uid, last, run)
  BY <1>1, SeekingRuns
<1> QED BY <1>2, <1>3, Zenon

\* The machine z has only read on.
ReadOn(a, z, v, from, purged) ==
  Moved(a, z, v, from, purged) /\ z.d = a.d /\ z.f \in Handles /\ z.f.dirty = FALSE

LEMMA ReadOnOn ==
  ASSUME NEW a, NEW y, NEW z, NEW v, NEW from, NEW purged,
         ReadOn(a, y, v, from, purged), ReadOn(y, z, v, from, purged)
  PROVE  ReadOn(a, z, v, from, purged)
<1>1. Moved(a, z, v, from, purged)
  BY MovedOn DEF ReadOn
<1> QED BY <1>1 DEF ReadOn

LEMMA ReadOnDoes ==
  ASSUME NEW a, NEW v, NEW from, NEW purged, Steady(a, v, from, purged),
         Good(View(a), v, purged), a.f \in Handles, a.f.dirty = FALSE,
         NEW z, z = Read(a, "f")
  PROVE  ReadOn(a, z, v, from, purged)
<1>1. "f" \in {"f", "d"} /\ a["f"] \in Handles
  OBVIOUS
<1>2. HasRead(a, ReadCluster(a, "f"), z, "f", v, from, purged)
  BY <1>1, ReadDoes
<1>3. Moved(a, z, v, from, purged) /\ OtherHand(a, z, "f") /\ Elsewhere(a["f"], z["f"])
  BY <1>2 DEF HasRead
<1> QED BY <1>3 DEF ReadOn, OtherHand, Elsewhere

\* Only what the machine returns changes.
Returned(a, z) == \/ \E x : z = [a EXCEPT !.val = x]
                  \/ z = [a EXCEPT !.ok = TRUE]

LEMMA ReturnedReadOn ==
  ASSUME NEW a, NEW v, NEW from, NEW purged, Steady(a, v, from, purged),
         a.f \in Handles, a.f.dirty = FALSE, NEW z, Returned(a, z)
  PROVE  ReadOn(a, z, v, from, purged)
<1>1. IsMachine(a) /\ a.ok \in BOOLEAN
  BY DEF Steady
<1>2. OneCard(a, z) /\ z.f = a.f /\ z.d = a.d /\ z.ok \in BOOLEAN
  <2>1. CASE \E x : z = [a EXCEPT !.val = x]
    BY <1>1, <2>1 DEF IsMachine, MachineFields, OneCard
  <2>2. CASE z = [a EXCEPT !.ok = TRUE]
    <3>1. OneCard(a, z) /\ z.f = a.f /\ z.d = a.d /\ z.ok = TRUE
      BY <1>1, <2>2 DEF IsMachine, MachineFields, OneCard
    <3> QED BY <3>1
  <2> QED BY <2>1, <2>2 DEF Returned
<1> QED BY <1>2, SameCardMoved DEF ReadOn

Seeking(s, a, v, from, purged) ==
  s = [at |-> s.at, done |-> s.done] /\ ReadOn(a, s.at, v, from, purged)

LEMMA SoughtInKeeps ==
  ASSUME NEW a, NEW v, NEW from, NEW purged, Steady(a, v, from, purged),
         Good(View(a), v, purged), NEW s, Seeking(s, a, v, from, purged), NEW uid,
         NEW z, z = SoughtIn(s, uid)
  PROVE  Seeking(z, a, v, from, purged)
<1> DEFINE w == s.at
           r == Read(w, "f")
<1>1. /\ ReadOn(a, w, v, from, purged) /\ Steady(w, v, from, purged) /\ Good(View(w), v, purged)
      /\ w.f \in Handles /\ w.f.dirty = FALSE
  <2>1. ReadOn(a, w, v, from, purged) /\ Moved(a, w, v, from, purged)
    BY DEF Seeking, ReadOn
  <2> HIDE DEF w
  <2> QED BY <2>1, MovedGood DEF ReadOn
<1>2. ReadOn(w, r, v, from, purged) /\ Steady(r, v, from, purged)
  <2> HIDE DEF w
  <2>1. PICK y : y = r
    OBVIOUS
  <2>2. ReadOn(w, y, v, from, purged)
    BY <1>1, <2>1, ReadOnDoes
  <2> QED BY <2>1, <2>2 DEF ReadOn, Moved
<1>3. r.f \in Handles /\ r.f.dirty = FALSE
  BY <1>2 DEF ReadOn
<1>4. CASE s.done \/ Available(w) = 0
  BY <1>4 DEF SoughtIn
<1>5. CASE ~(s.done \/ Available(w) = 0)
  <2>1. Returned(r, z.at) /\ z = [at |-> z.at, done |-> z.done]
    <3>1. CASE r.ok /\ r.unit.uid = uid
      BY <1>5, <3>1 DEF SoughtIn, Returned
    <3>2. CASE ~(r.ok /\ r.unit.uid = uid)
      BY <1>5, <3>2 DEF SoughtIn, Returned, Seeking, Ignore
    <3> QED BY <3>1, <3>2
  <2> HIDE DEF r, w
  <2>2. ReadOn(r, z.at, v, from, purged)
    <3>1. PICK y : y = z.at
      OBVIOUS
    <3>2. ReadOn(r, y, v, from, purged)
      BY <1>2, <1>3, <2>1, <3>1, ReturnedReadOn
    <3> QED BY <3>1, <3>2
  <2>3. ReadOn(a, r, v, from, purged)
    BY <1>1, <1>2, ReadOnOn
  <2>4. ReadOn(a, z.at, v, from, purged)
    BY <2>2, <2>3, ReadOnOn
  <2> QED BY <2>1, <2>4 DEF Seeking
<1> QED BY <1>4, <1>5

LEMMA FindCardDoes ==
  ASSUME NEW a, NEW v, NEW from, NEW purged, Steady(a, v, from, purged),
         Good(View(a), v, purged), a.f \in Handles, a.f.dirty = FALSE, a.f.pos <= a.f.size,
         NEW uid, NEW z, z = FindCard(a, uid)
  PROVE  ReadOn(a, z, v, from, purged)
<1>1. PICK last \in Nat : last = Tries(a)
  BY DEF Tries, Available, Handles
<1>2. PICK run : /\ SeekingRun(a, uid, last, run)
                 /\ FindCard(a, uid) = IF run[last].done THEN run[last].at
                                       ELSE [run[last].at EXCEPT !.val = NullCard]
  BY <1>1, SeekingIs
<1> DEFINE S == {n \in 0 .. last : Seeking(run[n], a, v, from, purged)}
<1>3. 0 \in S
  <2>1. run[0] = [at |-> a, done |-> FALSE]
    BY <1>2 DEF SeekingRun
  <2>2. OneCard(a, a) /\ a.ok \in BOOLEAN
    BY DEF Steady, OneCard
  <2>3. ReadOn(a, a, v, from, purged)
    BY <2>2, SameCardMoved DEF ReadOn
  <2>4. Seeking(run[0], a, v, from, purged)
    BY <2>1, <2>3 DEF Seeking
  <2> QED BY <2>4
<1>4. \A n \in 1 .. last : n - 1 \in S => n \in S
  <2> SUFFICES ASSUME NEW n \in 1 .. last, n - 1 \in S
               PROVE  n \in S
    OBVIOUS
  <2>1. run[n] = SoughtIn(run[n - 1], uid) /\ n \in 0 .. last
    BY <1>2 DEF SeekingRun
  <2>2. Seeking(run[n - 1], a, v, from, purged)
    OBVIOUS
  <2>3. Seeking(run[n], a, v, from, purged)
    BY <2>1, <2>2, SoughtInKeeps
  <2> QED BY <2>1, <2>3
<1> HIDE DEF S
<1>5. last \in S
  BY <1>3, <1>4, Upwards
<1> DEFINE w == run[last].at
<1>6. ReadOn(a, w, v, from, purged)
  BY <1>5 DEF S, Seeking
<1>7. z = w \/ Returned(w, z)
  BY <1>2 DEF Returned
<1> HIDE DEF w
<1>8. CASE z = w
  BY <1>6, <1>8
<1>9. CASE Returned(w, z)
  <2>1. Steady(w, v, from, purged) /\ w.f \in Handles /\ w.f.dirty = FALSE
    BY <1>6 DEF ReadOn, Moved
  <2>2. ReadOn(w, z, v, from, purged)
    BY <1>9, <2>1, ReturnedReadOn
  <2> QED BY <1>6, <2>2, ReadOnOn
<1> QED BY <1>7, <1>8, <1>9

LEMMA CacheIsName == IsName("CACHE")
<1>1. "CACHE" \in Names
  BY DEF Names
<1>2. "CACHE" # "FREE" /\ "CACHE" # "DELETED"
  OBVIOUS
<1> QED BY <1>1, <1>2 DEF IsName

\* get() changes nothing.
LEMMA SdGetDoes ==
  ASSUME NEW a, NEW v, NEW from, NEW purged, NEW g, Fit(a, v, from, purged, g), Shut(a, v),
         NEW uid, NEW z, z = SdGet(a, uid)
  PROVE  Resting(a, z, v, from, purged, g)
<1>0. IsName("CACHE")
  BY CacheIsName
<1> DEFINE e == Exists(a, "CACHE")
           o == SdOpen(e, "CACHE", {"read"})
           c == FindCard(o, uid)
<1>1. Resting(a, e, v, from, purged, g)
  BY <1>0, ExistsDoes
<1>2. z = IF e.val THEN FileClose(c) ELSE e
  BY DEF SdGet, LookedUp
<1> HIDE DEF e
<1>3. CASE ~e.val
  BY <1>1, <1>2, <1>3
<1>4. CASE e.val
  <2>1. Fit(e, v, from, purged, g) /\ Shut(e, v) /\ (a.left = 0 => e.left = 0)
    BY <1>1 DEF Resting
  <2>2. Opened(e, o, {"read"}, v, from, purged, g)
    <3>1. "trunc" \notin {"read"}
      OBVIOUS
    <3> QED BY <1>0, <2>1, <3>1, SdOpenDoes
  <2> HIDE DEF o
  <2>3. /\ Fit(o, v, from, purged, g) /\ (e.left = 0 => o.left = 0) /\ RootHand(o.d, v)
        /\ o.f \in Handles /\ o.f.pos <= o.f.size /\ o.f.dirty = FALSE
    BY <2>2 DEF Opened
  <2>4. Steady(o, v, from, purged) /\ Good(View(o), v, purged)
    BY <2>3, FitGood
  <2>5. ReadOn(o, c, v, from, purged)
    BY <2>3, <2>4, FindCardDoes
  <2> HIDE DEF c
  <2>6. Moved(o, c, v, from, purged) /\ c.d = o.d /\ c.f \in Handles /\ c.f.dirty = FALSE
    BY <2>5 DEF ReadOn
  <2>7. Fit(c, v, from, purged, g) /\ (o.left = 0 => c.left = 0)
    BY <2>3, <2>6, FitMoved DEF Moved
  <2>8. Due(c.f, Dir(c), v, g)
    BY <2>6 DEF Due
  <2>9. Shutting(c, z, v, from, purged, g)
    BY <1>2, <1>4, <2>6, <2>7, <2>8, FileCloseDoes
  <2> QED BY <2>1, <2>3, <2>6, <2>7, <2>9 DEF Shutting, Resting, Shut
<1> QED BY <1>3, <1>4

-----------------------------------------------------------------------------
\* A directory is made

\* Block after block.
ClearingTo(a, block, count, k, run) ==
  run = [n \in 0 .. k |-> IF n = 0 THEN a
                          ELSE CacheZeroBlock(run[n - 1], block + count - n)]

LEMMA ClearingExists ==
  ASSUME NEW a, NEW block, NEW count
  PROVE  \A k \in Nat : \E run : ClearingTo(a, block, count, k, run)
<1> DEFINE S == {k \in Nat : ~\E run : ClearingTo(a, block, count, k, run)}
<1>1. CASE S = {}
  BY <1>1
<1>2. CASE S # {}
  <2>1. PICK k \in S : \A j \in S : k <= j
    BY <1>2, LeastNumber
  <2>2. CASE k = 0
    <3> DEFINE run == [n \in 0 .. 0 |-> a]
    <3>1. ClearingTo(a, block, count, 0, run)
      BY DEF ClearingTo
    <3> QED BY <2>1, <2>2, <3>1
  <2>3. CASE k # 0
    <3>1. k - 1 \in Nat /\ k - 1 \notin S
      BY <2>1, <2>3
    <3>2. PICK run : ClearingTo(a, block, count, k - 1, run)
      BY <3>1
    <3> DEFINE on == [n \in 0 .. k |-> IF n = k THEN CacheZeroBlock(run[n - 1], block + count - n) ELSE run[n]]
    <3>3. \A n \in 0 .. k - 1 : /\ on[n] = run[n]
                                /\ run[n] = IF n = 0 THEN a
                                            ELSE CacheZeroBlock(run[n - 1], block + count - n)
      <4>1. \A n \in 0 .. k - 1 : n \in 0 .. k /\ n # k
        BY <2>1
      <4>2. \A n \in 0 .. k - 1 : run[n] = IF n = 0 THEN a
                                           ELSE CacheZeroBlock(run[n - 1], block + count - n)
        BY <3>2, Zenon DEF ClearingTo
      <4> QED BY <4>1, <4>2, Zenon
    <3>4. \A n \in 0 .. k : on[n] = IF n = 0 THEN a
                                     ELSE CacheZeroBlock(on[n - 1], block + count - n)
      <4> SUFFICES ASSUME NEW n \in 0 .. k
                   PROVE  on[n] = IF n = 0 THEN a ELSE CacheZeroBlock(on[n - 1], block + count - n)
        OBVIOUS
      <4> HIDE DEF on
      <4>1. CASE n = k
        <5>1. on[k] = CacheZeroBlock(run[k - 1], block + count - k) /\ k - 1 \in 0 .. k - 1
          BY <2>1, <2>3 DEF on
        <5> QED BY <2>3, <3>3, <4>1, <5>1
      <4>2. CASE n # k
        <5>1. n \in 0 .. k - 1 /\ (n # 0 => n - 1 \in 0 .. k - 1)
          BY <2>1, <4>2
        <5> QED BY <3>3, <5>1
      <4> QED BY <4>1, <4>2
    <3>5. ClearingTo(a, block, count, k, on)
      <4>1. on = [n \in 0 .. k |-> on[n]]
        OBVIOUS
      <4> HIDE DEF on
      <4> QED BY <3>4, <4>1, Zenon DEF ClearingTo
    <3> QED BY <2>1, <3>5
  <2> QED BY <2>2, <2>3
<1> QED BY <1>1, <1>2

ClearingRun(a, block, count, k, run) ==
  /\ run[0] = a
  /\ \A n \in 1 .. k : run[n] = CacheZeroBlock(run[n - 1], block + count - n)

LEMMA ClearingRuns ==
  ASSUME NEW a, NEW block, NEW count, NEW k \in Nat, NEW run, ClearingTo(a, block, count, k, run)
  PROVE  ClearingRun(a, block, count, k, run)
<1>1. \A n \in 0 .. k : run[n] = IF n = 0 THEN a
                                 ELSE CacheZeroBlock(run[n - 1], block + count - n)
  BY Zenon DEF ClearingTo
<1>2. 0 \in 0 .. k /\ \A n \in 1 .. k : n \in 0 .. k /\ n # 0
  OBVIOUS
<1> QED BY <1>1, <1>2, Zenon DEF ClearingRun

LEMMA ClearingIs ==
  ASSUME NEW a, NEW block, NEW count \in Nat
  PROVE  \E run : ClearingRun(a, block, count, count, run) /\ ZeroBlocks(a, block, count) = run[count]
<1> DEFINE run == CHOOSE run : ClearingTo(a, block, count, count, run)
<1>1. ClearingTo(a, block, count, count, run)
  BY ClearingExists
<1>2. ZeroBlocks(a, block, count) = run[count]
  BY DEF ZeroBlocks, ClearingTo
<1> HIDE DEF run
<1>3. ClearingRun(a, block, count, count, run)
  BY <1>1, ClearingRuns
<1> QED BY <1>2, <1>3, Zenon

LEMMA ZeroBlocksDoes ==
  ASSUME NEW a, NEW v, NEW from, NEW purged, NEW g, Fit(a, v, from, purged, g), a.ok,
         NEW block \in Data(v), NEW count \in Nat, NEW z, z = ZeroBlocks(a, block, count)
  PROVE  Kept(a, z, v, from, purged)
<1>1. PICK run : ClearingRun(a, block, count, count, run) /\ ZeroBlocks(a, block, count) = run[count]
  BY ClearingIs
<1>2. Steady(a, v, from, purged) /\ Layout16(v)
  BY FitGood
<1> DEFINE S == {n \in 0 .. count : Kept(a, run[n], v, from, purged)}
<1>3. 0 \in S
  <2>1. run[0] = a
    BY <1>1 DEF ClearingRun
  <2> QED BY <1>2, <2>1, KeptSelf
<1>4. \A n \in 1 .. count : n - 1 \in S => n \in S
  <2> SUFFICES ASSUME NEW n \in 1 .. count, n - 1 \in S
               PROVE  n \in S
    OBVIOUS
  <2>1. PICK y, b : y = run[n - 1] /\ b = block + count - n
    OBVIOUS
  <2>2. run[n] = CacheZeroBlock(y, b) /\ n \in 0 .. count
    BY <1>1, <2>1 DEF ClearingRun
  <2>3. Kept(a, y, v, from, purged)
    BY <2>1
  <2>4. Fit(y, v, from, purged, g)
    BY <2>3, FitKept
  <2>5. Steady(y, v, from, purged) /\ Good(View(y), v, purged)
    BY <2>4, FitGood
  <2>6. b \in Data(v)
    BY <1>2, <2>1 DEF Data, Layout16
  <2>7. Zeroing(y, run[n], v, from, purged)
    BY <2>2, <2>5, <2>6, CacheZeroBlockDoes
  <2>8. Kept(y, run[n], v, from, purged)
    BY <2>7 DEF Zeroing
  <2>9. Kept(a, run[n], v, from, purged)
    BY <2>3, <2>8, KeptOn
  <2> QED BY <2>2, <2>9
<1> HIDE DEF S
<1>5. count \in S
  BY <1>3, <1>4, Upwards
<1> QED BY <1>1, <1>5 DEF S

\* The machine z goes on from a.
Onward(a, z) == (a.left = 0 => z.left = 0) /\ z.d = a.d

\* The directory of slot s has its first cluster, unless a has failed.
Founded(a, v, from, purged, g, s) ==
  /\ Fit(a, v, from, purged, g) /\ s \in Slots(v)
  /\ a.ok => /\ a.f \in Handles /\ a.f.type = "subdir" /\ Slot(a.f) = s
             /\ a.f.cur \in ClustersOf(v)
             /\ a.f.first \in g.has /\ g.own[a.f.first] = s /\ g.rank[a.f.first] = 0
             /\ Dir(a)[s].size = 0 /\ Dir(a)[s].first \in {0, a.f.first}

LEMMA FoundedKept ==
  ASSUME NEW a, NEW v, NEW from, NEW purged, NEW g, NEW s, Founded(a, v, from, purged, g, s),
         NEW z, Kept(a, z, v, from, purged)
  PROVE  Founded(z, v, from, purged, g, s) /\ Onward(a, z)
<1>1. Fit(z, v, from, purged, g)
  BY FitKept DEF Founded
<1>2. z.f = a.f /\ z.d = a.d /\ (z.ok => a.ok) /\ Dir(z) = Dir(a) /\ (a.left = 0 => z.left = 0)
  BY DEF Kept, SameRest, SameView
<1> QED BY <1>1, <1>2 DEF Founded, Onward

\* A handle x that becomes y: only its size changes.
HandSized(x, y, size) == y = [x EXCEPT !.size = size]

LEMMA HandSizedIs ==
  ASSUME NEW x \in Handles, NEW size \in Nat, NEW y, HandSized(x, y, size)
  PROVE  /\ y \in Handles /\ y.type = x.type /\ Slot(y) = Slot(x) /\ y.cur = x.cur
         /\ y.first = x.first
<1>1. y \in Handles
  BY DEF HandSized, Handles
<1>2. /\ y.type = x.type /\ y.cur = x.cur /\ y.first = x.first /\ y.dirBlock = x.dirBlock
      /\ y.dirIndex = x.dirIndex
  BY DEF HandSized, Handles
<1> QED BY <1>1, <1>2 DEF Slot

\* A cluster for a new directory, zeroed.
LEMMA AddDirClusterDoes ==
  ASSUME NEW a, NEW v, NEW from, NEW purged, NEW g, Fit(a, v, from, purged, g), a.ok,
         a.f \in Handles, a.f.type = "subdir", a.f.cur = 0, a.f.first = 0,
         NEW s \in Slots(v), Slot(a.f) = s, Dir(a)[s].first = 0, Dir(a)[s].size = 0,
         NEW z, z = AddDirCluster(a, "f")
  PROVE  \E w : Founded(z, v, from, purged, w, s) /\ Onward(a, z)
<1> DEFINE b == AddCluster(a, "f")
           c == ZeroedCluster(b, "f")
<1>1. Extends(a, v, g, s)
  BY DEF Extends
<1>2. Longer(a, b, v, from, purged, g, s)
  BY <1>1, AddClusterDoes
<1>3. z = Enlarged(c, "f") /\ c = ZeroedCluster(b, "f")
  BY DEF AddDirCluster
<1> HIDE DEF c, b
<1>4. PICK w : Founded(b, v, from, purged, w, s) /\ Onward(a, b)
  <2>1. Steady(b, v, from, purged) /\ Dir(b) = Dir(a) /\ Onward(a, b)
    BY <1>2 DEF Longer, Onward
  <2>2. CASE ~b.ok
    <3>1. Fit(b, v, from, purged, g)
      BY <1>2, <2>1, <2>2 DEF Longer, Fit
    <3> QED BY <2>1, <2>2, <3>1 DEF Founded
  <2>3. CASE b.ok
    <3>1. /\ SamePlace(a.f, b.f) /\ b.f.first = b.f.cur /\ b.f.cur \in ClustersOf(v)
      BY <1>2, <2>3 DEF Longer
    <3>2. PICK w : Chains(Tab(b), Dir(b), v, w, {}) /\ Hung(g, w, b.f.cur, a.f.cur, s)
      BY <1>2, <2>3 DEF Longer
    <3>3. Fit(b, v, from, purged, w)
      BY <2>1, <3>2 DEF Fit
    <3>4. b.f.first \in w.has /\ w.own[b.f.first] = s /\ w.rank[b.f.first] = 0
      BY <3>1, <3>2 DEF Hung
    <3>5. b.f \in Handles /\ b.f.type = "subdir" /\ Slot(b.f) = s
      BY <3>1 DEF SamePlace, Slot
    <3>6. Founded(b, v, from, purged, w, s)
      BY <2>1, <3>1, <3>3, <3>4, <3>5 DEF Founded
    <3> QED BY <2>1, <3>6
  <2> QED BY <2>2, <2>3
<1>5. /\ Fit(b, v, from, purged, w) /\ Steady(b, v, from, purged) /\ Layout16(v) /\ b.vol = v
      /\ b.ok \in BOOLEAN
  BY <1>4, FitGood DEF Founded, Steady
<1>6. CASE ~b.ok
  <2>1. c = b
    BY <1>3, <1>6 DEF ZeroedCluster
  <2>2. z = b
    BY <1>3, <1>6, <2>1 DEF Enlarged
  <2> QED BY <1>4, <2>2
<1>7. CASE b.ok
  <2>1. PICK block, count : block = ClusterStartBlock(b, b.f.cur) /\ count = v.blocksPerCluster
    OBVIOUS
  <2>2. c = ZeroBlocks(b, block, count)
    BY <1>3, <1>5, <1>7, <2>1 DEF ZeroedCluster
  <2>3. count \in Nat
    BY <1>5, <2>1 DEF Layout16
  <2>4. block \in Data(v)
    <3>1. b.f.cur \in ClustersOf(v)
      BY <1>4, <1>7 DEF Founded
    <3>2. PICK k \in Nat : k = b.f.cur - 2
      BY <1>5, <3>1 DEF ClustersOf
    <3>3. block = v.dataStart + k * count
      BY <1>5, <2>1, <3>2 DEF ClusterStartBlock
    <3>4. k * count \in Nat /\ v.dataStart \in Nat
      BY <1>5, <2>3, <3>2 DEF Layout16
    <3> QED BY <3>3, <3>4 DEF Data
  <2>5. Kept(b, c, v, from, purged)
    BY <1>5, <1>7, <2>2, <2>3, <2>4, ZeroBlocksDoes
  <2>6. Founded(c, v, from, purged, w, s) /\ Onward(b, c)
    BY <1>4, <2>5, FoundedKept
  <2>7. Onward(a, c)
    BY <1>4, <2>6 DEF Onward
  <2>8. CASE ~c.ok
    <3>1. z = c
      BY <1>3, <2>8 DEF Enlarged
    <3> QED BY <2>6, <2>7, <3>1
  <2>9. CASE c.ok
    <3>1. PICK more : more = UnitsPerBlock * c.vol.blocksPerCluster
      OBVIOUS
    <3>2. z = [c EXCEPT !.f.size = c.f.size + more]
      BY <1>3, <2>9, <3>1 DEF Enlarged
    <3>3. Fit(c, v, from, purged, w) /\ Steady(c, v, from, purged) /\ IsMachine(c) /\ c.vol = v
      BY <2>6 DEF Founded, Fit, Steady
    <3>4. more \in Nat
      BY <1>5, <2>1, <2>3, <3>1, <3>3, LayoutAssumption
    <3>5. /\ OneCard(c, z) /\ z.ok = c.ok /\ z.d = c.d
          /\ z.f = [c.f EXCEPT !.size = c.f.size + more]
      BY <3>2, <3>3 DEF IsMachine, MachineFields, OneCard
    <3>6. c.f \in Handles /\ c.f.size \in Nat
      BY <2>6, <2>9 DEF Founded, Handles
    <3>7. PICK size \in Nat : size = c.f.size + more
      BY <3>4, <3>6
    <3>8. HandSized(c.f, z.f, size)
      BY <3>5, <3>7 DEF HandSized
    <3>9. /\ z.f \in Handles /\ z.f.type = c.f.type /\ Slot(z.f) = Slot(c.f)
          /\ z.f.cur = c.f.cur /\ z.f.first = c.f.first
      BY <3>6, <3>7, <3>8, HandSizedIs
    <3>10. Moved(c, z, v, from, purged)
      BY <2>9, <3>3, <3>5, SameCardMoved
    <3>11. Fit(z, v, from, purged, w) /\ Dir(z) = Dir(c) /\ (c.left = 0 => z.left = 0)
      BY <3>3, <3>10, FitMoved DEF Moved, SameView
    <3>12. Founded(z, v, from, purged, w, s)
      BY <2>6, <2>9, <3>9, <3>11 DEF Founded
    <3> QED BY <2>7, <3>5, <3>11, <3>12 DEF Onward
  <2>10. c.ok \in BOOLEAN
    BY <2>6 DEF Founded, Fit, Steady
  <2> QED BY <2>8, <2>9, <2>10
<1> QED BY <1>5, <1>6, <1>7

\* The block of the entry of a new directory is in the cache.
Entrance(z, v) == z.ok => z.blk = z.f.dirBlock /\ z.dirty

\* The entry of the new directory gets its first cluster.
LEMMA DirSyncedDoes ==
  ASSUME NEW a, NEW v, NEW from, NEW purged, NEW g, NEW s, Founded(a, v, from, purged, g, s),
         NEW z, z = DirSynced(a)
  PROVE  Founded(z, v, from, purged, g, s) /\ Onward(a, z) /\ Entrance(z, v)
<1>1. Fit(a, v, from, purged, g) /\ s \in Slots(v) /\ a.ok \in BOOLEAN
  BY DEF Founded, Fit, Steady
<1>2. CASE ~a.ok
  <2>1. z = a
    BY <1>2 DEF DirSynced
  <2> QED BY <1>2, <2>1 DEF Onward, Entrance
<1>3. CASE a.ok
  <2> DEFINE y == Sync(a, "f")
  <2>1. z = CacheDirEntry(y, "f", TRUE)
    BY <1>3 DEF DirSynced
  <2>2. /\ a.f \in Handles /\ a.f.type = "subdir" /\ Slot(a.f) = s
        /\ a.f.cur \in ClustersOf(v)
        /\ a.f.first \in g.has /\ g.own[a.f.first] = s /\ g.rank[a.f.first] = 0
        /\ Dir(a)[s].size = 0 /\ Dir(a)[s].first \in {0, a.f.first}
    BY <1>3 DEF Founded
  <2>3. Dir(a) \in [Slots(v) -> DirEntry] /\ Chains(Tab(a), Dir(a), v, g, {}) /\ Layout16(v)
    BY <1>1, FitGood DEF Fit
  <2>4. /\ Updated(a.f, Dir(a)[s]).first = a.f.first /\ Updated(a.f, Dir(a)[s]).size = 0
    <3>1. Dir(a)[s] \in DirEntry
      BY <1>1, <2>3
    <3>2. IsDir(a.f)
      BY <2>2 DEF IsDir
    <3> QED BY <2>2, <3>1, <3>2, UpdatedIs
  <2>5. Fed(Updated(a.f, Dir(a)[s]), s, v, g)
    <3>1. g.len[s] \in Nat /\ PerChain(v) \in Nat
      BY <1>1, <2>3, PerChainIs DEF Chains
    <3>2. PICK len, p : len = g.len[s] /\ p = PerChain(v)
      OBVIOUS
    <3>3. 0 <= len * p
      BY <3>1, <3>2
    <3>4. 0 <= g.len[s] * PerChain(v)
      BY <3>2, <3>3
    <3>5. a.f.first # 0
      BY <2>2, <2>3, OwnedIsTaken DEF ClustersOf
    <3> QED BY <2>2, <2>4, <3>4, <3>5 DEF Fed
  <2>6. Due(a.f, Dir(a), v, g)
    BY <1>1, <2>2, <2>5 DEF Due
  <2>7. HasSynced(a, y, v, from, purged, g)
    BY <1>1, <2>2, <2>6, SyncDoes DEF IsOpen
  <2> HIDE DEF y
  <2>8. /\ Fit(y, v, from, purged, g) /\ (a.left = 0 => y.left = 0) /\ y.d = a.d
        /\ SamePlace(a.f, y.f) /\ y.f.cur = a.f.cur /\ y.f.first = a.f.first
    BY <2>7 DEF HasSynced
  <2>9. /\ y.f \in Handles /\ y.f.type = "subdir" /\ Slot(y.f) = s
    BY <2>2, <2>8 DEF SamePlace, Slot
  <2>10. y.ok => Dir(y)[s].size = 0 /\ Dir(y)[s].first \in {0, y.f.first}
    <3> SUFFICES ASSUME y.ok
                 PROVE  Dir(y)[s].size = 0 /\ Dir(y)[s].first \in {0, y.f.first}
      OBVIOUS
    <3>1. CASE a.f.dirty
      <4>1. Dir(y) = [Dir(a) EXCEPT ![s] = Updated(a.f, Dir(a)[s])]
        BY <2>2, <2>7, <3>1 DEF HasSynced
      <4>2. Dir(y)[s] = Updated(a.f, Dir(a)[s])
        BY <1>1, <2>3, <4>1
      <4> QED BY <2>4, <2>8, <4>2
    <3>2. CASE ~a.f.dirty
      <4>1. Dir(y) = Dir(a)
        BY <2>7, <3>2 DEF HasSynced
      <4> QED BY <2>2, <2>8, <4>1
    <3> QED BY <3>1, <3>2
  <2>11. Founded(y, v, from, purged, g, s) /\ Onward(a, y)
    BY <1>1, <2>2, <2>8, <2>9, <2>10 DEF Founded, Onward
  <2>12. y.f.dirBlock \in Root(v) /\ Steady(y, v, from, purged) /\ Good(View(y), v, purged)
    <3>1. Slot(y.f) \in Slots(v)
      BY <1>1, <2>9
    <3> QED BY <2>8, <3>1, FitGood DEF Slot, Slots
  <2>13. z = CacheRawBlock(y, y.f.dirBlock, TRUE)
    BY <2>1 DEF CacheDirEntry
  <2>14. Cached(y, z, y.f.dirBlock, TRUE, v, from, purged)
    <3>1. TRUE \in BOOLEAN /\ (TRUE => y.f.dirBlock \in Root(v) \union Data(v))
      BY <2>12
    <3> QED BY <2>12, <2>13, <3>1, CacheRawBlockDoes
  <2>15. Kept(y, z, v, from, purged) /\ (z.ok => z.blk = y.f.dirBlock /\ z.dirty) /\ z.f = y.f
    BY <2>14 DEF Cached, Kept, SameRest
  <2>16. Founded(z, v, from, purged, g, s) /\ Onward(y, z)
    BY <2>11, <2>15, FoundedKept
  <2> QED BY <2>11, <2>15, <2>16 DEF Onward, Entrance
<1> QED BY <1>1, <1>2, <1>3

\* The volume is sound, whatever has become of handle f.
Making(a, z, v, from, purged) == (\E g : Fit(z, v, from, purged, g)) /\ Onward(a, z)

\* The two entries of a new directory.
LEMMA DotsDoes ==
  ASSUME NEW a, NEW v, NEW from, NEW purged, NEW g, Fit(a, v, from, purged, g),
         a.ok => a.dirty /\ a.blk \in Data(v), NEW own, NEW parent, NEW z, z = Dots(a, own, parent)
  PROVE  Making(a, z, v, from, purged)
<1>1. Steady(a, v, from, purged) /\ IsMachine(a) /\ a.ok \in BOOLEAN
  BY DEF Fit, Steady
<1>2. CASE ~a.ok
  <2>1. z = a
    BY <1>2 DEF Dots
  <2> QED BY <2>1 DEF Making, Onward
<1>3. CASE a.ok
  <2>1. PICK x : x = [own EXCEPT !.name = "..", !.first = parent]
    OBVIOUS
  <2> DEFINE y == [a EXCEPT !.buf[0] = own, !.buf[1] = x, !.f.pos = 2]
  <2>2. z = CacheFlush(y)
    BY <1>3, <2>1 DEF Dots
  <2>3. DataPut(a, y) /\ y.d = a.d
    BY <1>1 DEF DataPut, IsMachine, MachineFields
  <2> HIDE DEF y
  <2>4. Moved(a, y, v, from, purged)
    BY <1>1, <1>3, <2>3, DataPutDoes
  <2>5. Fit(y, v, from, purged, g) /\ (a.left = 0 => y.left = 0)
    BY <2>4, FitMoved DEF Moved
  <2>6. Steady(y, v, from, purged) /\ Good(View(y), v, purged)
    BY <2>5, FitGood
  <2>7. Flushed(y, z, v, from, purged)
    BY <2>2, <2>6, CacheFlushDoes
  <2>8. Kept(y, z, v, from, purged) /\ z.d = y.d /\ (y.left = 0 => z.left = 0)
    BY <2>7 DEF Flushed, Kept, SameRest
  <2>9. Fit(z, v, from, purged, g)
    BY <2>5, <2>8, FitKept
  <2> QED BY <2>3, <2>5, <2>8, <2>9 DEF Making, Onward
<1> QED BY <1>1, <1>2, <1>3

DirPut(buf, i, new) == new = [buf EXCEPT ![i].dir = TRUE]

LEMMA DirPutIs ==
  ASSUME NEW buf \in [Units -> DirEntry], NEW i \in Units, NEW new, DirPut(buf, i, new)
  PROVE  \E e \in DirEntry : /\ OnePut(buf, i, e, new)
                             /\ e.first = buf[i].first /\ e.size = buf[i].size
<1>1. PICK e : e = [buf[i] EXCEPT !.dir = TRUE]
  OBVIOUS
<1>2. buf[i] \in DirEntry
  OBVIOUS
<1>3. e \in DirEntry /\ e.first = buf[i].first /\ e.size = buf[i].size
  BY <1>1, <1>2 DEF DirEntry
<1>4. OnePut(buf, i, e, new)
  BY <1>1 DEF DirPut, OnePut
<1> QED BY <1>3, <1>4

\* The entry of the new directory is marked as one.
LEMMA DirMarkedDoes ==
  ASSUME NEW a, NEW v, NEW from, NEW purged, NEW g, NEW s, Founded(a, v, from, purged, g, s),
         Entrance(a, v), NEW z, z = DirMarked(a)
  PROVE  Making(a, z, v, from, purged)
<1>1. /\ Fit(a, v, from, purged, g) /\ s \in Slots(v) /\ a.ok \in BOOLEAN
      /\ Steady(a, v, from, purged) /\ IsMachine(a) /\ Layout16(v) /\ a.vol = v
      /\ Chains(Tab(a), Dir(a), v, g, {})
  BY DEF Founded, Fit, Steady
<1>2. CASE ~a.ok
  <2>1. z = a
    BY <1>2 DEF DirMarked
  <2> QED BY <1>1, <2>1 DEF Making, Onward
<1>3. CASE a.ok
  <2>1. PICK i : i = a.f.dirIndex
    OBVIOUS
  <2> DEFINE t == [a EXCEPT !.buf[i].dir = TRUE]
             b == CacheRawBlock(t, ClusterStartBlock(t, t.f.first), TRUE)
  <2>2. PICK own, parent : z = Dots(b, own, parent)
    BY <1>3, <2>1 DEF DirMarked
  <2>3. /\ t.buf = [a.buf EXCEPT ![i].dir = TRUE] /\ IsMachine(t)
        /\ t.disk = a.disk /\ t.log = a.log /\ t.left = a.left /\ t.ok = a.ok /\ t.blk = a.blk
        /\ t.dirty = a.dirty /\ t.mirror = a.mirror /\ t.start = a.start /\ t.vol = a.vol
        /\ t.f = a.f /\ t.d = a.d
    BY <1>1 DEF IsMachine, MachineFields
  <2>4. b = CacheRawBlock(t, ClusterStartBlock(t, t.f.first), TRUE)
    OBVIOUS
  <2> HIDE DEF t, b
  <2>5. /\ a.blk \in Root(v) /\ i \in Units /\ s = <<a.blk, i>> /\ a.dirty
        /\ a.f.first \in g.has /\ g.own[a.f.first] = s /\ g.rank[a.f.first] = 0
        /\ Dir(a)[s].size = 0 /\ Dir(a)[s].first \in {0, a.f.first}
    BY <1>1, <1>3, <2>1 DEF Founded, Entrance, Slot, Slots
  <2>6. a.buf \in [Units -> DirEntry] /\ a.buf[i] = Dir(a)[s]
    BY <1>1, <2>5, Shown, ShownEntry
  <2>7. PICK e \in DirEntry : /\ OnePut(a.buf, i, e, t.buf)
                              /\ e.first = Dir(a)[s].first /\ e.size = Dir(a)[s].size
    <3>1. DirPut(a.buf, i, t.buf)
      BY <2>3 DEF DirPut
    <3> QED BY <2>5, <2>6, <3>1, DirPutIs
  <2>8. UnitPut(a, t, i, e)
    BY <2>3, <2>7 DEF UnitPut, OnePut
  <2>9. Fed(e, <<a.blk, i>>, v, g)
    <3>1. g.len[s] \in Nat /\ PerChain(v) \in Nat
      BY <1>1, PerChainIs DEF Chains
    <3>2. PICK len, p : len = g.len[s] /\ p = PerChain(v)
      OBVIOUS
    <3>3. 0 <= len * p
      BY <3>1, <3>2
    <3>4. 0 <= g.len[s] * PerChain(v)
      BY <3>2, <3>3
    <3> QED BY <2>5, <2>7, <3>4 DEF Fed
  <2>10. HasEntry(a, t, i, e, v, from, purged, g)
    BY <1>1, <2>5, <2>8, <2>9, EntryPutDoes
  <2>11. Fit(t, v, from, purged, g)
    BY <2>10 DEF HasEntry
  <2>12. PICK block : block = ClusterStartBlock(t, t.f.first)
    OBVIOUS
  <2>13. block \in Data(v)
    <3>1. a.f.first \in ClustersOf(v) /\ v.dataStart \in Nat /\ v.blocksPerCluster \in Nat
          /\ v.clusterCount \in Nat
      BY <1>1, <2>5 DEF Chains, Layout16
    <3>2. PICK k \in Nat, p \in Nat : k = a.f.first - 2 /\ p = v.blocksPerCluster
      <4>1. a.f.first - 2 \in Nat
        BY <3>1 DEF ClustersOf
      <4> QED BY <3>1, <4>1
    <3>3. block = v.dataStart + k * p
      BY <1>1, <2>3, <2>12, <3>2 DEF ClusterStartBlock
    <3>4. k * p \in Nat
      BY <3>2
    <3> QED BY <3>1, <3>3, <3>4 DEF Data
  <2>14. Steady(t, v, from, purged) /\ Good(View(t), v, purged)
    BY <2>11, FitGood
  <2>15. Cached(t, b, block, TRUE, v, from, purged)
    <3>1. TRUE \in BOOLEAN /\ (TRUE => block \in Root(v) \union Data(v))
      BY <2>13
    <3>2. b = CacheRawBlock(t, block, TRUE)
      BY <2>4, <2>12
    <3> QED BY <2>14, <3>1, <3>2, CacheRawBlockDoes
  <2>16. /\ Kept(t, b, v, from, purged) /\ (b.ok => b.blk = block /\ b.dirty) /\ b.d = t.d
         /\ (t.left = 0 => b.left = 0)
    BY <2>15 DEF Cached, Kept, SameRest
  <2>17. Fit(b, v, from, purged, g)
    BY <2>11, <2>16, FitKept
  <2>18. Making(b, z, v, from, purged)
    BY <2>2, <2>13, <2>16, <2>17, DotsDoes
  <2> QED BY <2>3, <2>16, <2>18 DEF Making, Onward
<1> QED BY <1>1, <1>2, <1>3

\* The handle of a new file is made one of a directory.
HandTurned(x, y) == y = [x EXCEPT !.write = FALSE, !.type = "subdir"]

LEMMA HandTurnedIs ==
  ASSUME NEW x \in Handles, NEW y, HandTurned(x, y)
  PROVE  /\ y \in Handles /\ y.type = "subdir" /\ Slot(y) = Slot(x) /\ y.cur = x.cur
         /\ y.first = x.first
<1>1. y \in Handles
  BY DEF HandTurned, Handles
<1>2. /\ y.type = "subdir" /\ y.cur = x.cur /\ y.first = x.first /\ y.dirBlock = x.dirBlock
      /\ y.dirIndex = x.dirIndex
  BY DEF HandTurned, Handles
<1> QED BY <1>1, <1>2 DEF Slot

\* The volume is sound, whatever is open besides the directory.
Built(a, z, v, from, purged) ==
  (\E g : Fit(z, v, from, purged, g)) /\ (a.left = 0 => z.left = 0) /\ RootHand(z.d, v)

\* A directory is made, and the volume stays sound.
LEMMA MakeDirDoes ==
  ASSUME NEW a, NEW v, NEW from, NEW purged, NEW g, Fit(a, v, from, purged, g), Shut(a, v),
         NEW name \in Names, NEW z, z = MakeDir(a, name)
  PROVE  Built(a, z, v, from, purged)
<1>1. PICK flags : flags = {"creat", "excl", "read", "write"}
  OBVIOUS
<1> DEFINE o == Open(a, name, flags)
           d1 == DirOpened(o)
           b == AddDirCluster(d1, "f")
           c == DirSynced(b)
<1>2. z = DirFilled(d1)
  BY <1>1 DEF MakeDir
<1>3. Opening(a, o, name, flags, v, from, purged, g)
  <2>1. "trunc" \notin flags
    BY <1>1
  <2> QED BY <2>1, OpenDoes
<1>4. d1 = DirOpened(o) /\ b = AddDirCluster(d1, "f") /\ c = DirSynced(b)
  OBVIOUS
<1> HIDE DEF o, d1, b, c
<1>5. /\ Fit(o, v, from, purged, g) /\ (a.left = 0 => o.left = 0) /\ RootHand(o.d, v)
      /\ o.f \in Handles
  BY <1>3 DEF Opening
<1>6. Steady(o, v, from, purged) /\ IsMachine(o) /\ o.ok \in BOOLEAN
  BY <1>5 DEF Fit, Steady
<1>7. CASE ~o.ok
  <2>1. d1 = o
    BY <1>4, <1>7 DEF DirOpened
  <2>2. z = o
    BY <1>2, <1>7, <2>1 DEF DirFilled
  <2> QED BY <1>5, <2>2 DEF Built
<1>8. CASE o.ok
  <2>1. PICK s \in Slots(v) : s = Slot(o.f)
    BY <1>3, <1>8 DEF Opening
  <2>2. /\ OnEntry(o.f, Dir(o)[s], s, flags) /\ Made(Dir(o)[s], name, flags)
    BY <1>3, <1>8, <2>1 DEF Opening
  <2>3. Dir(o)[s].first = 0 /\ Dir(o)[s].size = 0
    <3>1. {"creat", "excl"} \subseteq flags
      BY <1>1
    <3>2. Dir(o)[s] = [FreeEntry EXCEPT !.name = name]
      BY <2>2, <3>1 DEF Made
    <3> QED BY <3>2 DEF FreeEntry
  <2>4. o.f.cur = 0 /\ o.f.first = 0
    BY <2>2, <2>3 DEF OnEntry
  <2>5. d1 = [o EXCEPT !.f.write = FALSE, !.f.type = "subdir"]
    BY <1>4, <1>8 DEF DirOpened
  <2>6. /\ OneCard(o, d1) /\ d1.ok = o.ok /\ d1.d = o.d
        /\ d1.f = [o.f EXCEPT !.write = FALSE, !.type = "subdir"]
    BY <1>6, <2>5 DEF IsMachine, MachineFields, OneCard
  <2>7. /\ d1.f \in Handles /\ d1.f.type = "subdir" /\ Slot(d1.f) = s /\ d1.f.cur = 0
        /\ d1.f.first = 0
    <3>1. HandTurned(o.f, d1.f)
      BY <2>6 DEF HandTurned
    <3> QED BY <1>5, <2>1, <2>4, <3>1, HandTurnedIs
  <2>8. Moved(o, d1, v, from, purged)
    BY <1>6, <2>6, SameCardMoved
  <2>9. Fit(d1, v, from, purged, g) /\ Dir(d1) = Dir(o) /\ (o.left = 0 => d1.left = 0)
    BY <1>5, <2>8, FitMoved DEF Moved, SameView
  <2>10. PICK w : Founded(b, v, from, purged, w, s) /\ Onward(d1, b)
    BY <1>4, <1>8, <2>3, <2>6, <2>7, <2>9, AddDirClusterDoes
  <2>11. Founded(c, v, from, purged, w, s) /\ Onward(b, c) /\ Entrance(c, v)
    BY <1>4, <2>10, DirSyncedDoes
  <2>12. z = DirMarked(c)
    BY <1>2, <1>4, <1>8, <2>6 DEF DirFilled
  <2>13. Making(c, z, v, from, purged)
    BY <2>11, <2>12, DirMarkedDoes
  <2> QED BY <1>5, <2>6, <2>9, <2>10, <2>11, <2>13 DEF Making, Onward, Built
<1> QED BY <1>6, <1>7, <1>8

\* Nothing is open but the root directory, and the volume is sound.
Rested(a, z, v, from, purged) ==
  (\E g : Fit(z, v, from, purged, g)) /\ (a.left = 0 => z.left = 0) /\ Shut(z, v)

LEMMA BuiltRests ==
  ASSUME NEW a, NEW y, NEW v, NEW from, NEW purged, Built(a, y, v, from, purged),
         NEW z, HandGone(y, z)
  PROVE  Rested(a, z, v, from, purged)
<1>1. PICK g : Fit(y, v, from, purged, g)
  BY DEF Built
<1>2. Shutting(y, z, v, from, purged, g)
  BY <1>1, HandGoneShuts
<1> QED BY <1>2 DEF Built, Rested, Shutting, Shut

\* SD.mkdir(): whatever comes of it, the volume stays sound.
LEMMA MkDirDoes ==
  ASSUME NEW a, NEW v, NEW from, NEW purged, NEW g, Fit(a, v, from, purged, g), Shut(a, v),
         NEW name, IsName(name), NEW z, z = MkDir(a, name)
  PROVE  Rested(a, z, v, from, purged)
<1>1. PICK e : e = Exists(a, name)
  OBVIOUS
<1>2. PICK y : y = IF e.val THEN e ELSE MakeDir(e, name)
  OBVIOUS
<1>3. z = [Ignore(y) EXCEPT !.f = Closed]
  BY <1>1, <1>2 DEF MkDir, MadeDir
<1>4. Resting(a, e, v, from, purged, g)
  BY <1>1, ExistsDoes
<1>5. Fit(e, v, from, purged, g) /\ (a.left = 0 => e.left = 0) /\ Shut(e, v)
  BY <1>4 DEF Resting
<1>6. Built(e, y, v, from, purged)
  <2>1. CASE e.val
    <3>1. y = e
      BY <1>2, <2>1
    <3> QED BY <1>5, <3>1 DEF Built, Shut
  <2>2. CASE ~e.val
    <3>1. y = MakeDir(e, name) /\ name \in Names
      BY <1>2, <2>2 DEF IsName
    <3> QED BY <1>5, <3>1, MakeDirDoes
  <2> QED BY <2>1, <2>2
<1>7. IsMachine(y)
  BY <1>6 DEF Built, Fit, Steady
<1>8. HandGone(y, z)
  <2>1. Ignore(y) = [y EXCEPT !.ok = TRUE]
    BY DEF Ignore
  <2>2. z = [[y EXCEPT !.ok = TRUE] EXCEPT !.f = Closed]
    BY <1>3, <2>1
  <2> QED BY <1>7, <2>2 DEF HandGone, IsMachine, MachineFields
<1>9. Rested(e, z, v, from, purged)
  BY <1>6, <1>8, BuiltRests
<1> QED BY <1>5, <1>9 DEF Rested

-----------------------------------------------------------------------------
\* Reading on in a file that is open for writing
\* The next cluster has been reached, or y has failed.
OnItsWay(a, y, v, g, s) ==
  /\ Holding(y.f, Dir(y), v, g, s)
  /\ y.ok => y.f.cur # 0
  /\ Positioned(a.f, v, g) => /\ Positioned(y.f, v, g)
                              /\ y.f.cur \in g.has => y.f.pos + 1 <= (g.rank[y.f.cur] + 1) * PerChain(v)
                                                      \/ ~y.ok

LEMMA NotBeginning ==
  ASSUME NEW v, Layout16(v), NEW x, x.pos \in Nat, ~Begins(x, v), NEW k \in Nat,
         x.pos <= k * PerChain(v)
  PROVE  x.pos + 1 <= k * PerChain(v)
<1>1. x.pos # k * PerChain(v)
  BY BeginsWhere
<1>2. PICK p \in Nat : p = PerChain(v)
  BY PerChainIs
<1>3. k * p \in Nat
  OBVIOUS
<1> QED BY <1>1, <1>2, <1>3

LEMMA OneClusterOn ==
  ASSUME NEW r \in Nat, NEW p \in Nat, p >= 2, NEW pos \in Nat, pos <= r * p
  PROVE  pos + 1 <= (r + 1) * p /\ pos <= (r + 1) * p
<1>1. (r + 1) * p = r * p + p /\ r * p \in Nat
  OBVIOUS
<1> QED BY <1>1

LEMMA ReachedHolds ==
  ASSUME NEW a, NEW v, NEW from, NEW purged, NEW g, Fit(a, v, from, purged, g), NEW s,
         Holding(a.f, Dir(a), v, g, s), a.f.pos < a.f.size,
         NEW y, Reached(a, y, "f", v, from, purged)
  PROVE  OnItsWay(a, y, v, g, s)
<1>1. /\ Layout16(v) /\ Chains(Tab(a), Dir(a), v, g, {}) /\ Tab(a) \in [ClustersOf(v) -> Nat]
      /\ Dir(y) = Dir(a) /\ a.f \in Handles /\ a.f.type = "file" /\ s \in Slots(v)
      /\ a.f.pos \in Nat /\ a.f.size \in Nat /\ a.f.cur \in Nat
  BY FitGood DEF Fit, Reached, Moved, SameView, Holding, Handles
<1>2. /\ Elsewhere(a.f, y.f) /\ y.f.pos = a.f.pos /\ (y.ok => a.ok)
      /\ ~Begins(a.f, v) => y = a
      /\ Begins(a.f, v) =>
           IF a.f.pos = 0 THEN y.f.cur = a.f.first
           ELSE IF ~y.ok THEN y.f.cur = a.f.cur
           ELSE /\ a.f.cur <= v.clusterCount + 1
                /\ a.f.cur \in ClustersOf(v) => y.f.cur = Tab(a)[a.f.cur]
  BY <1>1 DEF Reached
<1>3. /\ y.f.first = a.f.first /\ y.f.size = a.f.size /\ y.f \in Handles
  BY <1>2 DEF Elsewhere
<1>4. /\ a.f.first # 0 /\ a.f.first \in g.has /\ g.own[a.f.first] = s /\ g.rank[a.f.first] = 0
      /\ (a.f.cur = 0 => a.f.pos = 0)
      /\ (a.f.cur # 0 => OnChain(a.f.cur, g, s))
  BY <1>1 DEF Holding
<1>5. PICK p \in Nat : p = PerChain(v) /\ p >= 2
  BY <1>1, PerChainIs
<1>6. y.f.pos <= y.f.size
  BY <1>1, <1>2, <1>3
<1>7. \A c \in g.has : g.rank[c] \in Nat
  BY <1>1 DEF Chains
<1>8. CASE ~Begins(a.f, v)
  <2>1. y = a
    BY <1>2, <1>8
  <2>2. a.f.pos # 0
    <3>1. 0 = 0 * PerChain(v)
      BY <1>5
    <3>2. a.f.pos = 0 => Begins(a.f, v)
      BY <1>1, <3>1, BeginsWhere
    <3> QED BY <1>8, <3>2
  <2>3. Positioned(a.f, v, g) /\ a.f.cur \in g.has => a.f.pos + 1 <= (g.rank[a.f.cur] + 1) * PerChain(v)
    <3> SUFFICES ASSUME Positioned(a.f, v, g), a.f.cur \in g.has
                 PROVE  a.f.pos + 1 <= (g.rank[a.f.cur] + 1) * PerChain(v)
      OBVIOUS
    <3>1. PICK k \in Nat : k = g.rank[a.f.cur] + 1
      BY <1>7
    <3>2. a.f.pos <= k * PerChain(v)
      BY <3>1 DEF Positioned
    <3>3. a.f.pos + 1 <= k * PerChain(v)
      BY <1>1, <1>8, <3>2, NotBeginning
    <3> QED BY <3>1, <3>3
  <2> QED BY <1>4, <2>1, <2>2, <2>3 DEF OnItsWay
<1>9. ASSUME NEW c, y.f.cur = c, c # 0, OnChain(c, g, s),
             c \in g.has => (Positioned(a.f, v, g) => y.f.pos <= g.rank[c] * PerChain(v))
      PROVE  OnItsWay(a, y, v, g, s)
  <2>1. Holding(y.f, Dir(y), v, g, s)
    BY <1>1, <1>2, <1>3, <1>4, <1>6, <1>9, HoldingElsewhere
  <2>2. Positioned(a.f, v, g) /\ c \in g.has =>
          /\ y.f.pos + 1 <= (g.rank[c] + 1) * PerChain(v)
          /\ y.f.pos <= (g.rank[c] + 1) * PerChain(v)
    <3> SUFFICES ASSUME Positioned(a.f, v, g), c \in g.has
                 PROVE  /\ y.f.pos + 1 <= (g.rank[c] + 1) * PerChain(v)
                        /\ y.f.pos <= (g.rank[c] + 1) * PerChain(v)
      OBVIOUS
    <3>1. PICK r \in Nat, pos \in Nat : r = g.rank[c] /\ pos = y.f.pos
      BY <1>1, <1>2, <1>7
    <3>2. pos <= r * p
      BY <1>5, <1>9, <3>1
    <3>3. pos + 1 <= (r + 1) * p /\ pos <= (r + 1) * p
      BY <1>5, <3>2, OneClusterOn
    <3> QED BY <1>5, <3>1, <3>3
  <2> QED BY <1>9, <2>1, <2>2 DEF OnItsWay, Positioned
<1>10. CASE Begins(a.f, v) /\ a.f.pos = 0
  <2>1. y.f.cur = a.f.first
    BY <1>2, <1>10
  <2>2. OnChain(a.f.first, g, s)
    BY <1>4 DEF OnChain
  <2>3. y.f.pos <= g.rank[a.f.first] * PerChain(v)
    <3>1. 0 <= 0 * p
      BY <1>5
    <3> QED BY <1>2, <1>4, <1>5, <1>10, <3>1
  <2> QED BY <1>4, <1>9, <2>1, <2>2, <2>3
<1>11. CASE Begins(a.f, v) /\ a.f.pos # 0 /\ ~y.ok
  <2>1. y.f.cur = a.f.cur
    BY <1>2, <1>11
  <2>2. a.f.cur # 0 /\ OnChain(a.f.cur, g, s)
    BY <1>4, <1>11
  <2>3. Holding(y.f, Dir(y), v, g, s)
    BY <1>1, <1>2, <1>3, <1>4, <1>6, <2>1, <2>2, HoldingElsewhere
  <2> QED BY <1>2, <1>11, <2>1, <2>3 DEF OnItsWay, Positioned
<1>12. CASE Begins(a.f, v) /\ a.f.pos # 0 /\ y.ok
  <2>1. a.f.cur <= v.clusterCount + 1 /\ (a.f.cur \in ClustersOf(v) => y.f.cur = Tab(a)[a.f.cur])
    BY <1>2, <1>12
  <2>2. PICK c : c = a.f.cur
    OBVIOUS
  <2>3. c \in g.has /\ g.own[c] = s
    <3>1. OnChain(c, g, s)
      BY <1>4, <1>12, <2>2
    <3>2. ~IsEOC(c)
      <4>1. v.clusterCount + 1 < EOC /\ v.clusterCount \in Nat
        BY <1>1 DEF Layout16
      <4>2. EOC \in Nat
        BY DEF EOC
      <4> QED BY <1>1, <2>1, <2>2, <4>1, <4>2 DEF IsEOC
    <3> QED BY <3>1, <3>2 DEF OnChain
  <2>4. /\ c \in ClustersOf(v) /\ OnChain(Tab(a)[c], g, s) /\ Tab(a)[c] # 0
        /\ ~IsEOC(Tab(a)[c]) => g.rank[Tab(a)[c]] = g.rank[c] + 1
    BY <1>1, <2>3, ChainLeadsOn
  <2>5. y.f.cur = Tab(a)[c]
    BY <2>1, <2>2, <2>4
  <2>6. PICK n : n = Tab(a)[c]
    OBVIOUS
  <2>7. n \in g.has => (Positioned(a.f, v, g) => y.f.pos <= g.rank[n] * PerChain(v))
    <3> SUFFICES ASSUME n \in g.has, Positioned(a.f, v, g)
                 PROVE  y.f.pos <= g.rank[n] * PerChain(v)
      OBVIOUS
    <3>1. a.f.pos <= (g.rank[c] + 1) * PerChain(v)
      BY <2>2, <2>3 DEF Positioned
    <3>2. ~IsEOC(n)
      <4>1. n \in ClustersOf(v)
        BY <1>1 DEF Chains
      <4>2. v.clusterCount + 1 < EOC /\ v.clusterCount \in Nat
        BY <1>1 DEF Layout16
      <4>3. EOC \in Nat
        BY DEF EOC
      <4> QED BY <4>1, <4>2, <4>3 DEF IsEOC, ClustersOf
    <3>3. g.rank[n] = g.rank[c] + 1
      BY <2>4, <2>6, <3>2
    <3> QED BY <1>2, <3>1, <3>3
  <2> QED BY <1>9, <2>4, <2>5, <2>6, <2>7
<1> QED BY <1>8, <1>10, <1>11, <1>12

\* A unit of the file has been read, or z has failed.
HasPassed(a, z, v, from, purged, g, s) ==
  /\ Moved(a, z, v, from, purged) /\ StillDirty(a, z) /\ z.d = a.d
  /\ Holding(z.f, Dir(z), v, g, s) /\ z.f.size = a.f.size
  /\ z.f.pos = IF z.ok THEN a.f.pos + 1 ELSE a.f.pos
  /\ z.ok => z.blk \in Data(v)
  /\ Positioned(a.f, v, g) => Positioned(z.f, v, g)

\* A unit of a file that is open for writing is read.
LEMMA HoldingReadDoes ==
  ASSUME NEW a, NEW v, NEW from, NEW purged, NEW g, Fit(a, v, from, purged, g), NEW s,
         Holding(a.f, Dir(a), v, g, s), a.f.pos < a.f.size, NEW z, z = Read(a, "f")
  PROVE  HasPassed(a, z, v, from, purged, g, s)
<1>1. /\ Steady(a, v, from, purged) /\ Good(View(a), v, purged) /\ Layout16(v) /\ a.vol = v
      /\ Chains(Tab(a), Dir(a), v, g, {}) /\ a.f \in Handles /\ a.f.type = "file"
      /\ IsMachine(a) /\ a.f.pos \in Nat /\ a.f.size \in Nat
  BY FitGood DEF Fit, Steady, Holding, Handles
<1>2. PICK y : y = ReadCluster(a, "f")
  OBVIOUS
<1>3. HasRead(a, y, z, "f", v, from, purged)
  BY <1>1, <1>2, ReadDoes
<1>4. /\ Moved(a, z, v, from, purged) /\ StillDirty(a, z) /\ z.d = a.d
      /\ Elsewhere(a.f, z.f) /\ (z.ok => a.ok) /\ Dir(z) = Dir(a)
  BY <1>3 DEF HasRead, OtherHand, Moved, SameView
<1>5. CASE ~a.f.read
  <2>1. z = [[a EXCEPT !.ok = FALSE] EXCEPT !.got = -1]
    BY <1>1, <1>5 DEF Read, Fail
  <2>2. z.ok = FALSE
    BY <1>1, <2>1 DEF IsMachine, MachineFields
  <2>3. z.f = a.f
    BY <1>1, <2>1 DEF IsMachine, MachineFields
  <2> QED BY <1>4, <2>2, <2>3 DEF HasPassed
<1>6. CASE a.f.read
  <2>1. Readable(a.f)
    BY <1>1, <1>6 DEF Readable, IsOpen
  <2>2. /\ Reached(a, y, "f", v, from, purged) /\ (z.ok => y.ok) /\ z.f.cur = y.f.cur
        /\ z.f.pos = (IF z.ok THEN a.f.pos + 1 ELSE a.f.pos)
        /\ z.ok => z.blk = BlockAt(y, "f")
    BY <1>3, <2>1 DEF HasRead
  <2>3. OnItsWay(a, y, v, g, s)
    BY <1>1, <2>2, ReachedHolds
  <2>4. /\ Holding(y.f, Dir(y), v, g, s) /\ y.f.pos = a.f.pos /\ Elsewhere(a.f, y.f)
        /\ Dir(y) = Dir(a) /\ y.vol = v /\ (y.ok => y.f.cur # 0)
    BY <1>1, <2>2, <2>3 DEF OnItsWay, Reached, Moved, SameView
  <2>5. Holding(z.f, Dir(z), v, g, s)
    <3>1. Elsewhere(y.f, z.f)
      BY <1>4, <2>4 DEF Elsewhere
    <3>2. z.f.pos <= z.f.size
      BY <1>1, <1>4, <2>2 DEF Elsewhere
    <3>3. z.f.cur = 0 => z.f.pos = 0
      BY <2>2, <2>4 DEF Holding
    <3>4. z.f.cur # 0 => z.f.first # 0 /\ OnChain(z.f.cur, g, s)
      BY <2>2, <2>4, <3>1 DEF Holding, Elsewhere
    <3> QED BY <1>4, <2>4, <3>1, <3>2, <3>3, <3>4, HoldingElsewhere
  <2>6. z.ok => z.blk \in Data(v)
    <3> SUFFICES ASSUME z.ok
                 PROVE  z.blk \in Data(v)
      OBVIOUS
    <3>1. PICK c \in Nat, pos \in Nat : c = y.f.cur /\ pos = y.f.pos
      <4>1. y.f.cur \in Nat /\ y.f.pos \in Nat
        BY <2>4 DEF Holding, Handles
      <4> QED BY <4>1
    <3>2. c # 0 /\ OnChain(c, g, s)
      BY <2>2, <2>4, <3>1 DEF Holding
    <3>3. PICK i \in Nat : i = (pos \div UnitsPerBlock) % v.blocksPerCluster
      <4>1. pos \div UnitsPerBlock \in Nat
        BY LayoutAssumption, Division
      <4>2. v.blocksPerCluster \in Nat \ {0}
        BY <1>1 DEF Layout16
      <4>3. (pos \div UnitsPerBlock) % v.blocksPerCluster \in 0 .. v.blocksPerCluster - 1
        BY <4>1, <4>2, Division
      <4> QED BY <4>2, <4>3
    <3>4. z.blk = v.dataStart + (c - 2) * v.blocksPerCluster + i
      <4>1. y.f.type = "file"
        BY <2>4 DEF Holding
      <4> QED BY <2>2, <2>4, <3>1, <3>3, <4>1 DEF BlockAt, ClusterStartBlock, BlockOfCluster
    <3>5. g.has \subseteq ClustersOf(v)
      BY <1>1 DEF Chains
    <3> QED BY <1>1, <3>1, <3>2, <3>3, <3>4, <3>5, BlockIsData
  <2>7. Positioned(a.f, v, g) => Positioned(z.f, v, g)
    <3>1. CASE z.ok
      BY <2>2, <2>3, <2>4, <3>1 DEF Positioned, OnItsWay
    <3>2. CASE ~z.ok
      BY <2>2, <2>3, <2>4, <3>2 DEF Positioned, OnItsWay
    <3> QED BY <3>1, <3>2
  <2>8. z.f.size = a.f.size
    BY <1>4 DEF Elsewhere
  <2> QED BY <1>4, <2>2, <2>5, <2>6, <2>7, <2>8 DEF HasPassed
<1> QED BY <1>1, <1>5, <1>6 DEF Handles

-----------------------------------------------------------------------------
\* An entry is placed in the file

\* One entry after the other.
PassingTo(a, new, k, run) ==
  run = [n \in 0 .. k |-> IF n = 0 THEN [at |-> a, own |-> FALSE, spare |-> -1]
                          ELSE Passed(run[n - 1], new)]

LEMMA PassingExists ==
  ASSUME NEW a, NEW new
  PROVE  \A k \in Nat : \E run : PassingTo(a, new, k, run)
<1> DEFINE S == {k \in Nat : ~\E run : PassingTo(a, new, k, run)}
<1>1. CASE S = {}
  BY <1>1
<1>2. CASE S # {}
  <2>1. PICK k \in S : \A j \in S : k <= j
    BY <1>2, LeastNumber
  <2>2. CASE k = 0
    <3> DEFINE run == [n \in 0 .. 0 |-> [at |-> a, own |-> FALSE, spare |-> -1]]
    <3>1. PassingTo(a, new, 0, run)
      BY DEF PassingTo
    <3> QED BY <2>1, <2>2, <3>1
  <2>3. CASE k # 0
    <3>1. k - 1 \in Nat /\ k - 1 \notin S
      BY <2>1, <2>3
    <3>2. PICK run : PassingTo(a, new, k - 1, run)
      BY <3>1
    <3> DEFINE on == [n \in 0 .. k |-> IF n = k THEN Passed(run[n - 1], new) ELSE run[n]]
    <3>3. \A n \in 0 .. k - 1 : /\ on[n] = run[n]
                                /\ run[n] = IF n = 0 THEN [at |-> a, own |-> FALSE, spare |-> -1]
                                            ELSE Passed(run[n - 1], new)
      <4>1. \A n \in 0 .. k - 1 : n \in 0 .. k /\ n # k
        BY <2>1
      <4>2. \A n \in 0 .. k - 1 : run[n] = IF n = 0 THEN [at |-> a, own |-> FALSE, spare |-> -1]
                                           ELSE Passed(run[n - 1], new)
        BY <3>2, Zenon DEF PassingTo
      <4> QED BY <4>1, <4>2, Zenon
    <3>4. \A n \in 0 .. k : on[n] = IF n = 0 THEN [at |-> a, own |-> FALSE, spare |-> -1]
                                     ELSE Passed(on[n - 1], new)
      <4> SUFFICES ASSUME NEW n \in 0 .. k
                   PROVE  on[n] = IF n = 0 THEN [at |-> a, own |-> FALSE, spare |-> -1] ELSE Passed(on[n - 1], new)
        OBVIOUS
      <4> HIDE DEF on
      <4>1. CASE n = k
        <5>1. on[k] = Passed(run[k - 1], new) /\ k - 1 \in 0 .. k - 1
          BY <2>1, <2>3 DEF on
        <5> QED BY <2>3, <3>3, <4>1, <5>1
      <4>2. CASE n # k
        <5>1. n \in 0 .. k - 1 /\ (n # 0 => n - 1 \in 0 .. k - 1)
          BY <2>1, <4>2
        <5> QED BY <3>3, <5>1
      <4> QED BY <4>1, <4>2
    <3>5. PassingTo(a, new, k, on)
      <4>1. on = [n \in 0 .. k |-> on[n]]
        OBVIOUS
      <4> HIDE DEF on
      <4> QED BY <3>4, <4>1, Zenon DEF PassingTo
    <3> QED BY <2>1, <3>5
  <2> QED BY <2>2, <2>3
<1> QED BY <1>1, <1>2

PassingRun(a, new, k, run) ==
  /\ run[0] = [at |-> a, own |-> FALSE, spare |-> -1]
  /\ \A n \in 1 .. k : run[n] = Passed(run[n - 1], new)

LEMMA PassingRuns ==
  ASSUME NEW a, NEW new, NEW k \in Nat, NEW run, PassingTo(a, new, k, run)
  PROVE  PassingRun(a, new, k, run)
<1>1. \A n \in 0 .. k : run[n] = IF n = 0 THEN [at |-> a, own |-> FALSE, spare |-> -1]
                                 ELSE Passed(run[n - 1], new)
  BY Zenon DEF PassingTo
<1>2. 0 \in 0 .. k /\ \A n \in 1 .. k : n \in 0 .. k /\ n # 0
  OBVIOUS
<1> QED BY <1>1, <1>2, Zenon DEF PassingRun

\* What set() writes once it has passed the entries.
Settling(s, new) ==
  IF s.own
  THEN IF s.at.unit = new THEN s.at ELSE Write(Ignore(SeekSet(s.at, "f", s.at.f.pos - 1)), new)
  ELSE Write(IF s.spare >= 0 THEN Ignore(SeekSet(s.at, "f", s.spare)) ELSE s.at, new)

LEMMA PassingIs ==
  ASSUME NEW a, NEW new, NEW last \in Nat, last = Tries(a)
  PROVE  \E run : PassingRun(a, new, last, run) /\ PlaceCard(a, new) = Settling(run[last], new)
<1> DEFINE run == CHOOSE run : PassingTo(a, new, last, run)
<1>1. PassingTo(a, new, last, run)
  BY PassingExists
<1>2. PlaceCard(a, new) = Settling(run[last], new)
  BY DEF PlaceCard, PassingTo, Settling
<1> HIDE DEF run
<1>3. PassingRun(a, new, last, run)
  BY <1>1, PassingRuns
<1> QED BY <1>2, <1>3, Zenon

\* An entry before the position is written again.
LEMMA RewriteDoes ==
  ASSUME NEW a, NEW v, NEW from, NEW purged, NEW g, Fit(a, v, from, purged, g), a.ok, ~a.dirty,
         NEW s, Holding(a.f, Dir(a), v, g, s), NEW pos \in Nat, pos < a.f.pos,
         NEW new, NEW z, z = Write(Ignore(SeekSet(a, "f", pos)), new)
  PROVE  HasWritten(a, z, v, from, purged, s)
<1>1. PICK q, x : q = SeekSet(a, "f", pos) /\ x = [q EXCEPT !.ok = TRUE]
  OBVIOUS
<1>2. z = Write(x, new)
  BY <1>1 DEF Ignore
<1>3. pos \in Int /\ pos >= 0
  OBVIOUS
<1>4. HasSought(a, q, pos, v, from, purged, g, s)
  BY <1>1, <1>3, SeekSetDoes
<1>5. /\ Moved(a, q, v, from, purged) /\ q.d = a.d /\ Holding(q.f, Dir(q), v, g, s)
      /\ q.f.pos = pos /\ Elsewhere(a.f, q.f)
  BY <1>3, <1>4 DEF HasSought
<1>6. Fit(q, v, from, purged, g) /\ Dir(q) = Dir(a) /\ (a.left = 0 => q.left = 0)
  BY <1>5, FitMoved DEF Moved, SameView
<1>7. /\ Fit(x, v, from, purged, g) /\ x.f = q.f /\ x.d = q.d /\ x.ok /\ x.left = q.left
      /\ Dir(x) = Dir(q)
  BY <1>1, <1>6, IgnoredIs
<1>8. Holding(x.f, Dir(x), v, g, s)
  BY <1>5, <1>7
<1>9. Roomy(x.f, v, g)
  <2>1. a.f.pos <= a.f.size /\ a.f.pos \in Nat /\ a.f.size \in Nat
    BY DEF Holding, Handles
  <2>2. x.f.pos = pos /\ x.f.size = a.f.size
    BY <1>5, <1>7 DEF Elsewhere
  <2> QED BY <2>1, <2>2 DEF Roomy
<1>10. HasWritten(x, z, v, from, purged, s)
  BY <1>2, <1>7, <1>8, <1>9, WriteDoes
<1> QED BY <1>5, <1>6, <1>7, <1>10 DEF HasWritten

\* The entries up to the position have been passed.
Passing(r, a, v, from, purged, g, s) ==
  /\ r = [at |-> r.at, own |-> r.own, spare |-> r.spare]
  /\ Moved(a, r.at, v, from, purged) /\ r.at.d = a.d /\ r.at.ok /\ Safe(r.at)
  /\ Holding(r.at.f, Dir(r.at), v, g, s) /\ Positioned(r.at.f, v, g)
  /\ r.own => ~r.at.dirty /\ r.at.f.pos # 0
  /\ r.spare # -1 => r.spare \in Nat /\ r.spare < r.at.f.pos /\ ~r.at.dirty

LEMMA PassedKeeps ==
  ASSUME NEW a, NEW v, NEW from, NEW purged, NEW g, Fit(a, v, from, purged, g),
         NEW s, NEW r, Passing(r, a, v, from, purged, g, s), NEW new,
         NEW z, z = Passed(r, new)
  PROVE  Passing(z, a, v, from, purged, g, s)
<1>1. PICK w, y : w = r.at /\ y = Read(w, "f")
  OBVIOUS
<1>2. CASE r.own \/ Available(w) = 0
  <2>1. z = r
    BY <1>1, <1>2 DEF Passed
  <2> QED BY <2>1
<1>3. CASE ~r.own /\ Available(w) # 0
  <2>1. /\ Moved(a, w, v, from, purged) /\ w.d = a.d /\ w.ok /\ Safe(w)
        /\ Holding(w.f, Dir(w), v, g, s) /\ Positioned(w.f, v, g)
        /\ r = [at |-> r.at, own |-> r.own, spare |-> r.spare]
    BY <1>1 DEF Passing
  <2>2. /\ Fit(w, v, from, purged, g) /\ w.vol = v /\ Layout16(v) /\ w.f.pos \in Nat
        /\ w.f.size \in Nat /\ w.f.pos <= w.f.size
    BY <2>1, FitMoved DEF Fit, Steady, Holding, Handles
  <2>3. w.f.pos < w.f.size
    BY <1>3, <2>2 DEF Available
  <2>4. HasPassed(w, y, v, from, purged, g, s)
    BY <1>1, <2>1, <2>2, <2>3, HoldingReadDoes
  <2>5. /\ Moved(w, y, v, from, purged) /\ StillDirty(w, y) /\ y.d = w.d
        /\ Holding(y.f, Dir(y), v, g, s) /\ Positioned(y.f, v, g)
        /\ y.f.pos = (IF y.ok THEN w.f.pos + 1 ELSE w.f.pos)
        /\ y.ok => y.blk \in Data(v)
    BY <2>1, <2>4 DEF HasPassed
  <2>6. Moved(a, y, v, from, purged) /\ Fit(y, v, from, purged, g) /\ y.vol = v
    BY <2>1, <2>2, <2>5, MovedOn, FitMoved DEF Moved, Steady
  <2>7. Safe(y) /\ (y.dirty => w.dirty)
    BY <2>1, <2>2, <2>5, <2>6 DEF Safe, StillDirty
  <2>8. y.ok => ~y.dirty
    BY <2>2, <2>5, <2>6, <2>7, PartsApart DEF Safe
  <2>9. CASE ~y.ok
    <3>1. PICK x : x = [y EXCEPT !.ok = TRUE]
      OBVIOUS
    <3>2. z = [r EXCEPT !.at = x]
      BY <1>1, <1>3, <2>9, <3>1 DEF Passed, Ignore
    <3>3. z.at = x /\ z.own = r.own /\ z.spare = r.spare
          /\ z = [at |-> z.at, own |-> z.own, spare |-> z.spare]
      BY <2>1, <3>2
    <3>4. /\ Fit(x, v, from, purged, g) /\ x.f = y.f /\ x.d = y.d /\ x.ok /\ x.left = y.left
          /\ Dir(x) = Dir(y) /\ Safe(x)
      BY <2>6, <2>7, <3>1, IgnoredIs
    <3>5. IsMachine(y)
      BY <2>6 DEF Fit, Steady
    <3>6. OneCard(y, x) /\ x.ok = TRUE
      BY <3>1, <3>5 DEF IsMachine, MachineFields, OneCard
    <3>7. Moved(y, x, v, from, purged)
      BY <2>6, <3>6, SameCardMoved DEF Fit
    <3>8. Moved(a, x, v, from, purged)
      BY <2>6, <3>7, MovedOn
    <3>9. x.f.pos = w.f.pos /\ (x.dirty => w.dirty)
      BY <2>5, <2>7, <2>9, <3>4, <3>6 DEF OneCard
    <3>10. /\ ~z.own
           /\ z.spare # -1 => z.spare \in Nat /\ z.spare < w.f.pos /\ ~w.dirty
      BY <1>1, <1>3, <3>3 DEF Passing
    <3> QED BY <2>1, <2>5, <3>3, <3>4, <3>8, <3>9, <3>10 DEF Passing
  <2>10. CASE y.ok
    <3>1. PICK mine : mine = (~y.unit.invalid /\ y.unit.uid = new.uid)
      OBVIOUS
    <3>2. PICK free : free = IF y.unit.invalid /\ r.spare = -1 THEN y.f.pos - 1 ELSE r.spare
      OBVIOUS
    <3>3. z = [at |-> y, own |-> mine, spare |-> free]
      BY <1>1, <1>3, <2>10, <3>1, <3>2 DEF Passed
    <3>4. z.at = y /\ z.spare = free /\ z = [at |-> z.at, own |-> z.own, spare |-> z.spare]
      BY <3>3
    <3>5. y.f.pos = w.f.pos + 1 /\ ~y.dirty
      BY <2>5, <2>8, <2>10
    <3>6. r.spare # -1 => r.spare \in Nat /\ r.spare < w.f.pos
      BY <1>1 DEF Passing
    <3>7. free # -1 => free \in Nat /\ free < y.f.pos
      BY <2>2, <3>2, <3>5, <3>6
    <3>8. y.f.pos # 0
      BY <2>2, <3>5
    <3> QED BY <2>1, <2>5, <2>6, <2>7, <2>10, <3>4, <3>5, <3>7, <3>8 DEF Passing
  <2> QED BY <2>9, <2>10
<1> QED BY <1>2, <1>3

\* The entry of a card is placed in the file.
LEMMA PlaceCardDoes ==
  ASSUME NEW a, NEW v, NEW from, NEW purged, NEW g, Fit(a, v, from, purged, g), a.ok, Safe(a),
         NEW s, Holding(a.f, Dir(a), v, g, s), Positioned(a.f, v, g),
         NEW new, NEW z, z = PlaceCard(a, new)
  PROVE  HasWritten(a, z, v, from, purged, s)
<1>1. /\ Steady(a, v, from, purged) /\ IsMachine(a) /\ a.f.pos \in Nat /\ a.f.size \in Nat
      /\ a.f.pos <= a.f.size /\ IsOpen(a.f) /\ a.ok \in BOOLEAN
  BY DEF Fit, Steady, Holding, Handles, IsOpen
<1>2. PICK last \in Nat : last = Tries(a)
  <2>1. Tries(a) \in Nat
    BY <1>1 DEF Tries, Available
  <2> QED BY <2>1
<1>3. PICK run : PassingRun(a, new, last, run) /\ PlaceCard(a, new) = Settling(run[last], new)
  BY <1>2, PassingIs
<1> DEFINE S == {n \in 0 .. last : Passing(run[n], a, v, from, purged, g, s)}
<1>4. 0 \in S
  <2>1. run[0] = [at |-> a, own |-> FALSE, spare |-> -1]
    BY <1>3 DEF PassingRun
  <2>2. /\ run[0].at = a /\ run[0].own = FALSE /\ run[0].spare = -1
        /\ run[0] = [at |-> run[0].at, own |-> run[0].own, spare |-> run[0].spare]
    BY <2>1
  <2>3. OneCard(a, a)
    BY <1>1 DEF OneCard
  <2>4. Moved(a, a, v, from, purged)
    BY <1>1, <2>3, SameCardMoved
  <2>5. Passing(run[0], a, v, from, purged, g, s)
    BY <2>2, <2>4 DEF Passing
  <2> QED BY <2>5
<1>5. \A n \in 1 .. last : n - 1 \in S => n \in S
  <2> SUFFICES ASSUME NEW n \in 1 .. last, n - 1 \in S
               PROVE  n \in S
    OBVIOUS
  <2>1. PICK r : r = run[n - 1]
    OBVIOUS
  <2>2. run[n] = Passed(r, new) /\ n \in 0 .. last
    BY <1>3, <2>1 DEF PassingRun
  <2>3. Passing(r, a, v, from, purged, g, s)
    BY <2>1
  <2>4. Passing(run[n], a, v, from, purged, g, s)
    BY <2>2, <2>3, PassedKeeps
  <2> QED BY <2>2, <2>4
<1> HIDE DEF S
<1>6. last \in S
  BY <1>4, <1>5, Upwards
<1>7. PICK r, w : r = run[last] /\ w = r.at
  OBVIOUS
<1>8. Passing(r, a, v, from, purged, g, s)
  BY <1>6, <1>7 DEF S
<1>9. /\ Moved(a, w, v, from, purged) /\ w.d = a.d /\ w.ok /\ Safe(w)
      /\ Holding(w.f, Dir(w), v, g, s) /\ Positioned(w.f, v, g)
      /\ r.own => ~w.dirty /\ w.f.pos # 0
      /\ r.spare # -1 => r.spare \in Nat /\ r.spare < w.f.pos /\ ~w.dirty
  BY <1>7, <1>8 DEF Passing
<1>10. Fit(w, v, from, purged, g) /\ Dir(w) = Dir(a) /\ (a.left = 0 => w.left = 0)
  BY <1>9, FitMoved DEF Moved, SameView
<1>11. z = Settling(r, new)
  BY <1>3, <1>7
<1>12. HasWritten(w, z, v, from, purged, s)
  <2>1. CASE r.own /\ w.unit = new
    <3>1. z = w
      BY <1>7, <1>11, <2>1 DEF Settling
    <3> QED BY <1>9, <1>10, <3>1 DEF HasWritten
  <2>2. CASE r.own /\ w.unit # new
    <3>1. PICK pos \in Nat : pos = w.f.pos - 1 /\ pos < w.f.pos
      <4>1. w.f.pos \in Nat
        BY <1>9 DEF Holding, Handles
      <4>2. w.f.pos # 0
        BY <1>9, <2>2
      <4>3. w.f.pos - 1 \in Nat /\ w.f.pos - 1 < w.f.pos
        BY <4>1, <4>2
      <4> QED BY <4>3
    <3>2. z = Write(Ignore(SeekSet(w, "f", pos)), new)
      BY <1>7, <1>11, <2>2, <3>1 DEF Settling
    <3>3. ~w.dirty
      BY <1>9, <2>2
    <3> QED BY <1>9, <1>10, <3>1, <3>2, <3>3, RewriteDoes
  <2>3. CASE ~r.own /\ r.spare # -1
    <3>1. PICK pos \in Nat : pos = r.spare /\ pos < w.f.pos
      BY <1>9, <2>3
    <3>2. r.spare >= 0
      BY <3>1
    <3>3. z = Write(Ignore(SeekSet(w, "f", pos)), new)
      BY <1>7, <1>11, <2>3, <3>1, <3>2 DEF Settling
    <3>4. ~w.dirty
      BY <1>9, <2>3
    <3> QED BY <1>9, <1>10, <3>1, <3>3, <3>4, RewriteDoes
  <2>4. CASE ~r.own /\ r.spare = -1
    <3>1. ~(r.spare >= 0)
      BY <2>4
    <3>2. z = Write(w, new)
      BY <1>7, <1>11, <2>4, <3>1 DEF Settling
    <3>3. Roomy(w.f, v, g)
      BY <1>9 DEF Roomy
    <3> QED BY <1>9, <1>10, <3>2, <3>3, WriteDoes
  <2> QED BY <2>1, <2>2, <2>3, <2>4
<1> QED BY <1>9, <1>10, <1>12 DEF HasWritten

\* The file that a call leaves is closed: its handle, if it is open, holds it.
Closable(a, z, v, from, purged) ==
  /\ (a.left = 0 => z.left = 0) /\ RootHand(z.d, v)
  /\ \E g : /\ Fit(z, v, from, purged, g) /\ z.f \in Handles
            /\ IsOpen(z.f) => Due(z.f, Dir(z), v, g)

LEMMA WrittenCloses ==
  ASSUME NEW a, NEW v, NEW from, NEW purged, NEW s, NEW z, HasWritten(a, z, v, from, purged, s),
         RootHand(a.d, v)
  PROVE  Closable(a, z, v, from, purged)
<1>1. PICK w : Fit(z, v, from, purged, w) /\ Holding(z.f, Dir(z), v, w, s)
  BY DEF HasWritten
<1>2. Due(z.f, Dir(z), v, w)
  BY <1>1, FitGood, HoldingDue
<1>3. z.f \in Handles
  BY <1>1 DEF Holding
<1> QED BY <1>1, <1>2, <1>3 DEF Closable, HasWritten

LEMMA ClosableRests ==
  ASSUME NEW a, NEW y, NEW v, NEW from, NEW purged, Closable(a, y, v, from, purged),
         NEW x, x = FileClose(Ignore(y)), NEW val, NEW z, z = [x EXCEPT !.val = val]
  PROVE  Rested(a, z, v, from, purged)
<1>1. PICK g : /\ Fit(y, v, from, purged, g) /\ y.f \in Handles
               /\ IsOpen(y.f) => Due(y.f, Dir(y), v, g)
  BY DEF Closable
<1>2. PICK q : q = [y EXCEPT !.ok = TRUE]
  OBVIOUS
<1>3. x = FileClose(q)
  BY <1>2 DEF Ignore
<1>4. /\ Fit(q, v, from, purged, g) /\ q.f = y.f /\ q.d = y.d /\ q.ok /\ q.left = y.left
      /\ Dir(q) = Dir(y)
  BY <1>1, <1>2, IgnoredIs
<1>5. Shutting(q, x, v, from, purged, g)
  BY <1>1, <1>3, <1>4, FileCloseDoes
<1>6. Fit(x, v, from, purged, g) /\ (q.left = 0 => x.left = 0) /\ x.d = q.d
      /\ x.f \in Handles /\ x.f.type = "closed" /\ IsMachine(x) /\ Steady(x, v, from, purged)
  BY <1>5 DEF Shutting, Fit, Steady
<1>7. OneCard(x, z) /\ z.ok = x.ok /\ z.f = x.f /\ z.d = x.d
  BY <1>6 DEF IsMachine, MachineFields, OneCard
<1>8. Moved(x, z, v, from, purged)
  BY <1>6, <1>7, SameCardMoved DEF Steady
<1>9. Fit(z, v, from, purged, g) /\ (x.left = 0 => z.left = 0)
  BY <1>6, <1>8, FitMoved DEF Moved
<1> QED BY <1>4, <1>6, <1>7, <1>9 DEF Closable, Rested, Shut

\* The file has been opened for writing and the position is its beginning,
\* or the handle is an empty one.
AtStart(a, z, v, from, purged, g) ==
  /\ Fit(z, v, from, purged, g) /\ (a.left = 0 => z.left = 0) /\ RootHand(z.d, v)
  /\ z.ok /\ z.f \in Handles /\ z.f.pos <= z.f.size
  /\ IsOpen(z.f) => Safe(z) /\ \E s : Holding(z.f, Dir(z), v, g, s) /\ Positioned(z.f, v, g)

LEMMA CacheOpened ==
  ASSUME NEW a, NEW v, NEW from, NEW purged, NEW g, Fit(a, v, from, purged, g), Shut(a, v),
         NEW z, z = Ignore(SeekSet(SdOpen(a, "CACHE", {"read", "write", "creat"}), "f", 0))
  PROVE  AtStart(a, z, v, from, purged, g)
<1>1. PICK flags : flags = {"read", "write", "creat"}
  OBVIOUS
<1>2. PICK o : o = SdOpen(a, "CACHE", flags)
  OBVIOUS
<1>3. PICK zero \in Int : zero = 0
  OBVIOUS
<1>4. PICK q : q = SeekSet(o, "f", zero)
  OBVIOUS
<1>5. z = [q EXCEPT !.ok = TRUE]
  BY <1>1, <1>2, <1>3, <1>4 DEF Ignore
<1>6. Opened(a, o, flags, v, from, purged, g)
  <2>1. "trunc" \notin flags
    BY <1>1
  <2> QED BY <1>2, <2>1, CacheIsName, SdOpenDoes
<1>7. /\ Fit(o, v, from, purged, g) /\ (a.left = 0 => o.left = 0) /\ RootHand(o.d, v)
      /\ o.f \in Handles /\ o.f.pos <= o.f.size /\ o.ok
      /\ IsOpen(o.f) => Safe(o) /\ \E s : Holding(o.f, Dir(o), v, g, s)
  <2>1. "write" \in flags
    BY <1>1
  <2> QED BY <1>6, <2>1 DEF Opened
<1>8. Steady(o, v, from, purged) /\ IsMachine(o) /\ o.vol = v /\ Layout16(v)
      /\ Chains(Tab(o), Dir(o), v, g, {})
  BY <1>7 DEF Fit, Steady
<1>9. CASE ~IsOpen(o.f)
  <2>1. q = [o EXCEPT !.ok = FALSE]
    BY <1>4, <1>9 DEF SeekSet, Fail
  <2>2. OneCard(o, z) /\ z.ok = TRUE /\ z.f = o.f /\ z.d = o.d
    BY <1>5, <1>8, <2>1 DEF IsMachine, MachineFields, OneCard
  <2>3. Moved(o, z, v, from, purged)
    BY <1>8, <2>2, SameCardMoved
  <2>4. Fit(z, v, from, purged, g) /\ (o.left = 0 => z.left = 0)
    BY <1>7, <2>3, FitMoved DEF Moved
  <2> QED BY <1>7, <1>9, <2>2, <2>4 DEF AtStart
<1>10. CASE IsOpen(o.f)
  <2>1. PICK s : Holding(o.f, Dir(o), v, g, s)
    BY <1>7, <1>10
  <2>2. HasSought(o, q, zero, v, from, purged, g, s)
    BY <1>4, <1>7, <2>1, SeekSetDoes
  <2>3. /\ Moved(o, q, v, from, purged) /\ StillDirty(o, q) /\ q.d = o.d
        /\ Holding(q.f, Dir(q), v, g, s) /\ q.f.cur = 0
    BY <1>3, <2>2 DEF HasSought
  <2>4. Fit(q, v, from, purged, g) /\ (o.left = 0 => q.left = 0) /\ q.vol = v
    BY <1>7, <1>8, <2>3, FitMoved DEF Moved
  <2>5. Safe(q)
    BY <1>7, <1>8, <1>10, <2>3, <2>4 DEF Safe, StillDirty
  <2>6. /\ Fit(z, v, from, purged, g) /\ z.f = q.f /\ z.d = q.d /\ z.ok /\ z.left = q.left
        /\ Dir(z) = Dir(q) /\ Safe(z)
    BY <1>5, <2>4, <2>5, IgnoredIs
  <2>7. Positioned(z.f, v, g)
    <3>1. 0 \notin g.has
      BY <1>8 DEF Chains, ClustersOf
    <3> QED BY <2>3, <2>6, <3>1 DEF Positioned
  <2> QED BY <1>7, <2>3, <2>4, <2>6, <2>7 DEF AtStart, Holding
<1> QED BY <1>9, <1>10

LEMMA NothingPlaced ==
  ASSUME NEW a, NEW new, ~IsOpen(a.f)
  PROVE  PlaceCard(a, new) = [a EXCEPT !.ok = FALSE]
<1>1. PICK one \in Nat : one = 1
  OBVIOUS
<1>2. Tries(a) = one
  BY <1>1 DEF Tries, Available
<1>3. PICK run : PassingRun(a, new, one, run) /\ PlaceCard(a, new) = Settling(run[one], new)
  BY <1>2, PassingIs
<1>4. run[0] = [at |-> a, own |-> FALSE, spare |-> -1]
  BY <1>3 DEF PassingRun
<1>5. run[1] = Passed(run[0], new)
  BY <1>1, <1>3 DEF PassingRun
<1>6. run[1] = run[0]
  <2>1. run[0].at = a
    BY <1>4
  <2>2. Available(run[0].at) = 0
    BY <2>1 DEF Available
  <2> QED BY <1>5, <2>2 DEF Passed
<1>7. Settling(run[0], new) = Write(a, new)
  BY <1>4 DEF Settling
<1>8. Write(a, new) = [a EXCEPT !.ok = FALSE]
  BY DEF Write, Fail, IsFile, IsOpen
<1> QED BY <1>1, <1>3, <1>6, <1>7, <1>8

\* set(): whatever comes of it, the volume stays sound.
LEMMA SetCardDoes ==
  ASSUME NEW a, NEW v, NEW from, NEW purged, NEW g, Fit(a, v, from, purged, g), Shut(a, v),
         NEW new, NEW z, z = SetCard(a, new)
  PROVE  Rested(a, z, v, from, purged)
<1>1. PICK q, p, x, val :
        /\ q = Ignore(SeekSet(SdOpen(a, "CACHE", {"read", "write", "creat"}), "f", 0))
        /\ p = PlaceCard(q, new) /\ x = FileClose(Ignore(p)) /\ val = p.ok
  OBVIOUS
<1>2. z = [x EXCEPT !.val = val]
  BY <1>1 DEF SetCard, SetDone
<1>3. AtStart(a, q, v, from, purged, g)
  BY <1>1, CacheOpened
<1>4. /\ Fit(q, v, from, purged, g) /\ (a.left = 0 => q.left = 0) /\ RootHand(q.d, v)
      /\ q.ok /\ q.f \in Handles
      /\ IsOpen(q.f) => Safe(q) /\ \E s : Holding(q.f, Dir(q), v, g, s) /\ Positioned(q.f, v, g)
  BY <1>3 DEF AtStart
<1>5. Closable(q, p, v, from, purged)
  <2>1. CASE IsOpen(q.f)
    <3>1. PICK s : Holding(q.f, Dir(q), v, g, s) /\ Positioned(q.f, v, g)
      BY <1>4, <2>1
    <3>2. HasWritten(q, p, v, from, purged, s)
      BY <1>1, <1>4, <2>1, <3>1, PlaceCardDoes
    <3> QED BY <1>4, <3>2, WrittenCloses
  <2>2. CASE ~IsOpen(q.f)
    <3>1. p = [q EXCEPT !.ok = FALSE]
      BY <1>1, <2>2, NothingPlaced
    <3>2. Steady(q, v, from, purged) /\ IsMachine(q)
      BY <1>4 DEF Fit, Steady
    <3>3. OneCard(q, p) /\ p.ok = FALSE /\ p.f = q.f /\ p.d = q.d
      BY <3>1, <3>2 DEF IsMachine, MachineFields, OneCard
    <3>4. Moved(q, p, v, from, purged)
      BY <3>2, <3>3, SameCardMoved
    <3>5. Fit(p, v, from, purged, g) /\ (q.left = 0 => p.left = 0)
      BY <1>4, <3>4, FitMoved DEF Moved
    <3> QED BY <1>4, <2>2, <3>3, <3>5 DEF Closable
  <2> QED BY <2>1, <2>2
<1>6. Rested(q, z, v, from, purged)
  BY <1>1, <1>2, <1>5, ClosableRests
<1> QED BY <1>4, <1>6 DEF Rested

-----------------------------------------------------------------------------
\* An entry is verified
\* The file stays open, and its handle holds it.
Verifying(a, z, v, from, purged) ==
  /\ (a.left = 0 => z.left = 0) /\ z.d = a.d
  /\ \E g, s : Fit(z, v, from, purged, g) /\ Holding(z.f, Dir(z), v, g, s)

\* Nothing that matters to the volume changes.
OnlySays(a, z) == OneCard(a, z) /\ z.f = a.f /\ z.d = a.d /\ z.ok \in BOOLEAN

LEMMA SaidVerifies ==
  ASSUME NEW a, NEW y, NEW z, NEW v, NEW from, NEW purged, Verifying(a, y, v, from, purged),
         OnlySays(y, z)
  PROVE  Verifying(a, z, v, from, purged)
<1>1. PICK g, s : Fit(y, v, from, purged, g) /\ Holding(y.f, Dir(y), v, g, s)
  BY DEF Verifying
<1>2. Moved(y, z, v, from, purged)
  BY <1>1, SameCardMoved DEF OnlySays, Fit
<1>3. Fit(z, v, from, purged, g) /\ Dir(z) = Dir(y) /\ (y.left = 0 => z.left = 0)
  BY <1>1, <1>2, FitMoved DEF Moved, SameView
<1> QED BY <1>1, <1>3 DEF Verifying, OnlySays

\* The entry before the position is written again.
LEMMA RecordRewritten ==
  ASSUME NEW w, NEW v, NEW from, NEW purged, NEW g, Fit(w, v, from, purged, g), NEW s,
         w.f.pos < w.f.size, NEW r, HasPassed(w, r, v, from, purged, g, s),
         NEW new, NEW z, z = Ignore(Write(Ignore(SeekSet(Ignore(r), "f", r.f.pos - 1)), new)),
         w.f \in Handles
  PROVE  Verifying(w, z, v, from, purged)
<1>1. /\ Moved(w, r, v, from, purged) /\ r.d = w.d /\ Holding(r.f, Dir(r), v, g, s)
      /\ r.f.size = w.f.size /\ r.f.pos = (IF r.ok THEN w.f.pos + 1 ELSE w.f.pos)
  BY DEF HasPassed
<1>2. Fit(r, v, from, purged, g) /\ (w.left = 0 => r.left = 0) /\ r.f \in Handles
  BY <1>1, FitMoved DEF Moved, Holding
<1>3. PICK pos \in Int : pos = r.f.pos - 1
  BY <1>2 DEF Handles
<1>4. PICK q0, q, q1, y : /\ q0 = [r EXCEPT !.ok = TRUE] /\ q = SeekSet(q0, "f", pos)
                          /\ q1 = [q EXCEPT !.ok = TRUE] /\ y = Write(q1, new)
  OBVIOUS
<1>5. z = [y EXCEPT !.ok = TRUE]
  BY <1>3, <1>4 DEF Ignore
<1>6. /\ Fit(q0, v, from, purged, g) /\ q0.f = r.f /\ q0.d = r.d /\ q0.ok /\ q0.left = r.left
      /\ Dir(q0) = Dir(r)
  BY <1>2, <1>4, IgnoredIs
<1>7. Holding(q0.f, Dir(q0), v, g, s)
  BY <1>1, <1>6
<1>8. HasSought(q0, q, pos, v, from, purged, g, s)
  BY <1>4, <1>6, <1>7, SeekSetDoes
<1>9. /\ Moved(q0, q, v, from, purged) /\ q.d = q0.d /\ Elsewhere(q0.f, q.f)
      /\ q.f.pos \in {q0.f.pos, pos} /\ Holding(q.f, Dir(q), v, g, s)
      /\ q0.ok /\ pos >= 0 /\ pos = q0.f.pos - 1 /\ Begins(q0.f, v) => q.f.pos = pos
  BY <1>8 DEF HasSought
<1>10. Fit(q, v, from, purged, g) /\ (q0.left = 0 => q.left = 0)
  BY <1>6, <1>9, FitMoved DEF Moved
<1>11. /\ Fit(q1, v, from, purged, g) /\ q1.f = q.f /\ q1.d = q.d /\ q1.ok /\ q1.left = q.left
       /\ Dir(q1) = Dir(q)
  <2>1. q1 = [q EXCEPT !.ok = TRUE]
    BY <1>4
  <2> QED BY <1>10, <2>1, IgnoredIs
<1>12. Roomy(q1.f, v, g)
  <2>1. w.f.pos \in Nat /\ w.f.size \in Nat /\ q.f.pos \in Nat /\ q.f.size = w.f.size
    BY <1>1, <1>6, <1>9 DEF Handles, Elsewhere
  <2>2. CASE r.ok
    <3>1. pos = w.f.pos /\ pos >= 0 /\ pos = q0.f.pos - 1
      BY <1>1, <1>3, <1>6, <2>1, <2>2
    <3>2. CASE q.f.pos = pos
      BY <1>11, <2>1, <3>1, <3>2 DEF Roomy
    <3>3. CASE q.f.pos # pos
      <4>1. ~Begins(q0.f, v) /\ q.f.pos = q0.f.pos
        BY <1>6, <1>9, <3>1, <3>3
      <4>2. ~Begins(q1.f, v)
        BY <1>11, <4>1 DEF Begins
      <4> QED BY <4>2 DEF Roomy
    <3> QED BY <3>2, <3>3
  <2>3. CASE ~r.ok
    <3>1. q0.f.pos = w.f.pos /\ pos = w.f.pos - 1
      BY <1>1, <1>3, <1>6, <2>3
    <3>2. q.f.pos < q.f.size
      BY <1>9, <2>1, <3>1
    <3> QED BY <1>11, <3>2 DEF Roomy
  <2> QED BY <2>2, <2>3
<1>13. HasWritten(q1, y, v, from, purged, s)
  <2>1. Holding(q1.f, Dir(q1), v, g, s)
    BY <1>9, <1>11
  <2> QED BY <1>4, <1>11, <1>12, <2>1, WriteDoes
<1>14. PICK k : Fit(y, v, from, purged, k) /\ Holding(y.f, Dir(y), v, k, s)
  BY <1>13 DEF HasWritten
<1>15. y.d = q1.d /\ (q1.left = 0 => y.left = 0)
  BY <1>13 DEF HasWritten
<1>16. Fit(z, v, from, purged, k) /\ z.f = y.f /\ z.d = y.d /\ z.left = y.left /\ Dir(z) = Dir(y)
  BY <1>5, <1>14, IgnoredIs
<1> QED BY <1>1, <1>2, <1>6, <1>9, <1>10, <1>11, <1>14, <1>15, <1>16 DEF Verifying

\* What verify() leaves of an entry that it has read.
Answered(r, x, new, z, said, u) ==
  /\ x = Ignore(Write(Ignore(SeekSet(Ignore(r), "f", r.f.pos - 1)), new))
  /\ z = [IF said THEN Ignore(r) ELSE x EXCEPT !.unit = u]

\* verify(), one entry: the volume stays sound.
LEMMA VerifyRecordDoes ==
  ASSUME NEW w, NEW v, NEW from, NEW purged, NEW g, Fit(w, v, from, purged, g), NEW s,
         Holding(w.f, Dir(w), v, g, s), w.f.pos < w.f.size,
         NEW answer, NEW z, z = VerifyRecord(w, answer)
  PROVE  Verifying(w, z, v, from, purged)
<1>1. PICK r : r = Read(w, "f")
  OBVIOUS
<1>2. PICK x, u, new, said : Answered(r, x, new, z, said, u)
  <2> DEFINE u0 == IF r.ok THEN r.unit ELSE w.unit
             n0 == CASE answer = 0 -> [u0 EXCEPT !.invalid = TRUE]
                     [] answer = 2 -> [u0 EXCEPT !.maintainer = TRUE]
                     [] answer = 1 -> [u0 EXCEPT !.maintainer = FALSE]
                     [] OTHER -> u0
             x0 == Ignore(Write(Ignore(SeekSet(Ignore(r), "f", r.f.pos - 1)), n0))
             s0 == u0.invalid \/ n0 = u0
  <2>1. z = [IF s0 THEN Ignore(r) ELSE x0 EXCEPT !.unit = IF u0.invalid THEN u0 ELSE n0]
    BY <1>1 DEF VerifyRecord
  <2>2. x0 = Ignore(Write(Ignore(SeekSet(Ignore(r), "f", r.f.pos - 1)), n0))
    OBVIOUS
  <2> HIDE DEF u0, n0, x0, s0
  <2>3. Answered(r, x0, n0, z, s0, IF u0.invalid THEN u0 ELSE n0)
    BY <2>1, <2>2 DEF Answered
  <2> QED BY <2>3
<1>3. HasPassed(w, r, v, from, purged, g, s)
  BY <1>1, HoldingReadDoes
<1>4. w.f \in Handles
  BY DEF Holding
<1>5. Verifying(w, x, v, from, purged)
  <2>1. x = Ignore(Write(Ignore(SeekSet(Ignore(r), "f", r.f.pos - 1)), new))
    BY <1>2 DEF Answered
  <2> QED BY <1>3, <1>4, <2>1, RecordRewritten
<1>6. Verifying(w, Ignore(r), v, from, purged)
  <2>1. PICK q : q = [r EXCEPT !.ok = TRUE]
    OBVIOUS
  <2>2. /\ Moved(w, r, v, from, purged) /\ r.d = w.d /\ Holding(r.f, Dir(r), v, g, s)
    BY <1>3 DEF HasPassed
  <2>3. Fit(r, v, from, purged, g) /\ (w.left = 0 => r.left = 0)
    BY <2>2, FitMoved DEF Moved
  <2>4. Fit(q, v, from, purged, g) /\ q.f = r.f /\ q.d = r.d /\ q.left = r.left /\ Dir(q) = Dir(r)
    BY <2>1, <2>3, IgnoredIs
  <2>5. Verifying(w, q, v, from, purged)
    BY <2>2, <2>3, <2>4 DEF Verifying
  <2> QED BY <2>1, <2>5 DEF Ignore
<1>7. PICK y : y = IF said THEN Ignore(r) ELSE x
  OBVIOUS
<1>8. Verifying(w, y, v, from, purged)
  BY <1>5, <1>6, <1>7
<1>9. z = [y EXCEPT !.unit = u]
  BY <1>2, <1>7 DEF Answered
<1>10. IsMachine(y) /\ y.ok \in BOOLEAN
  BY <1>8 DEF Verifying, Fit, Steady
<1>11. OnlySays(y, z)
  BY <1>9, <1>10 DEF OnlySays, OneCard, IsMachine, MachineFields
<1> QED BY <1>8, <1>11, SaidVerifies

-----------------------------------------------------------------------------
\* A file is removed

\* The entry of slot s may hang, and no other.
Hanging(a, v, from, purged, s) ==
  /\ Steady(a, v, from, purged) /\ s \in Slots(v) /\ s \in purged
  /\ \E k : Chains(Tab(a), Dir(a), v, k, {s})

LEMMA HangingGood ==
  ASSUME NEW a, NEW v, NEW from, NEW purged, NEW s, Hanging(a, v, from, purged, s)
  PROVE  /\ Steady(a, v, from, purged) /\ Layout16(v) /\ Good(View(a), v, purged)
         /\ a.vol = v /\ Dir(a) \in [Slots(v) -> DirEntry] /\ s \in Slots(v)
<1>1. PICK k : Chains(Tab(a), Dir(a), v, k, {s})
  BY DEF Hanging
<1>2. /\ Steady(a, v, from, purged) /\ Layout16(v) /\ a.vol = v /\ Holds(View(a), v)
      /\ {s} \subseteq purged /\ s \in Slots(v)
  BY DEF Hanging, Steady
<1>3. Chains(Tab(a), Dir(a), v, k, purged)
  BY <1>1, <1>2, ChainsMay
<1>4. Good(View(a), v, purged)
  BY <1>2, <1>3 DEF Good, Tab, Dir
<1>5. Dir(a) \in [Slots(v) -> DirEntry]
  BY <1>2, HoldsTypes DEF Dir
<1> QED BY <1>2, <1>4, <1>5

LEMMA HangingMoved ==
  ASSUME NEW a, NEW z, NEW v, NEW from, NEW purged, NEW s, Hanging(a, v, from, purged, s),
         Moved(a, z, v, from, purged)
  PROVE  Hanging(z, v, from, purged, s)
BY DEF Hanging, Moved, SameView

LEMMA FitHangs ==
  ASSUME NEW a, NEW v, NEW from, NEW purged, NEW g, Fit(a, v, from, purged, g),
         NEW s \in Slots(v), s \in purged
  PROVE  Hanging(a, v, from, purged, s)
<1>1. {} \subseteq {s} /\ Steady(a, v, from, purged) /\ Chains(Tab(a), Dir(a), v, g, {})
  BY DEF Fit
<1>2. Chains(Tab(a), Dir(a), v, g, {s})
  BY <1>1, ChainsMay
<1> QED BY <1>1, <1>2 DEF Hanging

\* The entry that hangs is mended: it is deleted, or that of an empty file.
LEMMA HangingPut ==
  ASSUME NEW a, NEW v, NEW from, NEW purged, NEW i \in Units,
         Hanging(a, v, from, purged, <<a.blk, i>>), a.dirty, a.blk \in Root(v),
         NEW x \in DirEntry, Live(x) => x.first = 0 /\ x.size = 0,
         NEW z, UnitPut(a, z, i, x)
  PROVE  \E g : Fit(z, v, from, purged, g)
<1>1. PICK k : Chains(Tab(a), Dir(a), v, k, {<<a.blk, i>>})
  BY DEF Hanging
<1>2. /\ Steady(a, v, from, purged) /\ Dir(a) \in [Slots(v) -> DirEntry]
      /\ <<a.blk, i>> \in Slots(v)
  BY HangingGood
<1>3. /\ Steady(z, v, from, purged) /\ Tab(z) = Tab(a)
      /\ Dir(z) = [Dir(a) EXCEPT ![<<a.blk, i>>] = x]
  BY <1>2, UnitPutDoes
<1>4. PICK s : s = <<a.blk, i>>
  OBVIOUS
<1>5. Live(x) => Fed(x, s, v, k)
  BY DEF Fed
<1>6. {s} \ {s} \subseteq {}
  OBVIOUS
<1>7. Chains(Tab(a), [Dir(a) EXCEPT ![s] = x], v, k, {})
  BY <1>1, <1>2, <1>4, <1>5, <1>6, EntryChanges, Zenon
<1>8. Chains(Tab(z), Dir(z), v, k, {})
  BY <1>3, <1>4, <1>7, Zenon
<1> QED BY <1>3, <1>8 DEF Fit

\* The entry of slot s is mended, or z has failed.
Mended(a, z, v, from, purged, s) ==
  /\ Hanging(z, v, from, purged, s) /\ Faulty(a, z) /\ z.d = a.d /\ (z.ok => a.ok)
  /\ SamePlace(a.f, z.f)
  /\ z.ok => \E g : Fit(z, v, from, purged, g)

\* The card and the cache are the same, and so is the success.
LEMMA SameFaulty ==
  ASSUME NEW a, NEW z, OneCard(a, z), z.ok = a.ok
  PROVE  Faulty(a, z)
BY DEF OneCard, Faulty, Safe

LEMMA HangingEnteredDoes ==
  ASSUME NEW a, NEW v, NEW from, NEW purged, NEW s, Hanging(a, v, from, purged, s),
         a.f \in Handles, a.f.type = "file", Slot(a.f) = s, a.f.first = 0, a.f.size = 0,
         NEW z, z = Entered(CacheDirEntry(a, "f", TRUE), "f")
  PROVE  Mended(a, z, v, from, purged, s)
<1>1. /\ Steady(a, v, from, purged) /\ Layout16(v) /\ Good(View(a), v, purged)
      /\ Dir(a) \in [Slots(v) -> DirEntry] /\ s \in Slots(v) /\ s \in purged
  BY HangingGood DEF Hanging
<1>2. PICK b \in Root(v), i \in Units : a.f.dirBlock = b /\ a.f.dirIndex = i
  BY <1>1 DEF Slot, Slots
<1>3. s = <<b, i>>
  BY <1>2 DEF Slot
<1> DEFINE w == CacheDirEntry(a, "f", TRUE)
<1>4. Cached(a, w, b, TRUE, v, from, purged)
  <2>1. w = CacheRawBlock(a, b, TRUE)
    BY <1>2 DEF CacheDirEntry
  <2>2. TRUE \in BOOLEAN /\ (TRUE => b \in Root(v) \union Data(v))
    BY <1>2
  <2> HIDE DEF w
  <2> QED BY <1>1, <2>1, <2>2, CacheRawBlockDoes
<1>5. z = Entered(w, "f")
  OBVIOUS
<1> HIDE DEF w
<1>6. /\ Kept(a, w, v, from, purged) /\ (w.ok => w.blk = b /\ w.dirty)
      /\ w.f = a.f /\ w.d = a.d /\ (w.ok => a.ok) /\ Faulty(a, w)
      /\ Dir(w) = Dir(a) /\ Tab(w) = Tab(a)
  BY <1>2, <1>4 DEF Cached, Kept, SameRest, SameView
<1>7. Hanging(w, v, from, purged, s) /\ Steady(w, v, from, purged)
  <2>1. Moved(a, w, v, from, purged)
    BY <1>6, MovedKept
  <2> QED BY <2>1, HangingMoved DEF Hanging
<1>8. CASE ~w.ok
  <2>1. z = w
    BY <1>5, <1>8 DEF Entered
  <2>2. SamePlace(a.f, a.f)
    BY DEF SamePlace
  <2> QED BY <1>6, <1>7, <1>8, <2>1, <2>2 DEF Mended
<1>9. CASE w.ok
  <2>1. /\ w.blk \in Root(v) /\ w.blk = b /\ w.dirty /\ w.buf \in [Units -> DirEntry]
        /\ w.buf[i] \in DirEntry /\ IsMachine(w)
    <3>1. w.blk \in Root(v) /\ w.blk = b /\ w.dirty
      BY <1>2, <1>6, <1>9
    <3>2. w.buf \in [Units -> DirEntry]
      BY <1>7, <3>1, Shown
    <3> QED BY <1>7, <3>1, <3>2 DEF Steady
  <2>2. PICK e : e = Updated(a.f, w.buf[i])
    OBVIOUS
  <2>3. PICK size, first : /\ size = (IF IsDir(a.f) THEN w.buf[i].size ELSE a.f.size)
                           /\ first = a.f.first
    OBVIOUS
  <2>4. z = [w EXCEPT !.buf[i].size = size, !.buf[i].first = first, !.f.dirty = FALSE]
    BY <1>2, <1>5, <1>6, <1>9, <2>3 DEF Entered
  <2>5. PICK buf : buf = w.buf
    OBVIOUS
  <2>6. TwoPut(buf, i, size, first, z.buf)
    BY <2>1, <2>4, <2>5 DEF TwoPut, IsMachine, MachineFields
  <2>7. z.buf = [w.buf EXCEPT ![i] = e]
    <3>1. TwoSet(buf[i], size, first, e)
      BY <2>2, <2>3, <2>5 DEF Updated, TwoSet
    <3>2. OnePut(buf, i, e, z.buf)
      BY <1>2, <2>1, <2>5, <2>6, <3>1, TwoPutIs
    <3> QED BY <2>5, <3>2 DEF OnePut
  <2>8. /\ IsMachine(z) /\ z.d = w.d /\ z.f = [a.f EXCEPT !.dirty = FALSE]
        /\ z.disk = w.disk /\ z.log = w.log /\ z.left = w.left /\ z.ok = w.ok /\ z.blk = w.blk
        /\ z.dirty = w.dirty /\ z.mirror = w.mirror /\ z.start = w.start /\ z.vol = w.vol
    BY <1>6, <2>1, <2>4 DEF IsMachine, MachineFields
  <2>9. UnitPut(w, z, i, e)
    BY <2>7, <2>8 DEF UnitPut
  <2>10. e \in DirEntry /\ e.first = 0 /\ e.size = 0
    <3>1. ~IsDir(a.f)
      BY DEF IsDir
    <3> QED BY <2>1, <2>2, <3>1, UpdatedIs
  <2>11. PICK g : Fit(z, v, from, purged, g)
    <3>1. Hanging(w, v, from, purged, <<w.blk, i>>)
      BY <1>3, <1>7, <2>1
    <3> QED BY <1>2, <2>1, <2>9, <2>10, <3>1, HangingPut
  <2>12. Hanging(z, v, from, purged, s)
    BY <1>1, <2>11, FitHangs
  <2>13. SamePlace(a.f, z.f)
    <3>1. FALSE \in BOOLEAN
      OBVIOUS
    <3> QED BY <2>8, <3>1 DEF SamePlace, Handles
  <2>14. Faulty(a, z)
    BY <1>6, <2>8 DEF Faulty, Safe
  <2> QED BY <1>6, <1>9, <2>8, <2>11, <2>12, <2>13, <2>14 DEF Mended
<1> QED BY <1>8, <1>9

\* What is in the cache is written, whether the entry hangs or not.
LEMMA MendedFlushes ==
  ASSUME NEW a, NEW y, NEW v, NEW from, NEW purged, NEW s, Mended(a, y, v, from, purged, s),
         NEW z, z = CacheFlush(y)
  PROVE  Mended(a, z, v, from, purged, s) /\ (z.ok => ~z.dirty)
<1>1. /\ Hanging(y, v, from, purged, s) /\ Faulty(a, y) /\ y.d = a.d /\ (y.ok => a.ok)
      /\ SamePlace(a.f, y.f) /\ (y.ok => \E g : Fit(y, v, from, purged, g))
  BY DEF Mended
<1>2. Steady(y, v, from, purged) /\ Good(View(y), v, purged)
  BY <1>1, HangingGood
<1>3. Flushed(y, z, v, from, purged)
  BY <1>2, CacheFlushDoes
<1>4. /\ Kept(y, z, v, from, purged) /\ z.f = y.f /\ z.d = y.d /\ (z.ok => y.ok /\ ~z.dirty)
      /\ Faulty(y, z)
  BY <1>3 DEF Flushed, Kept, SameRest
<1>5. Hanging(z, v, from, purged, s)
  BY <1>1, <1>4, MovedKept, HangingMoved
<1>6. z.ok => \E g : Fit(z, v, from, purged, g)
  BY <1>1, <1>4, FitKept
<1>7. Faulty(a, z)
  BY <1>1, <1>4, FaultyOn
<1> QED BY <1>1, <1>4, <1>5, <1>6, <1>7 DEF Mended

\* The entry says that the file is empty.
LEMMA HangingSyncDoes ==
  ASSUME NEW a, NEW v, NEW from, NEW purged, NEW s, Hanging(a, v, from, purged, s),
         a.f \in Handles, a.f.type = "file", Slot(a.f) = s, a.f.first = 0, a.f.size = 0,
         a.f.dirty, NEW z, z = Sync(a, "f")
  PROVE  Mended(a, z, v, from, purged, s)
<1>1. PICK y : y = Entered(CacheDirEntry(a, "f", TRUE), "f")
  OBVIOUS
<1>2. z = CacheFlush(y)
  BY <1>1 DEF Sync, IsOpen
<1>3. Mended(a, y, v, from, purged, s)
  BY <1>1, HangingEnteredDoes
<1> QED BY <1>2, <1>3, MendedFlushes

\* The file of slot s has been emptied, or z has failed.
Emptied(a, z, v, from, purged, s) ==
  /\ Hanging(z, v, from, purged, s) /\ Faulty(a, z) /\ z.d = a.d /\ (z.ok => a.ok)
  /\ z.f \in Handles /\ Slot(z.f) = s
  /\ z.ok => \E g : Fit(z, v, from, purged, g)

\* The handle x of a file that has been emptied.
HandEmptied(x, y) == y = [x EXCEPT !.first = 0, !.size = 0, !.dirty = TRUE]

LEMMA HandEmptiedIs ==
  ASSUME NEW x \in Handles, NEW y, HandEmptied(x, y)
  PROVE  /\ y \in Handles /\ y.type = x.type /\ Slot(y) = Slot(x) /\ y.first = 0
         /\ y.size = 0 /\ y.dirty
<1>1. PICK n \in Nat, true \in BOOLEAN : n = 0 /\ true = TRUE
  OBVIOUS
<1>2. y = [x EXCEPT !.first = n, !.size = n, !.dirty = true]
  BY <1>1 DEF HandEmptied
<1>3. /\ y \in Handles /\ y.type = x.type /\ y.dirBlock = x.dirBlock
      /\ y.dirIndex = x.dirIndex /\ y.first = n /\ y.size = n /\ y.dirty = true
  BY <1>2 DEF Handles
<1> QED BY <1>1, <1>3 DEF Slot

\* A file is rewound.
LEMMA RewindDoes ==
  ASSUME NEW a, IsMachine(a), a.ok \in BOOLEAN, a.f \in Handles, a.f.type = "file",
         NEW z, z = SeekSet(a, "f", 0)
  PROVE  /\ OneCard(a, z) /\ z.ok = a.ok /\ z.d = a.d
         /\ Elsewhere(a.f, z.f) /\ z.got = a.got /\ z.unit = a.unit
<1>1. 0 \in 0 .. a.f.size
  BY DEF Handles
<1>2. z = [a EXCEPT !["f"].cur = 0, !["f"].pos = 0]
  BY <1>1 DEF SeekSet, IsOpen, Rewind
<1>3. PICK zero \in Nat : zero = 0
  OBVIOUS
<1>4. PICK x : x = a.f
  OBVIOUS
<1>5. /\ OneCard(a, z) /\ z.ok = a.ok /\ z.d = a.d /\ z.got = a.got /\ z.unit = a.unit
      /\ z.f = [x EXCEPT !.cur = zero, !.pos = zero]
  BY <1>2, <1>3, <1>4 DEF IsMachine, MachineFields, OneCard
<1>6. HandPut(x, z.f, zero, zero)
  BY <1>5 DEF HandPut
<1>7. Elsewhere(x, z.f)
  BY <1>4, <1>6, HandMoves
<1> QED BY <1>4, <1>5, <1>7

LEMMA TruncateDoes ==
  ASSUME NEW a, NEW v, NEW from, NEW purged, NEW g, Fit(a, v, from, purged, g), a.ok,
         NEW s \in Slots(v), s \in purged, Dir(a)[s].name = "CACHE",
         NEW flags, "write" \in flags, OnEntry(a.f, Dir(a)[s], s, flags),
         NEW z, z = Truncate(a, 0)
  PROVE  Emptied(a, z, v, from, purged, s)
<1>1. /\ Steady(a, v, from, purged) /\ Layout16(v) /\ Good(View(a), v, purged)
      /\ Dir(a) \in [Slots(v) -> DirEntry] /\ IsMachine(a) /\ a.ok \in BOOLEAN
      /\ Chains(Tab(a), Dir(a), v, g, {})
  BY FitGood DEF Fit, Steady
<1>2. /\ a.f \in Handles /\ Slot(a.f) = s /\ a.f.type = "file" /\ a.f.write
      /\ a.f.first = Dir(a)[s].first /\ a.f.size = Dir(a)[s].size /\ a.f.size \in Nat
  BY DEF OnEntry, Handles
<1>3. Hanging(a, v, from, purged, s)
  BY FitHangs
<1>4. CASE a.f.size = 0
  <2>1. z = a
    BY <1>2, <1>4 DEF Truncate, IsFile
  <2>2. Faulty(a, a)
    BY DEF Faulty
  <2> QED BY <1>2, <1>3, <2>1, <2>2 DEF Emptied
<1>5. CASE a.f.size # 0
  <2>1. PICK x : x = SeekSet(a, "f", 0)
    OBVIOUS
  <2>2. /\ OneCard(a, x) /\ x.ok = a.ok /\ x.d = a.d /\ Elsewhere(a.f, x.f)
    BY <1>1, <1>2, <2>1, RewindDoes
  <2>3. PICK y : y = FreeChain(x, x.f.first)
    OBVIOUS
  <2>4. PICK w : w = Shortened(y, 0)
    OBVIOUS
  <2>5. z = BackTo(w, 0)
    <3>1. a.f.pos = 0
      BY DEF OnEntry
    <3>2. Truncate(a, 0) = BackTo(Shortened(Cut(SeekSet(a, "f", 0), 0), 0), 0)
      BY <1>2, <1>5, <3>1 DEF Truncate, IsFile
    <3>3. Cut(x, 0) = FreeChain(x, x.f.first)
      BY <2>2 DEF Cut
    <3> QED BY <2>1, <2>3, <2>4, <3>2, <3>3
  <2>6. Fit(x, v, from, purged, g) /\ Dir(x) = Dir(a) /\ x.f \in Handles /\ Slot(x.f) = s
    <3>1. Moved(a, x, v, from, purged)
      BY <1>1, <2>2, SameCardMoved
    <3> QED BY <1>2, <2>2, <3>1, FitMoved DEF Moved, SameView, Elsewhere, Slot
  <2>7. Doomed(x, v, from, purged, g, s) /\ x.f.first = Dir(x)[s].first
    <3>1. Live(Dir(a)[s])
      BY DEF Live
    <3>2. Fed(Dir(a)[s], s, v, g)
      BY <1>1, <3>1 DEF Chains
    <3>3. Dir(a)[s].first # 0
      BY <1>2, <1>5, <3>2 DEF Fed
    <3> QED BY <1>2, <2>2, <2>6, <3>3 DEF Doomed, Elsewhere
  <2>8. Drained(x, y, v, from, purged, g, s)
    BY <2>3, <2>7, FreeChainDoes
  <2>9. /\ Hanging(y, v, from, purged, s) /\ Faulty(x, y) /\ (y.ok => x.ok)
        /\ y.d = x.d /\ y.f = x.f
    <3>1. \E k : Chains(Tab(y), Dir(y), v, k, {s})
      BY <2>7, <2>8, DrainedGood
    <3> QED BY <2>8, <3>1 DEF Hanging, Drained, SameHands
  <2>10. Faulty(a, y) /\ y.d = a.d /\ (y.ok => a.ok)
    <3>1. Faulty(a, x)
      BY <2>2, SameFaulty
    <3> QED BY <2>2, <2>9, <3>1, FaultyOn
  <2>11. y.f \in Handles /\ Slot(y.f) = s /\ y.f.type = "file"
    BY <1>2, <2>2, <2>6, <2>9 DEF Elsewhere
  <2>12. CASE ~y.ok
    <3>1. z = y
      BY <2>4, <2>5, <2>12 DEF Shortened, BackTo
    <3> QED BY <2>9, <2>10, <2>11, <2>12, <3>1 DEF Emptied
  <2>13. CASE y.ok
    <3>1. PICK u : u = [y EXCEPT !.f.first = 0, !.f.size = 0, !.f.dirty = TRUE]
      OBVIOUS
    <3>2. w = Sync(u, "f")
      BY <2>4, <2>13, <3>1 DEF Shortened
    <3>3. Steady(y, v, from, purged) /\ IsMachine(y) /\ y.ok \in BOOLEAN
      BY <2>9 DEF Hanging, Steady
    <3>4. OneCard(y, u) /\ u.ok = y.ok /\ u.d = y.d /\ HandEmptied(y.f, u.f)
      <4>1. PICK x1 : x1 = y.f
        OBVIOUS
      <4>2. OneCard(y, u) /\ u.ok = y.ok /\ u.d = y.d
            /\ u.f = [x1 EXCEPT !.first = 0, !.size = 0, !.dirty = TRUE]
        BY <3>1, <3>3, <4>1 DEF IsMachine, MachineFields, OneCard
      <4> QED BY <4>1, <4>2 DEF HandEmptied
    <3>5. /\ u.f \in Handles /\ u.f.type = "file" /\ Slot(u.f) = s /\ u.f.first = 0
          /\ u.f.size = 0 /\ u.f.dirty
      BY <2>11, <3>4, HandEmptiedIs
    <3>6. Hanging(u, v, from, purged, s)
      <4>1. Moved(y, u, v, from, purged)
        BY <3>3, <3>4, SameCardMoved
      <4> QED BY <2>9, <4>1, HangingMoved
    <3>7. Mended(u, w, v, from, purged, s)
      BY <3>2, <3>5, <3>6, HangingSyncDoes
    <3>8. /\ Hanging(w, v, from, purged, s) /\ Faulty(u, w) /\ w.d = u.d /\ (w.ok => u.ok)
          /\ SamePlace(u.f, w.f) /\ (w.ok => \E k : Fit(w, v, from, purged, k))
      BY <3>7 DEF Mended
    <3>9. Faulty(a, w) /\ w.d = a.d /\ (w.ok => a.ok)
      <4>1. Faulty(y, u)
        BY <3>4, SameFaulty
      <4>2. Faulty(y, w)
        BY <3>8, <4>1, FaultyOn
      <4> QED BY <2>10, <3>4, <3>8, <4>2, FaultyOn
    <3>10. w.f \in Handles /\ Slot(w.f) = s /\ w.f.type = "file"
      BY <3>5, <3>8 DEF SamePlace, Slot
    <3>11. CASE ~w.ok
      <4>1. z = w
        BY <2>5, <3>11 DEF BackTo
      <4> QED BY <3>8, <3>9, <3>10, <3>11, <4>1 DEF Emptied
    <3>12. CASE w.ok
      <4>1. z = SeekSet(w, "f", 0)
        BY <2>5, <3>12 DEF BackTo
      <4>2. Steady(w, v, from, purged) /\ IsMachine(w) /\ w.ok \in BOOLEAN
        BY <3>8 DEF Hanging, Steady
      <4>3. OneCard(w, z) /\ z.ok = w.ok /\ z.d = w.d /\ Elsewhere(w.f, z.f)
        BY <3>10, <4>1, <4>2, RewindDoes
      <4>4. Moved(w, z, v, from, purged)
        BY <4>2, <4>3, SameCardMoved
      <4>5. Hanging(z, v, from, purged, s) /\ (\E k : Fit(z, v, from, purged, k))
        BY <3>8, <3>12, <4>4, HangingMoved, FitMoved
      <4>6. Faulty(a, z)
        <5>1. Faulty(w, z)
          BY <4>3, SameFaulty
        <5> QED BY <3>9, <4>3, <5>1, FaultyOn
      <4>7. z.f \in Handles /\ Slot(z.f) = s
        BY <3>10, <4>3 DEF Elsewhere, Slot
      <4> QED BY <3>9, <4>3, <4>5, <4>6, <4>7 DEF Emptied
    <3> QED BY <3>11, <3>12
  <2> QED BY <2>12, <2>13
<1> QED BY <1>4, <1>5

\* The name of an entry.
NamePut(buf, i, name, new) == new = [buf EXCEPT ![i].name = name]

LEMMA NamePutIs ==
  ASSUME NEW buf \in [Units -> DirEntry], NEW i \in Units, NEW new,
         NamePut(buf, i, "DELETED", new)
  PROVE  \E e \in DirEntry : OnePut(buf, i, e, new) /\ ~Live(e)
<1>1. PICK x \in DirEntry, name \in Names : x = buf[i] /\ name = "DELETED"
  BY DEF Names
<1>2. PICK e : e = [x EXCEPT !.name = name]
  OBVIOUS
<1>3. e \in DirEntry /\ e.name = name
  BY <1>1, <1>2 DEF DirEntry
<1>4. OnePut(buf, i, e, new)
  BY <1>1, <1>2 DEF NamePut, OnePut
<1>5. ~Live(e)
  BY <1>1, <1>3 DEF Live
<1> QED BY <1>3, <1>4, <1>5

\* The file of slot s has been removed, or z has failed.
Removal(a, z, v, from, purged, s) ==
  /\ Hanging(z, v, from, purged, s) /\ Faulty(a, z) /\ z.d = a.d /\ (z.ok => a.ok)
  /\ z.ok => ~z.dirty /\ \E g : Fit(z, v, from, purged, g)

LEMMA RemoveDoes ==
  ASSUME NEW a, NEW v, NEW from, NEW purged, NEW g, Fit(a, v, from, purged, g), a.ok,
         NEW s \in Slots(v), s \in purged, Dir(a)[s].name = "CACHE",
         NEW flags, "write" \in flags, OnEntry(a.f, Dir(a)[s], s, flags),
         NEW z, z = Remove(a)
  PROVE  Removal(a, z, v, from, purged, s)
<1>1. PICK y : y = Truncate(a, 0)
  OBVIOUS
<1>2. Emptied(a, y, v, from, purged, s)
  BY <1>1, TruncateDoes
<1>3. /\ Hanging(y, v, from, purged, s) /\ Faulty(a, y) /\ y.d = a.d /\ (y.ok => a.ok)
      /\ y.f \in Handles /\ Slot(y.f) = s
  BY <1>2 DEF Emptied
<1>4. Steady(y, v, from, purged) /\ Good(View(y), v, purged)
  BY <1>3, HangingGood
<1>5. PICK b \in Root(v), i \in Units : y.f.dirBlock = b /\ y.f.dirIndex = i
  BY <1>3 DEF Slot, Slots
<1>6. s = <<b, i>>
  BY <1>3, <1>5 DEF Slot
<1>7. PICK w : w = CacheDirEntry(y, "f", TRUE)
  OBVIOUS
<1>8. Cached(y, w, b, TRUE, v, from, purged)
  <2>1. w = CacheRawBlock(y, b, TRUE)
    BY <1>5, <1>7 DEF CacheDirEntry
  <2>2. TRUE \in BOOLEAN /\ (TRUE => b \in Root(v) \union Data(v))
    BY <1>5
  <2> QED BY <1>4, <2>1, <2>2, CacheRawBlockDoes
<1>9. /\ Kept(y, w, v, from, purged) /\ (w.ok => w.blk = b /\ w.dirty)
      /\ w.f = y.f /\ w.d = y.d /\ (w.ok => y.ok) /\ Faulty(y, w)
  BY <1>5, <1>8 DEF Cached, Kept, SameRest
<1>10. Hanging(w, v, from, purged, s) /\ Faulty(a, w) /\ w.d = a.d /\ (w.ok => a.ok)
  <2>1. Moved(y, w, v, from, purged)
    BY <1>9, MovedKept
  <2>2. Hanging(w, v, from, purged, s)
    BY <1>3, <2>1, HangingMoved
  <2>3. Faulty(a, w)
    BY <1>3, <1>9, FaultyOn
  <2> QED BY <1>3, <1>9, <2>2, <2>3
<1>11. z = EntryDeleted(w)
  BY <1>1, <1>7 DEF Remove
<1>12. CASE ~w.ok
  <2>1. z = w
    BY <1>11, <1>12 DEF EntryDeleted
  <2> QED BY <1>10, <1>12, <2>1 DEF Removal
<1>13. CASE w.ok
  <2>1. PICK x : x = [w EXCEPT !.buf[i].name = "DELETED", !.f.type = "closed"]
    OBVIOUS
  <2>2. z = CacheFlush(x)
    BY <1>5, <1>9, <1>11, <1>13, <2>1 DEF EntryDeleted
  <2>3. Steady(w, v, from, purged) /\ IsMachine(w)
    BY <1>10 DEF Hanging, Steady
  <2>4. w.blk \in Root(v) /\ w.blk = b /\ w.dirty
    BY <1>5, <1>9, <1>13
  <2>5. w.buf \in [Units -> DirEntry]
    BY <2>3, <2>4, Shown
  <2>6. /\ IsMachine(x) /\ x.d = w.d
        /\ x.disk = w.disk /\ x.log = w.log /\ x.left = w.left /\ x.ok = w.ok /\ x.blk = w.blk
        /\ x.dirty = w.dirty /\ x.mirror = w.mirror /\ x.start = w.start /\ x.vol = w.vol
    BY <2>1, <2>3 DEF IsMachine, MachineFields
  <2>7. PICK e \in DirEntry : x.buf = [w.buf EXCEPT ![i] = e] /\ ~Live(e)
    <3>1. PICK buf : buf = w.buf
      OBVIOUS
    <3>2. NamePut(buf, i, "DELETED", x.buf)
      BY <2>1, <2>3, <3>1 DEF NamePut, IsMachine, MachineFields
    <3>3. PICK e \in DirEntry : OnePut(buf, i, e, x.buf) /\ ~Live(e)
      BY <1>5, <2>5, <3>1, <3>2, NamePutIs
    <3> QED BY <3>1, <3>3 DEF OnePut
  <2>8. UnitPut(w, x, i, e)
    BY <2>6, <2>7 DEF UnitPut
  <2>9. PICK k : Fit(x, v, from, purged, k)
    <3>1. Hanging(w, v, from, purged, <<w.blk, i>>)
      BY <1>6, <1>10, <2>4
    <3> QED BY <1>5, <2>4, <2>7, <2>8, <3>1, HangingPut
  <2>10. Steady(x, v, from, purged) /\ Good(View(x), v, purged)
    BY <2>9, FitGood
  <2>11. Flushed(x, z, v, from, purged)
    BY <2>2, <2>10, CacheFlushDoes
  <2>12. /\ Kept(x, z, v, from, purged) /\ z.d = x.d /\ (z.ok => x.ok /\ ~z.dirty) /\ Faulty(x, z)
    BY <2>11 DEF Flushed, Kept, SameRest
  <2>13. Fit(z, v, from, purged, k)
    BY <2>9, <2>12, FitKept
  <2>14. Hanging(z, v, from, purged, s)
    BY <2>13, FitHangs
  <2>15. Faulty(a, z)
    <3>1. Faulty(w, x)
      BY <2>6 DEF Faulty, Safe
    <3>2. Faulty(w, z)
      BY <2>6, <2>12, <3>1, FaultyOn
    <3> QED BY <1>10, <2>6, <2>12, <3>2, FaultyOn
  <2> QED BY <1>10, <1>13, <2>6, <2>12, <2>13, <2>14, <2>15 DEF Removal
<1> QED BY <1>12, <1>13

\* More entries may hang.
LEMMA SteadyMay ==
  ASSUME NEW a, NEW v, NEW from, NEW purged, NEW more, purged \subseteq more,
         Steady(a, v, from, purged)
  PROVE  Steady(a, v, from, more)
<1>1. Trail(from, a.log, a.disk, v, purged)
  BY DEF Steady
<1>2. PICK log, to : log = a.log /\ to = a.disk
  OBVIOUS
<1>3. Trail(from, log, to, v, purged)
  BY <1>1, <1>2
<1>4. PICK ds : /\ log \in Seq({log[i] : i \in 1 .. Len(log)})
                /\ ds[0] = from /\ ds[Len(log)] = to
                /\ \A i \in 0 .. Len(log) : Good(ds[i], v, purged)
                /\ \A i \in 1 .. Len(log) : ds[i] = Put(ds[i - 1], log[i][1], log[i][2])
  BY <1>3 DEF Trail
<1>5. \A i \in 0 .. Len(log) : Good(ds[i], v, more)
  BY <1>4, GoodMay
<1>6. Trail(from, log, to, v, more)
  BY <1>4, <1>5 DEF Trail
<1> QED BY <1>2, <1>6 DEF Steady

\* What is in the cache is on the card.
LEMMA CleanShows ==
  ASSUME NEW a, NEW v, NEW from, NEW purged, Steady(a, v, from, purged), ~a.dirty
  PROVE  a.disk = View(a)
<1>1. IsContents(a.disk) /\ (a.blk \in DOMAIN a.disk => a.buf = a.disk[a.blk])
  BY DEF Steady, Holds
<1> QED BY <1>1 DEF View, Put, IsContents

LEMMA CleanFit ==
  ASSUME NEW a, NEW v, NEW from, NEW purged, NEW g, Fit(a, v, from, purged, g), ~a.dirty
  PROVE  Good(a.disk, v, {})
<1>1. Steady(a, v, from, purged) /\ Chains(Tab(a), Dir(a), v, g, {})
  BY DEF Fit
<1>2. a.disk = View(a) /\ Holds(View(a), v) /\ a.vol = v
  BY <1>1, CleanShows DEF Steady
<1> QED BY <1>1, <1>2 DEF Good, Tab, Dir

\* A write has failed on the way from a to z.
Spent(a, z) == a.left # 0 /\ z.left = 0

\* The file CACHE is removed, or was not there; or a write has failed, and
\* its entry may hang.
Removed(a, z, v, from, start) ==
  /\ Steady(z, v, from, Slots(v)) /\ (a.left = 0 => z.left = 0) /\ Shut(z, v) /\ z.ok
  /\ \/ Spent(a, z) /\ Safe(z) /\ \E s : Hanging(z, v, from, Slots(v), s)
     \/ Spent(a, z) /\ \E g : Fit(z, v, from, Slots(v), g)
     \/ Good(z.disk, v, start) /\ \E g : Fit(z, v, from, Slots(v), g)

\* The handle is gone, and the card and the cache are the same.
LEMMA HandGoneIs ==
  ASSUME NEW a, IsMachine(a), NEW z, HandGone(a, z)
  PROVE  OneCard(a, z) /\ z.ok = TRUE /\ z.f = Closed /\ z.d = a.d
BY DEF HandGone, IsMachine, MachineFields, OneCard

\* SD.remove(): only if a write fails, the entry of the file CACHE may be
\* left when its clusters have been freed.
LEMMA SdRemoveDoes ==
  ASSUME NEW a, NEW v, NEW from, NEW start, start \subseteq Slots(v), NEW g,
         Fit(a, v, from, start, g), Shut(a, v), NEW z, z = SdRemove(a, "CACHE")
  PROVE  Removed(a, z, v, from, start)
<1>1. PICK o : o = Open(a, "CACHE", {"write"})
  OBVIOUS
<1>2. PICK r : r = IF o.ok THEN Remove(o) ELSE o
  OBVIOUS
<1>3. Opening(a, o, "CACHE", {"write"}, v, from, start, g)
  <2>1. PICK flags : flags = {"write"}
    OBVIOUS
  <2>2. "trunc" \notin flags /\ "CACHE" \in Names
    BY <2>1 DEF Names
  <2>3. Opening(a, o, "CACHE", flags, v, from, start, g)
    BY <1>1, <2>1, <2>2, OpenDoes
  <2> QED BY <2>1, <2>3
<1>4. /\ Fit(o, v, from, start, g) /\ (a.left = 0 => o.left = 0) /\ RootHand(o.d, v)
      /\ o.f \in Handles
      /\ o.ok => /\ Safe(o) /\ Slot(o.f) \in Slots(v) /\ Dir(o)[Slot(o.f)].name = "CACHE"
                 /\ OnEntry(o.f, Dir(o)[Slot(o.f)], Slot(o.f), {"write"})
  BY <1>3 DEF Opening
<1>5. Fit(o, v, from, Slots(v), g) /\ Steady(o, v, from, start)
  BY <1>4, SteadyMay DEF Fit
<1>6. HandGone(r, z)
  <2>1. z = [[r EXCEPT !.ok = TRUE] EXCEPT !.f = Closed]
    BY <1>1, <1>2 DEF SdRemove, Unlinked, Ignore
  <2>2. z = [r EXCEPT !.ok = TRUE, !.f = Closed]
    BY <2>1
  <2> QED BY <2>2 DEF HandGone
<1>7. CASE ~o.ok
  <2>1. r = o /\ IsMachine(o)
    BY <1>2, <1>5, <1>7 DEF Steady
  <2>2. OneCard(o, z) /\ z.ok = TRUE /\ z.f = Closed /\ z.d = o.d
    BY <1>6, <2>1, HandGoneIs
  <2>3. z.ok \in BOOLEAN
    BY <2>2
  <2>4. Moved(o, z, v, from, Slots(v))
    BY <1>5, <2>2, <2>3, SameCardMoved DEF Fit
  <2>5. Fit(z, v, from, Slots(v), g) /\ Steady(z, v, from, Slots(v))
    BY <1>5, <2>4, FitMoved DEF Fit
  <2>6. Good(z.disk, v, start)
    <3>1. Good(o.disk, v, start)
      BY <1>5, TrailEnds DEF Steady
    <3> QED BY <2>2, <3>1 DEF OneCard
  <2>7. Shut(z, v)
    BY <1>4, <2>2, ClosedHand DEF Shut
  <2> QED BY <1>4, <2>2, <2>5, <2>6, <2>7 DEF Removed, OneCard
<1>8. CASE o.ok
  <2>1. PICK s : s = Slot(o.f)
    OBVIOUS
  <2>2. s \in Slots(v) /\ Dir(o)[s].name = "CACHE" /\ OnEntry(o.f, Dir(o)[s], s, {"write"})
    BY <1>4, <1>8, <2>1
  <2>3. Removal(o, r, v, from, Slots(v), s)
    <3>1. "write" \in {"write"} /\ r = Remove(o)
      BY <1>2, <1>8
    <3>2. PICK flags : flags = {"write"}
      OBVIOUS
    <3>3. OnEntry(o.f, Dir(o)[s], s, flags) /\ "write" \in flags
      BY <2>2, <3>1, <3>2
    <3> QED BY <1>5, <1>8, <2>2, <3>1, <3>3, RemoveDoes
  <2>4. /\ Hanging(r, v, from, Slots(v), s) /\ Faulty(o, r) /\ r.d = o.d
        /\ r.ok => ~r.dirty /\ \E k : Fit(r, v, from, Slots(v), k)
    BY <2>3 DEF Removal
  <2>5. Steady(r, v, from, Slots(v)) /\ IsMachine(r)
    BY <2>4 DEF Hanging, Steady
  <2>6. OneCard(r, z) /\ z.ok = TRUE /\ z.f = Closed /\ z.d = r.d
    BY <1>6, <2>5, HandGoneIs
  <2>7. Moved(r, z, v, from, Slots(v))
    <3>1. z.ok \in BOOLEAN
      BY <2>6
    <3> QED BY <2>5, <2>6, <3>1, SameCardMoved
  <2>8. Steady(z, v, from, Slots(v)) /\ Hanging(z, v, from, Slots(v), s)
    BY <2>4, <2>7, HangingMoved DEF Moved
  <2>9. Shut(z, v) /\ (a.left = 0 => z.left = 0) /\ z.left = r.left /\ z.disk = r.disk
    <3>1. Shut(z, v)
      BY <1>4, <2>4, <2>6, ClosedHand DEF Shut
    <3> QED BY <1>4, <2>4, <2>6, <3>1 DEF Faulty, OneCard
  <2>10. CASE r.ok
    <3>1. PICK k : Fit(r, v, from, Slots(v), k) /\ ~r.dirty
      BY <2>4, <2>10
    <3>2. Good(r.disk, v, {})
      BY <3>1, CleanFit
    <3>3. Good(z.disk, v, start)
      <4>1. {} \subseteq start
        OBVIOUS
      <4> QED BY <2>9, <3>2, <4>1, GoodMay
    <3>4. Fit(z, v, from, Slots(v), k)
      BY <2>7, <3>1, FitMoved
    <3> QED BY <2>6, <2>8, <2>9, <3>3, <3>4 DEF Removed
  <2>11. CASE ~r.ok
    <3>1. Safe(o)
      BY <1>4, <1>8
    <3>2. Safe(r) /\ o.left # 0 /\ r.left = 0
      BY <1>8, <2>4, <2>11, <3>1 DEF Faulty
    <3>3. Safe(z)
      BY <2>6, <3>2 DEF Safe, OneCard
    <3>4. Spent(a, z)
      BY <1>4, <2>9, <3>2 DEF Spent
    <3> QED BY <2>6, <2>8, <2>9, <3>3, <3>4 DEF Removed
  <2> QED BY <2>10, <2>11
<1> QED BY <1>7, <1>8

-----------------------------------------------------------------------------
\* SD.begin()

\* The volume of a card has been found, and its root directory is open.
Begun(z, v, disc) ==
  /\ IsMachine(z) /\ z.disk = disc /\ z.log = <<>> /\ z.left = 0 /\ z.ok = TRUE
  /\ z.dirty = FALSE /\ z.mirror = 0 /\ z.start = 2 /\ z.vol = v
  /\ z.blk = VolumeStart(disc) /\ z.buf = disc[VolumeStart(disc)]
  /\ z.f = Closed /\ RootHand(z.d, v)

\* A handle on the root directory.
HandOfRoot(x, first, size) ==
  x = [Closed EXCEPT !.type = "root16", !.read = TRUE, !.first = first, !.size = size]

LEMMA HandOfRootIs ==
  ASSUME NEW v, NEW size \in Nat, size = v.rootEntries, NEW x, HandOfRoot(x, 0, size)
  PROVE  RootHand(x, v)
<1>1. PICK zero \in Nat : zero = 0
  OBVIOUS
<1>2. PICK false \in BOOLEAN, true \in BOOLEAN : false = FALSE /\ true = TRUE
  OBVIOUS
<1>3. x = [type |-> "root16", read |-> true, write |-> false, dirty |-> false,
           cur |-> zero, pos |-> zero, size |-> size, first |-> zero, dirBlock |-> zero,
           dirIndex |-> zero]
  BY <1>1, <1>2 DEF HandOfRoot, Closed
<1>4. x \in Handles /\ x.type = "root16" /\ x.read = true /\ x.size = size
  BY <1>3 DEF Handles
<1> QED BY <1>2, <1>4 DEF RootHand

LEMMA BeginDoes ==
  ASSUME NEW v, Layout16(v), NEW disc, Holds(disc, v), NEW z, z = Begin(Machine(disc))
  PROVE  Begun(z, v, disc)
<1>1. PICK w : w = Machine(disc)
  OBVIOUS
<1>2. /\ IsMachine(w) /\ w.disk = disc /\ w.log = <<>> /\ w.left = 0 /\ w.ok = TRUE
      /\ w.dirty = FALSE /\ w.mirror = 0 /\ w.start = 2 /\ w.f = Closed
  BY <1>1 DEF Machine, IsMachine, MachineFields
<1>3. PICK start : start = VolumeStart(disc)
  OBVIOUS
<1>4. PICK y : y = [w EXCEPT !.blk = start, !.buf = disc[start], !.vol = v]
  OBVIOUS
<1>5. z = RootOpened(IF y.vol.fatType = 32 THEN ChainSize(y, y.vol.rootStart) ELSE y)
  <2>1. v = Layout(disc[start][0].bpb, start)
    BY <1>3 DEF Holds, LayoutOf
  <2>2. z = OpenRoot([w EXCEPT !.blk = start, !.buf = disc[start],
                               !.vol = Layout(disc[start][0].bpb, start)])
    BY <1>1, <1>2, <1>3 DEF Begin
  <2> QED BY <1>4, <2>1, <2>2 DEF OpenRoot
<1>6. /\ IsMachine(y) /\ y.disk = disc /\ y.log = <<>> /\ y.left = 0 /\ y.ok = TRUE
      /\ y.dirty = FALSE /\ y.mirror = 0 /\ y.start = 2 /\ y.f = Closed
      /\ y.vol = v /\ y.blk = start /\ y.buf = disc[start]
  BY <1>2, <1>4 DEF IsMachine, MachineFields
<1>7. v.fatType = 16 /\ v.rootEntries \in Nat
  BY DEF Layout16
<1>8. z = RootOpened(y)
  BY <1>5, <1>6, <1>7
<1>9. PICK x : HandOfRoot(x, 0, v.rootEntries)
  BY DEF HandOfRoot
<1>10. z = [y EXCEPT !.d = x]
  BY <1>6, <1>7, <1>8, <1>9 DEF RootOpened, HandOfRoot
<1>11. RootHand(x, v)
  BY <1>7, <1>9, HandOfRootIs
<1>12. /\ IsMachine(z) /\ z.disk = disc /\ z.log = <<>> /\ z.left = 0 /\ z.ok = TRUE
       /\ z.dirty = FALSE /\ z.mirror = 0 /\ z.start = 2 /\ z.f = Closed
       /\ z.vol = v /\ z.blk = start /\ z.buf = disc[start] /\ z.d = x
  BY <1>6, <1>10 DEF IsMachine, MachineFields
<1> QED BY <1>3, <1>11, <1>12 DEF Begun

\* The machine that begins shows what is on the card.
LEMMA BegunShows ==
  ASSUME NEW v, Layout16(v), NEW disc, NEW purged, Good(disc, v, purged),
         NEW z, Begun(z, v, disc)
  PROVE  Steady(z, v, disc, purged) /\ View(z) = disc /\ Shut(z, v)
<1>1. Holds(disc, v) /\ IsContents(disc)
  BY GoodMeans DEF Holds
<1>2. View(z) = disc
  BY <1>1 DEF View, Put, Begun, IsContents
<1>3. Trail(disc, <<>>, disc, v, purged)
  BY TrailStarts
<1>4. /\ IsMachine(z) /\ z.vol = v /\ z.left \in Nat /\ z.ok \in BOOLEAN /\ z.dirty \in BOOLEAN
      /\ z.start \in Nat /\ z.start >= 2 /\ z.mirror = 0 /\ z.dirty = FALSE
  <2>1. z.ok \in BOOLEAN /\ z.dirty \in BOOLEAN
    BY Zenon DEF Begun
  <2>2. /\ IsMachine(z) /\ z.vol = v /\ z.left \in Nat
        /\ z.start \in Nat /\ z.start >= 2 /\ z.mirror = 0 /\ z.dirty = FALSE
    BY DEF Begun
  <2> QED BY <2>1, <2>2
<1>5. /\ Holds(z.disk, v) /\ Holds(View(z), v) /\ z.buf = z.disk[z.blk]
      /\ Trail(disc, z.log, z.disk, v, purged)
  BY <1>1, <1>2, <1>3 DEF Begun
<1>6. Steady(z, v, disc, purged)
  BY <1>4, <1>5 DEF Steady
<1>7. Shut(z, v)
  BY ClosedHand DEF Begun, Shut
<1> QED BY <1>2, <1>6, <1>7

LEMMA BegunFit ==
  ASSUME NEW v, Layout16(v), NEW disc, NEW purged, Good(disc, v, {}),
         NEW z, Begun(z, v, disc)
  PROVE  \E g : Fit(z, v, disc, purged, g)
<1>1. {} \subseteq purged
  OBVIOUS
<1>2. Good(disc, v, purged)
  BY <1>1, GoodMay
<1>3. Steady(z, v, disc, purged) /\ View(z) = disc
  BY <1>2, BegunShows
<1>4. PICK g : Chains(TableOf(disc, v), DirOf(disc, v), v, g, {})
  BY DEF Good
<1>5. z.vol = v
  BY DEF Begun
<1> QED BY <1>3, <1>4, <1>5 DEF Fit, Tab, Dir

-----------------------------------------------------------------------------
\* What is found on a card

\* The machine w finds the table and the directory of the contents disc.
Finds(w, disc, v) ==
  /\ w.vol = v /\ w.disk = disc /\ FatEnd(w) = v.clusterCount + 1
  /\ \A c \in ClustersOf(v) : Fat(w, c) = TableOf(disc, v)[c]
  /\ \A e : e \in Entries(w) <=> \E s \in Slots(v) : e = DirOf(disc, v)[s] /\ Live(e)

LEMMA FreshFinds ==
  ASSUME NEW v, Layout16(v), NEW disc, Holds(disc, v), NEW w, w = Fresh(disc)
  PROVE  Finds(w, disc, v)
<1>1. Begun(w, v, disc)
  BY BeginDoes DEF Fresh
<1>2. w.vol = v /\ w.disk = disc /\ FatEnd(w) = v.clusterCount + 1
  BY <1>1 DEF Begun, FatEnd
<1>3. \A c \in ClustersOf(v) : Fat(w, c) = TableOf(disc, v)[c]
  BY <1>2 DEF Fat, FatBlock, TableOf
<1>4. RootBlocks(w) = Root(v)
  <2>1. v.fatType = 16 /\ v.rootStart \in Nat /\ v.rootEntries \in Nat
    BY DEF Layout16
  <2>2. PICK k : k = v.rootEntries \div UnitsPerBlock
    OBVIOUS
  <2>3. k \in Nat
    BY <2>1, <2>2, LayoutAssumption, Division
  <2>4. RootBlocks(w) = {v.rootStart + i : i \in 0 .. k - 1}
    BY <1>2, <2>1, <2>2 DEF RootBlocks
  <2>5. Root(v) = v.rootStart .. v.rootStart + k - 1
    BY <2>2 DEF Root
  <2>6. \A b : b \in v.rootStart .. v.rootStart + k - 1
               => b = v.rootStart + (b - v.rootStart) /\ b - v.rootStart \in 0 .. k - 1
    BY <2>1, <2>3
  <2>7. \A i \in 0 .. k - 1 : v.rootStart + i \in v.rootStart .. v.rootStart + k - 1
    BY <2>1, <2>3
  <2> QED BY <2>4, <2>5, <2>6, <2>7
<1>5. \A b \in Root(v) : disc[b] \in [Units -> DirEntry]
  BY DEF Holds
<1>6. ASSUME NEW e
      PROVE  e \in Entries(w) <=> \E s \in Slots(v) : e = DirOf(disc, v)[s] /\ Live(e)
  <2>1. e \in Entries(w) <=> (\E b \in Root(v) : e \in Range(disc[b])) /\ Live(e)
    BY <1>2, <1>4 DEF Entries, Live
  <2>2. \A b \in Root(v) : e \in Range(disc[b]) <=> \E i \in Units : e = disc[b][i]
    BY <1>5 DEF Range
  <2>3. \A b \in Root(v), i \in Units : <<b, i>> \in Slots(v) /\ DirOf(disc, v)[<<b, i>>] = disc[b][i]
    BY DEF Slots, DirOf
  <2>4. \A s \in Slots(v) : \E b \in Root(v), i \in Units : s = <<b, i>>
    BY DEF Slots
  <2>5. (\E b \in Root(v) : \E i \in Units : e = disc[b][i])
          <=> (\E s \in Slots(v) : e = DirOf(disc, v)[s])
    <3>1. ASSUME NEW b \in Root(v), NEW i \in Units, e = disc[b][i]
          PROVE  \E s \in Slots(v) : e = DirOf(disc, v)[s]
      BY <2>3, <3>1
    <3>2. ASSUME NEW s \in Slots(v), e = DirOf(disc, v)[s]
          PROVE  \E b \in Root(v) : \E i \in Units : e = disc[b][i]
      <4>1. PICK b \in Root(v), i \in Units : s = <<b, i>>
        BY <2>4
      <4> QED BY <2>3, <3>2, <4>1
    <3> QED BY <3>1, <3>2
  <2>6. (\E b \in Root(v) : e \in Range(disc[b])) <=> (\E b \in Root(v) : \E i \in Units : e = disc[b][i])
    BY <2>2
  <2>7. (\E s \in Slots(v) : e = DirOf(disc, v)[s]) /\ Live(e)
          <=> \E s \in Slots(v) : e = DirOf(disc, v)[s] /\ Live(e)
    OBVIOUS
  <2> QED BY <2>1, <2>5, <2>6, <2>7
<1> QED BY <1>2, <1>3, <1>6 DEF Finds

\* If no entry on the card hangs, each has its chain.
LEMMA NotLost ==
  ASSUME NEW v, Layout16(v), NEW disc, Holds(disc, v), ~CardFileLost(disc),
         NEW g, NEW purged, Chains(TableOf(disc, v), DirOf(disc, v), v, g, purged)
  PROVE  Chains(TableOf(disc, v), DirOf(disc, v), v, g, {})
<1>1. PICK w : w = Fresh(disc)
  OBVIOUS
<1>2. Finds(w, disc, v)
  BY <1>1, FreshFinds
<1>3. PICK t, dir : t = TableOf(disc, v) /\ dir = DirOf(disc, v)
  OBVIOUS
<1>4. ASSUME NEW s \in Slots(v), Live(dir[s])
      PROVE  ~Hangs(dir[s], t, v)
  <2>1. SUFFICES ASSUME Hangs(dir[s], t, v) PROVE FALSE
    OBVIOUS
  <2>2. dir[s].first \in ClustersOf(v) /\ t[dir[s].first] = 0
    BY <2>1 DEF Hangs
  <2>3. dir[s] \in Entries(w)
    BY <1>2, <1>3, <1>4 DEF Finds
  <2>4. Fat(w, dir[s].first) = 0
    BY <1>2, <1>3, <2>2 DEF Finds
  <2>5. dir[s].first # 0
    BY <2>2 DEF ClustersOf
  <2>6. Lost(w)
    BY <2>3, <2>4, <2>5 DEF Lost, Dangles
  <2> QED BY <1>1, <2>6 DEF CardFileLost
<1>5. Chains(t, dir, v, g, purged)
  BY <1>3
<1>6. \A s \in Slots(v) : Live(dir[s]) => Fed(dir[s], s, v, g) \/ (s \in {} /\ Hangs(dir[s], t, v))
  BY <1>4, <1>5 DEF Chains
<1>7. Chains(t, dir, v, g, {})
  BY <1>5, <1>6 DEF Chains
<1> QED BY <1>3, <1>7

LEMMA NotLostGood ==
  ASSUME NEW v, Layout16(v), NEW disc, NEW purged, Good(disc, v, purged), ~CardFileLost(disc)
  PROVE  Good(disc, v, {})
<1>1. PICK g : Chains(TableOf(disc, v), DirOf(disc, v), v, g, purged)
  BY DEF Good
<1> QED BY <1>1, NotLost DEF Good

\* A machine whose cache, once written, shows no entry that hangs.
LEMMA NotLostFit ==
  ASSUME NEW a, NEW v, NEW from, NEW purged, NEW s, Hanging(a, v, from, purged, s),
         a.ok, a.left = 0, Safe(a), ~CardFileLost(CacheFlush(a).disk)
  PROVE  \E g : Fit(a, v, from, purged, g)
<1>1. PICK w : w = CacheFlush(a)
  OBVIOUS
<1>2. Steady(a, v, from, purged) /\ Good(View(a), v, purged) /\ Layout16(v) /\ a.vol = v
  BY HangingGood
<1>3. Flushed(a, w, v, from, purged)
  BY <1>1, <1>2, CacheFlushDoes
<1>4. w.ok /\ ~w.dirty /\ Steady(w, v, from, purged) /\ SameView(a, w)
  BY <1>3 DEF Flushed, Faulty, Kept
<1>5. w.disk = View(w) /\ w.vol = v /\ Holds(w.disk, v)
  BY <1>4, CleanShows DEF Steady
<1>6. PICK k : Chains(Tab(a), Dir(a), v, k, {s})
  BY DEF Hanging
<1>7. Tab(a) = TableOf(w.disk, v) /\ Dir(a) = DirOf(w.disk, v)
  BY <1>4, <1>5 DEF SameView, Tab, Dir
<1>8. Chains(TableOf(w.disk, v), DirOf(w.disk, v), v, k, {s})
  BY <1>6, <1>7
<1>9. Chains(TableOf(w.disk, v), DirOf(w.disk, v), v, k, {})
  BY <1>1, <1>2, <1>5, <1>8, NotLost
<1>10. Chains(Tab(a), Dir(a), v, k, {})
  BY <1>7, <1>9
<1> QED BY <1>2, <1>10 DEF Fit

-----------------------------------------------------------------------------
\* The calls

\* Between two calls nothing is open but the root directory, and the file
\* that verify() holds.
Between(a, v, purged) ==
  \E g : /\ Fit(a, v, a.disk, purged, g) /\ RootHand(a.d, v) /\ a.ok /\ a.left = 0
         /\ a.f \in Handles
         /\ IsOpen(a.f) => \E s : Holding(a.f, Dir(a), v, g, s)

\* What a call leaves.
Leaves(w, v, from, purged) ==
  \E g : /\ Fit(w, v, from, purged, g) /\ RootHand(w.d, v)
         /\ w.f \in Handles
         /\ IsOpen(w.f) => \E s : Holding(w.f, Dir(w), v, g, s)

LEMMA SettledDoes ==
  ASSUME NEW w, NEW v, NEW from, NEW purged, Leaves(w, v, from, purged),
         NEW more, Good(w.disk, v, more), NEW z, z = Settled(w)
  PROVE  Between(z, v, more) /\ z.disk = w.disk /\ z.f = w.f
<1>1. PICK g : /\ Fit(w, v, from, purged, g) /\ RootHand(w.d, v)
               /\ w.f \in Handles
               /\ IsOpen(w.f) => \E s : Holding(w.f, Dir(w), v, g, s)
  BY DEF Leaves
<1>2. Steady(w, v, from, purged) /\ IsMachine(w) /\ Chains(Tab(w), Dir(w), v, g, {})
  BY <1>1 DEF Fit, Steady
<1>3. PICK unit : unit = IF IsOpen(w.f) THEN w.unit ELSE FreeEntry
  OBVIOUS
<1>4. z = [w EXCEPT !.d.cur = 0, !.d.pos = 0, !.log = <<>>, !.left = 0, !.ok = TRUE,
                    !.val = 0, !.got = 0, !.unit = unit]
  <2>1. PICK r : r = Rewind(w, "d")
    OBVIOUS
  <2>2. r = [w EXCEPT !["d"].cur = 0, !["d"].pos = 0]
    BY <2>1 DEF Rewind
  <2>3. r.unit = w.unit /\ IsMachine(r)
    BY <1>2, <2>2 DEF IsMachine, MachineFields
  <2>4. z = [r EXCEPT !.log = <<>>, !.left = 0, !.ok = TRUE, !.val = 0, !.got = 0,
                      !.unit = unit]
    BY <1>3, <2>1, <2>3 DEF Settled
  <2> QED BY <1>2, <2>2, <2>4
<1>5. PICK x : x = w.d
  OBVIOUS
<1>6. PICK zero \in Nat : zero = 0
  OBVIOUS
<1>7. /\ IsMachine(z) /\ z.disk = w.disk /\ z.log = <<>> /\ z.left = 0 /\ z.ok = TRUE
      /\ z.blk = w.blk /\ z.buf = w.buf /\ z.dirty = w.dirty /\ z.mirror = w.mirror
      /\ z.start = w.start /\ z.vol = w.vol /\ z.f = w.f
      /\ z.d = [x EXCEPT !.cur = zero, !.pos = zero]
  BY <1>2, <1>4, <1>5, <1>6 DEF IsMachine, MachineFields
<1>8. RootHand(z.d, v)
  <2>1. HandPut(x, z.d, zero, zero)
    BY <1>7 DEF HandPut
  <2>2. x \in Handles
    BY <1>1, <1>5 DEF RootHand
  <2>3. Elsewhere(x, z.d)
    BY <2>1, <2>2, HandMoves
  <2> QED BY <1>1, <1>5, <2>3 DEF Elsewhere, RootHand
<1>9. View(z) = View(w) /\ Tab(z) = Tab(w) /\ Dir(z) = Dir(w)
  BY <1>7 DEF View, Tab, Dir
<1>10. Trail(w.disk, <<>>, w.disk, v, more)
  BY TrailStarts
<1>11. Steady(z, v, z.disk, more)
  <2>1. z.ok \in BOOLEAN
    BY <1>7, Zenon
  <2>2. z.left \in Nat
    BY <1>7
  <2>3. Trail(z.disk, z.log, z.disk, v, more)
    BY <1>7, <1>10
  <2> QED BY <1>2, <1>7, <1>9, <2>1, <2>2, <2>3 DEF Steady
<1>12. Fit(z, v, z.disk, more, g)
  BY <1>2, <1>9, <1>11 DEF Fit
<1> QED BY <1>1, <1>7, <1>8, <1>9, <1>12 DEF Between

\* The slots whose entries may hang: when a write has failed before, and
\* while purge() is under way.
MayHang(v, n) == IF n > 0 THEN Slots(v) ELSE {}
MayHangIn(v, name, n) == IF name = "purge" \/ n > 0 THEN Slots(v) ELSE {}

LEMMA MayHangIs ==
  ASSUME NEW v, NEW n \in Nat, NEW next \in {n, n + 1}, NEW name
  PROVE  /\ MayHang(v, n) \subseteq MayHang(v, next) /\ MayHang(v, n) \subseteq Slots(v)
         /\ MayHang(v, n) \subseteq MayHangIn(v, name, next)
         /\ MayHangIn(v, "purge", next) = Slots(v)
         /\ next > 0 => MayHang(v, next) = Slots(v)
         /\ next \in Nat
BY DEF MayHang, MayHangIn

LEMMA TrailMay ==
  ASSUME NEW from, NEW log, NEW to, NEW v, NEW purged, NEW more, purged \subseteq more,
         Trail(from, log, to, v, purged)
  PROVE  Trail(from, log, to, v, more)
<1>1. PICK ds : /\ log \in Seq({log[i] : i \in 1 .. Len(log)})
                /\ ds[0] = from /\ ds[Len(log)] = to
                /\ \A i \in 0 .. Len(log) : Good(ds[i], v, purged)
                /\ \A i \in 1 .. Len(log) : ds[i] = Put(ds[i - 1], log[i][1], log[i][2])
  BY DEF Trail
<1>2. \A i \in 0 .. Len(log) : Good(ds[i], v, more)
  BY <1>1, GoodMay
<1> QED BY <1>1, <1>2 DEF Trail

\* Where a call ends.
Ends(v, z, log, from, name, n) ==
  Between(z, v, MayHang(v, n)) /\ Trail(from, log, z.disk, v, MayHangIn(v, name, n)) /\ n \in Nat

LEMMA ReturnsDoes ==
  ASSUME NEW v, faults \in Nat, disk = m.disk, NEW w, NEW name, NEW left, Returns(w, name, left),
         Leaves(w, v, m.disk, MayHang(v, faults))
  PROVE  Ends(v, m', pending', disk', op', faults') /\ m'.f = w.f
<1>1. /\ pending' = w.log /\ m' = Settled(w) /\ op' = name /\ disk' = m.disk
      /\ faults' \in {faults, faults + 1}
  BY DEF Returns
<1>2. PICK z, n, from : z = m' /\ n = faults' /\ from = m.disk
  OBVIOUS
<1>3. /\ MayHang(v, faults) \subseteq MayHang(v, n)
      /\ MayHang(v, faults) \subseteq MayHangIn(v, name, n) /\ n \in Nat
  BY <1>1, <1>2, MayHangIs
<1>4. Steady(w, v, from, MayHang(v, faults))
  BY <1>2 DEF Leaves, Fit
<1>5. Trail(from, w.log, w.disk, v, MayHang(v, faults))
  BY <1>4 DEF Steady
<1>6. Trail(from, w.log, w.disk, v, MayHangIn(v, name, n))
  BY <1>3, <1>5, TrailMay
<1>7. Good(w.disk, v, MayHang(v, n))
  <2>1. Good(w.disk, v, MayHang(v, faults))
    BY <1>5, TrailEnds
  <2> QED BY <1>3, <2>1, GoodMay
<1>8. Between(z, v, MayHang(v, n)) /\ z.disk = w.disk /\ z.f = w.f
  <2>1. z = Settled(w)
    BY <1>1, <1>2
  <2> QED BY <1>7, <2>1, SettledDoes
<1>9. Ends(v, z, w.log, from, name, n)
  BY <1>3, <1>6, <1>8 DEF Ends
<1> QED BY <1>1, <1>2, <1>8, <1>9

\* A call whose write number `left' fails.
LEMMA LeftSet ==
  ASSUME NEW a, NEW v, NEW purged, Between(a, v, purged), NEW left \in Nat,
         NEW z, z = [a EXCEPT !.left = left]
  PROVE  Leaves(z, v, a.disk, purged) /\ z.f = a.f /\ z.left = left /\ z.disk = a.disk
<1>1. PICK g : /\ Fit(a, v, a.disk, purged, g) /\ RootHand(a.d, v) /\ a.f \in Handles
               /\ IsOpen(a.f) => \E s : Holding(a.f, Dir(a), v, g, s)
  BY DEF Between
<1>2. Steady(a, v, a.disk, purged) /\ IsMachine(a) /\ Chains(Tab(a), Dir(a), v, g, {})
  BY <1>1 DEF Fit, Steady
<1>3. /\ IsMachine(z) /\ z.disk = a.disk /\ z.log = a.log /\ z.left = left /\ z.ok = a.ok
      /\ z.blk = a.blk /\ z.buf = a.buf /\ z.dirty = a.dirty /\ z.mirror = a.mirror
      /\ z.start = a.start /\ z.vol = a.vol /\ z.f = a.f /\ z.d = a.d
  BY <1>2 DEF IsMachine, MachineFields
<1>4. View(z) = View(a) /\ Tab(z) = Tab(a) /\ Dir(z) = Dir(a)
  BY <1>3 DEF View, Tab, Dir
<1>5. Steady(z, v, a.disk, purged)
  BY <1>2, <1>3, <1>4 DEF Steady
<1>6. Fit(z, v, a.disk, purged, g)
  BY <1>2, <1>4, <1>5 DEF Fit
<1> QED BY <1>1, <1>3, <1>4, <1>6 DEF Leaves

LEMMA LeavesShut ==
  ASSUME NEW a, NEW v, NEW from, NEW purged, Leaves(a, v, from, purged), a.f.type = "closed"
  PROVE  \E g : Fit(a, v, from, purged, g) /\ Shut(a, v)
BY DEF Leaves, Shut

LEMMA ShutLeaves ==
  ASSUME NEW a, NEW v, NEW from, NEW purged, NEW g, Fit(a, v, from, purged, g), Shut(a, v)
  PROVE  Leaves(a, v, from, purged) /\ a.f.type = "closed"
BY DEF Leaves, Shut, IsOpen

\* The call has nothing open when it returns.
Quits(z, v, from, purged) == Leaves(z, v, from, purged) /\ z.f.type = "closed"

LEMMA RestedQuits ==
  ASSUME NEW a, NEW z, NEW v, NEW from, NEW purged, Rested(a, z, v, from, purged)
  PROVE  Quits(z, v, from, purged)
BY ShutLeaves DEF Rested, Quits

LEMMA BeginCall ==
  ASSUME NEW v, Layout16(v), NEW disc, NEW purged, Good(disc, v, {}),
         NEW z, z = Begin(Machine(disc))
  PROVE  Quits(z, v, disc, purged)
<1>1. Begun(z, v, disc)
  BY GoodMeans, BeginDoes
<1>2. PICK g : Fit(z, v, disc, purged, g)
  BY <1>1, BegunFit
<1>3. Shut(z, v)
  BY <1>1, ClosedHand DEF Begun, Shut
<1> QED BY <1>2, <1>3, ShutLeaves DEF Quits

LEMMA AcnodeIsName == IsName("ACNODE")
BY DEF IsName, Names

LEMMA MkDirCall ==
  ASSUME NEW v, NEW from, NEW purged, NEW a, Quits(a, v, from, purged), NEW z, z = MkDir(a, "ACNODE")
  PROVE  Quits(z, v, from, purged)
<1>1. PICK g : Fit(a, v, from, purged, g) /\ Shut(a, v)
  BY LeavesShut DEF Quits
<1>2. PICK name : name = "ACNODE"
  OBVIOUS
<1>3. Rested(a, z, v, from, purged)
  BY <1>1, <1>2, AcnodeIsName, MkDirDoes
<1> QED BY <1>3, RestedQuits

LEMMA GetCall ==
  ASSUME NEW v, NEW from, NEW purged, NEW a, Quits(a, v, from, purged),
         NEW uid, NEW z, z = SdGet(a, uid)
  PROVE  Quits(z, v, from, purged)
<1>1. PICK g : Fit(a, v, from, purged, g) /\ Shut(a, v)
  BY LeavesShut DEF Quits
<1>2. Resting(a, z, v, from, purged, g)
  BY <1>1, SdGetDoes
<1> QED BY <1>2, ShutLeaves DEF Resting, Quits

LEMMA SetCall ==
  ASSUME NEW v, NEW from, NEW purged, NEW a, Quits(a, v, from, purged),
         NEW new, NEW z, z = SetCard(a, new)
  PROVE  Quits(z, v, from, purged)
<1>1. PICK g : Fit(a, v, from, purged, g) /\ Shut(a, v)
  BY LeavesShut DEF Quits
<1>2. Rested(a, z, v, from, purged)
  BY <1>1, SetCardDoes
<1> QED BY <1>2, RestedQuits

LEMMA OpenCall ==
  ASSUME NEW v, NEW from, NEW purged, NEW a, Quits(a, v, from, purged),
         NEW z, z = Ignore(SeekSet(SdOpen(a, "CACHE", {"read", "write", "creat"}), "f", 0))
  PROVE  Leaves(z, v, from, purged)
<1>1. PICK g : Fit(a, v, from, purged, g) /\ Shut(a, v)
  BY LeavesShut DEF Quits
<1>2. AtStart(a, z, v, from, purged, g)
  BY <1>1, CacheOpened
<1> QED BY <1>2 DEF AtStart, Leaves

LEMMA EntryCall ==
  ASSUME NEW v, NEW from, NEW purged, NEW a, Leaves(a, v, from, purged), Available(a) # 0,
         NEW answer, NEW z, z = VerifyRecord(a, answer)
  PROVE  Leaves(z, v, from, purged)
<1>1. PICK g : /\ Fit(a, v, from, purged, g) /\ RootHand(a.d, v) /\ a.f \in Handles
               /\ IsOpen(a.f) => \E s : Holding(a.f, Dir(a), v, g, s)
  BY DEF Leaves
<1>2. IsOpen(a.f) /\ a.f.size - a.f.pos # 0
  BY DEF Available
<1>3. PICK s : Holding(a.f, Dir(a), v, g, s)
  BY <1>1, <1>2
<1>4. a.f.pos < a.f.size
  BY <1>2, <1>3 DEF Holding, Handles
<1>5. Verifying(a, z, v, from, purged)
  BY <1>1, <1>3, <1>4, VerifyRecordDoes
<1>6. PICK k, r : Fit(z, v, from, purged, k) /\ Holding(z.f, Dir(z), v, k, r) /\ z.d = a.d
  BY <1>5 DEF Verifying
<1>7. z.f \in Handles
  BY <1>6 DEF Holding
<1> QED BY <1>1, <1>6, <1>7 DEF Leaves

LEMMA CloseCall ==
  ASSUME NEW v, NEW from, NEW purged, NEW a, Leaves(a, v, from, purged), NEW z, z = FileClose(a)
  PROVE  Quits(z, v, from, purged)
<1>1. PICK g : /\ Fit(a, v, from, purged, g) /\ RootHand(a.d, v) /\ a.f \in Handles
               /\ IsOpen(a.f) => \E s : Holding(a.f, Dir(a), v, g, s)
  BY DEF Leaves
<1>2. Dir(a) \in [Slots(v) -> DirEntry]
  BY <1>1, FitGood
<1>3. IsOpen(a.f) => Due(a.f, Dir(a), v, g)
  BY <1>1, <1>2, HoldingDue
<1>4. Shutting(a, z, v, from, purged, g)
  BY <1>1, <1>3, FileCloseDoes
<1>5. Fit(z, v, from, purged, g) /\ Shut(z, v)
  BY <1>1, <1>4 DEF Shutting, Shut
<1> QED BY <1>5, ShutLeaves DEF Quits

\* purge() leaves a sound volume, unless the card is lost.
Purged(v, z, log, from, name, n, lost) ==
  /\ lost => \E to : Trail(from, log, to, v, Slots(v))
  /\ ~lost => Ends(v, z, log, from, name, n) /\ z.f.type = "closed"

LEMMA PurgeCall ==
  ASSUME NEW v, faults \in Nat, disk = m.disk, NEW left, NEW a, a.left = left,
         Quits(a, v, m.disk, MayHang(v, faults)),
         NEW w, w = SdRemove(a, "CACHE"), Returns(w, "purge", left)
  PROVE  Purged(v, m', pending', disk', op', faults', CardFileLost(CacheFlush(w).disk))
<1>1. /\ pending' = w.log /\ m' = Settled(w) /\ op' = "purge" /\ disk' = m.disk
      /\ faults' = IF Failed(w, left) THEN faults + 1 ELSE faults
  BY DEF Returns
<1>2. PICK z, n, from, start : z = m' /\ n = faults' /\ from = m.disk /\ start = MayHang(v, faults)
  OBVIOUS
<1>3. n \in {faults, faults + 1}
  BY <1>1, <1>2
<1>4. /\ start \subseteq MayHang(v, n) /\ start \subseteq Slots(v)
      /\ MayHangIn(v, "purge", n) = Slots(v) /\ (n > 0 => MayHang(v, n) = Slots(v)) /\ n \in Nat
  BY <1>2, <1>3, MayHangIs
<1>5. PICK g : Fit(a, v, from, start, g) /\ Shut(a, v)
  <2>1. Leaves(a, v, from, start) /\ a.f.type = "closed"
    BY <1>2 DEF Quits
  <2> QED BY <2>1, LeavesShut
<1>6. Removed(a, w, v, from, start)
  BY <1>4, <1>5, SdRemoveDoes
<1>7. /\ Steady(w, v, from, Slots(v)) /\ Shut(w, v) /\ w.ok
      /\ \/ Spent(a, w) /\ Safe(w) /\ \E s : Hanging(w, v, from, Slots(v), s)
         \/ Spent(a, w) /\ \E k : Fit(w, v, from, Slots(v), k)
         \/ Good(w.disk, v, start) /\ \E k : Fit(w, v, from, Slots(v), k)
  BY <1>6 DEF Removed
<1>8. Trail(from, w.log, w.disk, v, Slots(v)) /\ Good(w.disk, v, Slots(v))
  BY <1>7, TrailEnds DEF Steady
<1>9. PICK lost : lost = CardFileLost(CacheFlush(w).disk)
  OBVIOUS
<1>10. lost => \E to : Trail(from, w.log, to, v, Slots(v))
  BY <1>8
<1>11. ASSUME ~lost
       PROVE  Ends(v, z, w.log, from, "purge", n) /\ z.f.type = "closed"
  <2>1. Spent(a, w) => n > 0
    BY <1>1, <1>2 DEF Spent, Failed
  <2>2. PICK k : Fit(w, v, from, Slots(v), k)
    <3>1. CASE Spent(a, w) /\ Safe(w) /\ \E s : Hanging(w, v, from, Slots(v), s)
      <4>1. PICK s : Hanging(w, v, from, Slots(v), s)
        BY <3>1
      <4>2. w.left = 0 /\ Safe(w) /\ ~CardFileLost(CacheFlush(w).disk)
        BY <1>9, <1>11, <3>1 DEF Spent
      <4> QED BY <1>7, <4>1, <4>2, NotLostFit
    <3> QED BY <1>7, <3>1
  <2>3. Good(w.disk, v, MayHang(v, n))
    <3>1. CASE Spent(a, w)
      BY <1>4, <1>8, <2>1, <3>1
    <3>2. CASE ~Spent(a, w)
      BY <1>4, <1>7, <3>2, GoodMay
    <3> QED BY <3>1, <3>2
  <2>4. Leaves(w, v, from, Slots(v)) /\ w.f.type = "closed"
    BY <1>7, <2>2, ShutLeaves
  <2>5. Between(z, v, MayHang(v, n)) /\ z.disk = w.disk /\ z.f = w.f
    <3>1. z = Settled(w)
      BY <1>1, <1>2
    <3> QED BY <2>3, <2>4, <3>1, SettledDoes
  <2> QED BY <1>4, <1>8, <2>4, <2>5 DEF Ends
<1>12. Purged(v, z, w.log, from, "purge", n, lost)
  BY <1>10, <1>11 DEF Purged
<1> QED BY <1>1, <1>2, <1>9, <1>12

-----------------------------------------------------------------------------
\* The writes reach the card one by one

LEMMA TrailEmpty ==
  ASSUME NEW from, NEW to, NEW v, NEW purged, Trail(from, <<>>, to, v, purged)
  PROVE  from = to
BY DEF Trail

LEMMA TrailShrinks ==
  ASSUME NEW from, NEW log, NEW to, NEW v, NEW purged, Trail(from, log, to, v, purged),
         log # <<>>, NEW z, z = [from EXCEPT ![Head(log)[1]] = Head(log)[2]]
  PROVE  Trail(z, Tail(log), to, v, purged) /\ Good(z, v, purged)
<1>1. PICK ds : /\ log \in Seq({log[i] : i \in 1 .. Len(log)})
                /\ ds[0] = from /\ ds[Len(log)] = to
                /\ \A i \in 0 .. Len(log) : Good(ds[i], v, purged)
                /\ \A i \in 1 .. Len(log) : ds[i] = Put(ds[i - 1], log[i][1], log[i][2])
  BY DEF Trail
<1>2. PICK S : log \in Seq(S)
  BY <1>1
<1>3. /\ Len(log) \in Nat /\ Len(log) >= 1 /\ Head(log) = log[1]
      /\ Tail(log) \in Seq(S) /\ Len(Tail(log)) = Len(log) - 1
      /\ \A i \in 1 .. Len(log) - 1 : Tail(log)[i] = log[i + 1]
  BY <1>2
<1>4. PICK k \in Nat : k = Len(log) - 1
  <2>1. PICK n \in Nat : n = Len(log)
    BY <1>3
  <2>2. n - 1 \in Nat
    BY <1>3, <2>1
  <2> QED BY <2>1, <2>2
<1>5. PICK rest : rest = Tail(log)
  OBVIOUS
<1>6. rest \in Seq({rest[i] : i \in 1 .. Len(rest)})
  <2>1. rest \in Seq(S) /\ Len(rest) = k
    BY <1>3, <1>4, <1>5
  <2>2. rest \in [1 .. Len(rest) -> {rest[i] : i \in 1 .. Len(rest)}]
    BY <2>1
  <2> QED BY <2>1, <2>2
<1>7. z = ds[1]
  <2>1. ds[1] = Put(ds[0], log[1][1], log[1][2])
    BY <1>1, <1>3
  <2>2. IsContents(from)
    BY <1>1, <1>3, GoodMeans DEF Holds
  <2>3. from = [b \in DOMAIN from |-> from[b]]
    BY <2>2 DEF IsContents
  <2>4. PICK b, x : b = log[1][1] /\ x = log[1][2]
    OBVIOUS
  <2>5. z = [from EXCEPT ![b] = x]
    BY <1>3, <2>4
  <2>6. z = Put(from, b, x)
    BY <2>3, <2>5 DEF Put
  <2> QED BY <1>1, <2>1, <2>4, <2>6
<1>8. PICK es : es = [i \in 0 .. k |-> ds[i + 1]]
  OBVIOUS
<1>9. /\ es[0] = z /\ es[k] = to /\ \A i \in 0 .. k : Good(es[i], v, purged)
  <2>1. \A i \in 0 .. k : es[i] = ds[i + 1] /\ i + 1 \in 0 .. Len(log)
    BY <1>3, <1>4, <1>8
  <2>2. es[0] = ds[1] /\ es[k] = ds[Len(log)]
    BY <1>3, <1>4, <2>1
  <2> QED BY <1>1, <1>7, <2>1, <2>2
<1>10. \A i \in 1 .. k : es[i] = Put(es[i - 1], rest[i][1], rest[i][2])
  <2>1. SUFFICES ASSUME NEW i \in 1 .. k
                 PROVE  es[i] = Put(es[i - 1], rest[i][1], rest[i][2])
    OBVIOUS
  <2>2. es[i] = ds[i + 1] /\ es[i - 1] = ds[i] /\ rest[i] = log[i + 1] /\ i + 1 \in 1 .. Len(log)
        /\ (i + 1) - 1 = i
    BY <1>3, <1>4, <1>5, <1>8
  <2>3. ds[i + 1] = Put(ds[i], log[i + 1][1], log[i + 1][2])
    BY <1>1, <2>2
  <2> QED BY <2>2, <2>3
<1>11. Len(rest) = k
  BY <1>3, <1>4, <1>5
<1>12. Trail(z, rest, to, v, purged)
  BY <1>6, <1>9, <1>10, <1>11 DEF Trail
<1>13. Good(z, v, purged)
  BY <1>9
<1> QED BY <1>5, <1>12, <1>13

LEMMA TrailStart ==
  ASSUME NEW from, NEW log, NEW to, NEW v, NEW purged, Trail(from, log, to, v, purged)
  PROVE  Good(from, v, purged)
<1>1. PICK ds : /\ log \in Seq({log[i] : i \in 1 .. Len(log)})
                /\ ds[0] = from /\ \A i \in 0 .. Len(log) : Good(ds[i], v, purged)
  BY DEF Trail
<1>2. Len(log) \in Nat
  BY <1>1
<1> QED BY <1>1, <1>2

-----------------------------------------------------------------------------
\* The specification

\* The card is lost, or the writes of the last call lead from what it holds
\* to what the library takes it for, over volumes that are sound.
CardInv(v) ==
  /\ Layout16(v) /\ faults \in Nat
  /\ pc \in {"off", "begun", "idle", "verify", "lost"}
  /\ pc = "off" => pending = <<>> /\ m = Machine(disk) /\ Good(disk, v, {})
  /\ pc \in {"begun", "idle", "verify"} => Ends(v, m, pending, disk, op, faults)
  /\ pc \in {"begun", "idle"} => m.f.type = "closed"
  /\ pc = "lost" => \E to : Trail(disk, pending, to, v, Slots(v))

VolumeInv == \E v : CardInv(v)

\* Every card has been formatted with FAT16, and is sound to begin with.
SoundFormats == \A i \in DOMAIN Formats : \E v : Layout16(v) /\ Good(Formats[i], v, {})

\* Such a card is sound, an empty one included.
THEOREM PlainIsSound ==
  ASSUME NEW v, Layout16(v), NEW disc, Holds(disc, v), Plain(TableOf(disc, v), DirOf(disc, v), v)
  PROVE  Good(disc, v, {})
<1>1. PICK t, dir : t = TableOf(disc, v) /\ dir = DirOf(disc, v)
  OBVIOUS
<1>2. PICK live : live = {s \in Slots(v) : Live(dir[s])}
  OBVIOUS
<1>3. PICK has : has = {dir[s].first : s \in live}
  OBVIOUS
<1> DEFINE owner(c) == CHOOSE s \in live : dir[s].first = c
           g == [has |-> has, own |-> [c \in has |-> owner(c)], rank |-> [c \in has |-> 0],
                 len |-> [s \in Slots(v) |-> 1]]
<1>4. \A c \in has : owner(c) \in live /\ dir[owner(c)].first = c
  BY <1>3
<1> HIDE DEF owner
<1>5. /\ g.has = has
      /\ \A c \in has : g.own[c] = owner(c) /\ g.rank[c] = 0
      /\ \A s \in Slots(v) : g.len[s] = 1
  OBVIOUS
<1> HIDE DEF g
<1>6. \A r, s \in live : dir[r].first = dir[s].first => r = s
  BY <1>1, <1>2 DEF Plain
<1>7. \A c \in has : c \in ClustersOf(v) /\ IsEOC(t[c]) /\ owner(c) \in Slots(v)
  BY <1>1, <1>2, <1>4 DEF Plain
<1>8. \A c \in g.has : /\ g.own[c] \in Slots(v) /\ g.rank[c] \in Nat
                       /\ g.rank[c] < g.len[g.own[c]] /\ Leads(t, g, c)
  BY <1>5, <1>7 DEF Leads
<1>9. \A c, e \in g.has : g.own[c] = g.own[e] /\ g.rank[c] = g.rank[e] => c = e
  BY <1>4, <1>5
<1>10. \A s \in Slots(v) : Live(dir[s]) => Fed(dir[s], s, v, g)
  <2> SUFFICES ASSUME NEW s \in Slots(v), Live(dir[s])
               PROVE  Fed(dir[s], s, v, g)
    OBVIOUS
  <2>1. PICK e, c, per : e = dir[s] /\ c = e.first /\ per = PerChain(v)
    OBVIOUS
  <2>2. s \in live /\ c \in has
    BY <1>2, <1>3, <2>1
  <2>3. g.own[c] = s /\ g.rank[c] = 0 /\ c # 0
    BY <1>4, <1>5, <1>6, <1>7, <2>1, <2>2 DEF ClustersOf
  <2>4. e.size <= per /\ per \in Nat
    BY <1>1, <2>1, PerChainIs DEF Plain
  <2>5. e.size <= g.len[s] * per
    BY <1>5, <2>4
  <2> QED BY <1>5, <2>1, <2>2, <2>3, <2>5 DEF Fed
<1>11. Chains(t, dir, v, g, {})
  <2>1. g.has \subseteq ClustersOf(v) /\ \A s \in Slots(v) : g.len[s] \in Nat
    BY <1>5, <1>7
  <2> QED BY <1>8, <1>9, <1>10, <2>1 DEF Chains
<1> QED BY <1>1, <1>11 DEF Good

LEMMA FailingIsNat ==
  ASSUME NEW left \in MayFail
  PROVE  left \in Nat
BY FailingAssumption DEF MayFail

\* A call begins when the writes of the one before have been made.
LEMMA CallStarts ==
  ASSUME NEW v, CardInv(v), Quiet, pc \in {"begun", "idle", "verify"}, NEW left \in Nat,
         NEW a, a = [m EXCEPT !.left = left]
  PROVE  /\ faults \in Nat /\ disk = m.disk /\ Between(m, v, MayHang(v, faults))
         /\ Leaves(a, v, m.disk, MayHang(v, faults)) /\ a.f = m.f /\ a.left = left
         /\ pc # "verify" => Quits(a, v, m.disk, MayHang(v, faults))
<1>1. /\ Ends(v, m, pending, disk, op, faults) /\ pending = <<>> /\ faults \in Nat
      /\ pc # "verify" => m.f.type = "closed"
  BY DEF CardInv, Quiet
<1>2. PICK from, log, to, held, purged :
        /\ from = disk /\ log = pending /\ to = m.disk /\ held = MayHang(v, faults)
        /\ purged = MayHangIn(v, op, faults)
  OBVIOUS
<1>3. Between(m, v, held) /\ Trail(from, log, to, v, purged)
  BY <1>1, <1>2 DEF Ends
<1>4. from = to
  <2>1. log = <<>>
    BY <1>1, <1>2
  <2>2. Trail(from, <<>>, to, v, purged)
    BY <1>3, <2>1
  <2> QED BY <2>2, TrailEmpty
<1>5. Leaves(a, v, m.disk, held) /\ a.f = m.f /\ a.left = left
  BY <1>3, LeftSet
<1> QED BY <1>1, <1>2, <1>3, <1>4, <1>5 DEF Quits

LEMMA BeginKeeps ==
  ASSUME NEW v, CardInv(v), SetupBegin
  PROVE  CardInv(v)'
<1>1. PICK w : w = Begin(m)
  OBVIOUS
<1>2. /\ Layout16(v) /\ faults \in Nat /\ m = Machine(disk) /\ Good(disk, v, {})
      /\ pc' = "begun" /\ Returns(w, "begin", 0)
  BY <1>1 DEF CardInv, SetupBegin
<1>3. PICK disc : disc = disk
  OBVIOUS
<1>4. Quits(w, v, disc, MayHang(v, faults))
  <2>1. w = Begin(Machine(disc)) /\ Good(disc, v, {})
    BY <1>1, <1>2, <1>3
  <2> QED BY <1>2, <2>1, BeginCall
<1>5. disk = m.disk
  BY <1>2 DEF Machine
<1>6. Leaves(w, v, m.disk, MayHang(v, faults)) /\ w.f.type = "closed"
  BY <1>3, <1>4, <1>5 DEF Quits
<1>7. Ends(v, m', pending', disk', op', faults') /\ m'.f = w.f
  BY <1>2, <1>5, <1>6, ReturnsDoes
<1> QED BY <1>2, <1>6, <1>7 DEF CardInv, Ends

\* A call that leaves everything closed.
LEMMA QuitKeeps ==
  ASSUME NEW v, CardInv(v), NEW w, Quits(w, v, m.disk, MayHang(v, faults)), disk = m.disk,
         NEW name, NEW left, Returns(w, name, left), pc' \in {"begun", "idle", "verify"}
  PROVE  CardInv(v)'
<1>1. Layout16(v) /\ faults \in Nat
  BY DEF CardInv
<1>2. Leaves(w, v, m.disk, MayHang(v, faults)) /\ w.f.type = "closed"
  BY DEF Quits
<1>3. Ends(v, m', pending', disk', op', faults') /\ m'.f = w.f
  BY <1>1, <1>2, ReturnsDoes
<1> QED BY <1>1, <1>2, <1>3 DEF CardInv, Ends

\* A call after which the file may be open.
LEMMA OpenKeeps ==
  ASSUME NEW v, CardInv(v), NEW w, Leaves(w, v, m.disk, MayHang(v, faults)), disk = m.disk,
         NEW name, NEW left, Returns(w, name, left), pc' = "verify"
  PROVE  CardInv(v)'
<1>1. Layout16(v) /\ faults \in Nat
  BY DEF CardInv
<1>2. Ends(v, m', pending', disk', op', faults') /\ m'.f = w.f
  BY <1>1, ReturnsDoes
<1> QED BY <1>1, <1>2 DEF CardInv, Ends

LEMMA MkDirKeeps ==
  ASSUME NEW v, CardInv(v), SetupMkDir
  PROVE  CardInv(v)'
<1>1. PICK left \in MayFail : Returns(MkDir([m EXCEPT !.left = left], "ACNODE"), "mkdir", left)
  BY DEF SetupMkDir
<1>2. Quiet /\ pc \in {"begun", "idle", "verify"} /\ pc # "verify" /\ pc' = "idle" /\ left \in Nat
  BY FailingIsNat DEF SetupMkDir
<1>3. PICK a : a = [m EXCEPT !.left = left]
  OBVIOUS
<1>4. disk = m.disk /\ Quits(a, v, m.disk, MayHang(v, faults))
  BY <1>2, <1>3, CallStarts
<1>5. PICK w : w = MkDir(a, "ACNODE")
  OBVIOUS
<1>6. Quits(w, v, m.disk, MayHang(v, faults))
  BY <1>4, <1>5, MkDirCall
<1>7. Returns(w, "mkdir", left)
  BY <1>1, <1>3, <1>5
<1> QED BY <1>2, <1>4, <1>6, <1>7, QuitKeeps

LEMMA GetKeeps ==
  ASSUME NEW v, CardInv(v), NEW uid, Get(uid)
  PROVE  CardInv(v)'
<1>1. PICK left \in MayFail : Returns(SdGet([m EXCEPT !.left = left], uid), "get", left)
  BY DEF Get
<1>2. Quiet /\ pc \in {"begun", "idle", "verify"} /\ pc # "verify" /\ pc' = "idle" /\ left \in Nat
  BY FailingIsNat DEF Get
<1>3. PICK a : a = [m EXCEPT !.left = left]
  OBVIOUS
<1>4. disk = m.disk /\ Quits(a, v, m.disk, MayHang(v, faults))
  BY <1>2, <1>3, CallStarts
<1>5. PICK w : w = SdGet(a, uid)
  OBVIOUS
<1>6. Quits(w, v, m.disk, MayHang(v, faults))
  BY <1>4, <1>5, GetCall
<1>7. Returns(w, "get", left)
  BY <1>1, <1>3, <1>5
<1> QED BY <1>2, <1>4, <1>6, <1>7, QuitKeeps

LEMMA SetKeeps ==
  ASSUME NEW v, CardInv(v), NEW c, Set(c)
  PROVE  CardInv(v)'
<1>1. PICK left \in MayFail :
        Returns(SetCard([m EXCEPT !.left = left], SdStruct(c)), "set", left)
  BY DEF Set, SetReturns
<1>2. Quiet /\ pc \in {"begun", "idle", "verify"} /\ pc # "verify" /\ pc' = "idle" /\ left \in Nat
  BY FailingIsNat DEF Set
<1>3. PICK a : a = [m EXCEPT !.left = left]
  OBVIOUS
<1>4. disk = m.disk /\ Quits(a, v, m.disk, MayHang(v, faults))
  BY <1>2, <1>3, CallStarts
<1>5. PICK w : w = SetCard(a, SdStruct(c))
  OBVIOUS
<1>6. Quits(w, v, m.disk, MayHang(v, faults))
  BY <1>4, <1>5, SetCall
<1>7. Returns(w, "set", left)
  BY <1>1, <1>3, <1>5
<1> QED BY <1>2, <1>4, <1>6, <1>7, QuitKeeps

LEMMA PurgeKeeps ==
  ASSUME NEW v, CardInv(v), Purge
  PROVE  CardInv(v)'
<1>1. PICK left \in MayFail :
        LET w == SdRemove([m EXCEPT !.left = left], "CACHE")
        IN  /\ Returns(w, "purge", left)
            /\ pc' = IF CardFileLost(CacheFlush(w).disk) THEN "lost" ELSE pc
  BY DEF Purge, PurgeReturns
<1>2. /\ Quiet /\ pc = "idle" /\ pc \in {"begun", "idle", "verify"} /\ pc # "verify"
      /\ left \in Nat /\ Layout16(v)
  BY FailingIsNat DEF Purge, CardInv
<1>3. PICK a : a = [m EXCEPT !.left = left]
  OBVIOUS
<1>4. /\ faults \in Nat /\ disk = m.disk /\ Quits(a, v, m.disk, MayHang(v, faults))
      /\ a.left = left
  BY <1>2, <1>3, CallStarts
<1>5. PICK w : w = SdRemove(a, "CACHE")
  OBVIOUS
<1>6. PICK lost : lost = CardFileLost(CacheFlush(w).disk)
  OBVIOUS
<1>7. Returns(w, "purge", left) /\ pc' = IF lost THEN "lost" ELSE "idle"
  BY <1>1, <1>2, <1>3, <1>5, <1>6
<1>8. Purged(v, m', pending', disk', op', faults', lost)
  BY <1>4, <1>5, <1>6, <1>7, PurgeCall
<1>9. faults' \in Nat
  BY <1>4, <1>7 DEF Returns
<1>10. CASE lost
  BY <1>2, <1>7, <1>8, <1>9, <1>10 DEF CardInv, Purged
<1>11. CASE ~lost
  BY <1>2, <1>7, <1>8, <1>9, <1>11 DEF CardInv, Purged
<1> QED BY <1>10, <1>11

LEMMA VerifyOpenKeeps ==
  ASSUME NEW v, CardInv(v), VerifyOpen
  PROVE  CardInv(v)'
<1>1. PICK w : w = Ignore(SeekSet(SdOpen(m, "CACHE", {"read", "write", "creat"}), "f", 0))
  OBVIOUS
<1>2. /\ Quiet /\ pc = "idle" /\ pc \in {"begun", "idle", "verify"} /\ pc' = "verify"
      /\ Returns(w, "open", 0)
  BY <1>1 DEF VerifyOpen
<1>3. PICK a : a = [m EXCEPT !.left = 0]
  OBVIOUS
<1>4. disk = m.disk /\ Between(m, v, MayHang(v, faults)) /\ m.f.type = "closed"
  <2>1. 0 \in Nat
    OBVIOUS
  <2>2. disk = m.disk /\ Between(m, v, MayHang(v, faults))
    BY <1>2, <1>3, <2>1, CallStarts
  <2> QED BY <1>2, <2>2 DEF CardInv
<1>5. Quits(m, v, m.disk, MayHang(v, faults))
  BY <1>4 DEF Quits, Leaves, Between
<1>6. Leaves(w, v, m.disk, MayHang(v, faults))
  BY <1>1, <1>5, OpenCall
<1> QED BY <1>2, <1>4, <1>6, OpenKeeps

LEMMA VerifyEntryKeeps ==
  ASSUME NEW v, CardInv(v), NEW answer, VerifyEntry(answer)
  PROVE  CardInv(v)'
<1>1. PICK left \in MayFail :
        Returns(VerifyRecord([m EXCEPT !.left = left], answer), "verify", left)
  BY DEF VerifyEntry, VerifyReturns
<1>2. /\ Quiet /\ pc = "verify" /\ pc \in {"begun", "idle", "verify"} /\ pc' = "verify"
      /\ left \in Nat /\ Available(m) # 0
  BY FailingIsNat DEF VerifyEntry
<1>3. PICK a : a = [m EXCEPT !.left = left]
  OBVIOUS
<1>4. disk = m.disk /\ Leaves(a, v, m.disk, MayHang(v, faults)) /\ a.f = m.f
  BY <1>2, <1>3, CallStarts
<1>5. Available(a) # 0
  BY <1>2, <1>4 DEF Available
<1>6. PICK w : w = VerifyRecord(a, answer)
  OBVIOUS
<1>7. Leaves(w, v, m.disk, MayHang(v, faults))
  BY <1>4, <1>5, <1>6, EntryCall
<1>8. Returns(w, "verify", left)
  BY <1>1, <1>3, <1>6
<1> QED BY <1>2, <1>4, <1>7, <1>8, OpenKeeps

LEMMA VerifyCloseKeeps ==
  ASSUME NEW v, CardInv(v), VerifyClose
  PROVE  CardInv(v)'
<1>1. PICK left \in MayFail : Returns(FileClose([m EXCEPT !.left = left]), "verify", left)
  BY DEF VerifyClose
<1>2. /\ Quiet /\ pc = "verify" /\ pc \in {"begun", "idle", "verify"} /\ pc' = "idle"
      /\ left \in Nat
  BY FailingIsNat DEF VerifyClose
<1>3. PICK a : a = [m EXCEPT !.left = left]
  OBVIOUS
<1>4. disk = m.disk /\ Leaves(a, v, m.disk, MayHang(v, faults))
  BY <1>2, <1>3, CallStarts
<1>5. PICK w : w = FileClose(a)
  OBVIOUS
<1>6. Quits(w, v, m.disk, MayHang(v, faults))
  BY <1>4, <1>5, CloseCall
<1>7. Returns(w, "verify", left)
  BY <1>1, <1>3, <1>5
<1> QED BY <1>2, <1>4, <1>6, <1>7, QuitKeeps

LEMMA DeviceWriteKeeps ==
  ASSUME NEW v, CardInv(v), DeviceWrite
  PROVE  CardInv(v)'
<1>1. /\ pending # <<>> /\ disk' = [disk EXCEPT ![Head(pending)[1]] = Head(pending)[2]]
      /\ pending' = Tail(pending) /\ m' = m /\ pc' = pc /\ op' = op /\ faults' = faults
  BY DEF DeviceWrite
<1>2. PICK from, log, z, rest : from = disk /\ log = pending /\ z = disk' /\ rest = pending'
  OBVIOUS
<1>3. log # <<>> /\ rest = Tail(log) /\ z = [from EXCEPT ![Head(log)[1]] = Head(log)[2]]
  BY <1>1, <1>2
<1>4. /\ Layout16(v) /\ faults \in Nat /\ pc \in {"off", "begun", "idle", "verify", "lost"}
      /\ pc # "off" /\ (pc \in {"begun", "idle"} => m.f.type = "closed")
  BY <1>1 DEF CardInv
<1>5. pc \in {"begun", "idle", "verify"} => Ends(v, m, rest, z, op, faults)
  <2>1. SUFFICES ASSUME Ends(v, m, log, from, op, faults)
                 PROVE  Ends(v, m, rest, z, op, faults)
    BY <1>2 DEF CardInv
  <2>2. PICK to, purged : to = m.disk /\ purged = MayHangIn(v, op, faults)
    OBVIOUS
  <2>3. Trail(from, log, to, v, purged)
    BY <2>1, <2>2 DEF Ends
  <2>4. Trail(z, rest, to, v, purged)
    BY <1>3, <2>3, TrailShrinks
  <2> QED BY <2>1, <2>2, <2>4 DEF Ends
<1>6. pc = "lost" => \E to : Trail(z, rest, to, v, Slots(v))
  <2>1. SUFFICES ASSUME NEW to, Trail(from, log, to, v, Slots(v))
                 PROVE  Trail(z, rest, to, v, Slots(v))
    BY <1>2 DEF CardInv
  <2> QED BY <1>3, <2>1, TrailShrinks
<1> QED BY <1>1, <1>2, <1>4, <1>5, <1>6 DEF CardInv

\* What the card holds is sound but for the entries that may hang.
LEMMA CardIsGood ==
  ASSUME NEW v, CardInv(v)
  PROVE  /\ Good(disk, v, Slots(v)) /\ Layout16(v)
         /\ pc # "lost" /\ op # "purge" /\ ~(faults > 0) => Good(disk, v, {})
<1>1. PICK from, log : from = disk /\ log = pending
  OBVIOUS
<1>2. Layout16(v) /\ pc \in {"off", "begun", "idle", "verify", "lost"}
  BY DEF CardInv
<1>3. CASE pc = "off"
  <2>1. Good(from, v, {}) /\ {} \subseteq Slots(v)
    BY <1>1, <1>3 DEF CardInv
  <2>2. Good(from, v, Slots(v))
    BY <2>1, GoodMay
  <2> QED BY <1>1, <1>2, <2>1, <2>2
<1>4. CASE pc \in {"begun", "idle", "verify"}
  <2>1. PICK to, purged : to = m.disk /\ purged = MayHangIn(v, op, faults)
    OBVIOUS
  <2>2. Trail(from, log, to, v, purged)
    BY <1>1, <1>4, <2>1 DEF CardInv, Ends
  <2>3. Good(from, v, purged)
    BY <2>2, TrailStart
  <2>4. purged \subseteq Slots(v) /\ (op # "purge" /\ ~(faults > 0) => purged = {})
    BY <2>1 DEF MayHangIn
  <2>5. Good(from, v, Slots(v))
    BY <2>3, <2>4, GoodMay
  <2> QED BY <1>1, <1>2, <2>3, <2>4, <2>5
<1>5. CASE pc = "lost"
  <2>1. PICK to : Trail(from, log, to, v, Slots(v))
    BY <1>1, <1>5 DEF CardInv
  <2>2. Good(from, v, Slots(v))
    BY <2>1, TrailStart
  <2> QED BY <1>1, <1>2, <1>5, <2>2
<1> QED BY <1>2, <1>3, <1>4, <1>5

LEMMA ResetKeeps ==
  ASSUME NEW v, CardInv(v), Reset
  PROVE  CardInv(v)'
<1>1. /\ pc' = IF CardFileLost(disk) THEN "lost" ELSE "off"
      /\ m' = Machine(disk) /\ pending' = <<>> /\ disk' = disk /\ faults' = faults
  BY DEF Reset
<1>2. PICK disc : disc = disk
  OBVIOUS
<1>3. Layout16(v) /\ faults \in Nat /\ Good(disc, v, Slots(v))
  BY <1>2, CardIsGood DEF CardInv
<1>4. CASE CardFileLost(disc)
  <2>1. Trail(disc, <<>>, disc, v, Slots(v))
    BY <1>3, TrailStarts
  <2>2. pc' = "lost" /\ Trail(disk', pending', disc, v, Slots(v))
    BY <1>1, <1>2, <1>4, <2>1
  <2> QED BY <1>1, <1>3, <2>2 DEF CardInv
<1>5. CASE ~CardFileLost(disc)
  <2>1. Good(disc, v, {})
    BY <1>3, <1>5, NotLostGood
  <2>2. pc' = "off" /\ m' = Machine(disk') /\ Good(disk', v, {})
    BY <1>1, <1>2, <1>5, <2>1
  <2> QED BY <1>1, <1>3, <2>2 DEF CardInv
<1> QED BY <1>4, <1>5

LEMMA NewCardKeeps ==
  ASSUME SoundFormats, NEW v, CardInv(v), NewCard
  PROVE  VolumeInv'
<1>1. PICK i \in DOMAIN Formats : disk' = Formats[i]
  BY DEF NewCard
<1>2. PICK w : Layout16(w) /\ Good(Formats[i], w, {})
  BY DEF SoundFormats
<1>3. /\ m' = Machine(disk') /\ pending' = <<>> /\ pc' = "off" /\ faults' = faults
      /\ faults \in Nat
  BY DEF NewCard, CardInv
<1>4. Good(disk', w, {})
  BY <1>1, <1>2
<1>5. CardInv(w)'
  BY <1>2, <1>3, <1>4 DEF CardInv
<1> QED BY <1>5 DEF VolumeInv

LEMMA StutterKeeps ==
  ASSUME NEW v, CardInv(v), UNCHANGED vars
  PROVE  CardInv(v)'
<1>1. /\ pending' = pending /\ disk' = disk /\ m' = m /\ pc' = pc /\ op' = op
      /\ faults' = faults
  BY DEF vars
<1> QED BY <1>1 DEF CardInv

LEMMA InitHolds ==
  ASSUME SoundFormats, Init
  PROVE  VolumeInv
<1>1. PICK i \in DOMAIN Formats : disk = Formats[i]
  BY DEF Init
<1>2. PICK w : Layout16(w) /\ Good(Formats[i], w, {})
  BY DEF SoundFormats
<1>3. m = Machine(disk) /\ pending = <<>> /\ pc = "off" /\ faults = 0
  BY DEF Init
<1>4. CardInv(w)
  BY <1>1, <1>2, <1>3 DEF CardInv
<1> QED BY <1>4 DEF VolumeInv

\* Whatever the calls, the resets and the writes that fail: the card is
\* lost, or the writes that are still to be made lead from sound volume to
\* sound volume.
THEOREM VolumeInvariant ==
  ASSUME SoundFormats
  PROVE  Spec => []VolumeInv
<1>1. Init => VolumeInv
  BY InitHolds
<1>2. VolumeInv /\ [Next]_vars => VolumeInv'
  <2>1. SUFFICES ASSUME NEW v, CardInv(v), [Next]_vars
                 PROVE  VolumeInv'
    BY DEF VolumeInv
  <2>2. CASE SetupBegin
    BY <2>1, <2>2, BeginKeeps DEF VolumeInv
  <2>3. CASE SetupMkDir
    BY <2>1, <2>3, MkDirKeeps DEF VolumeInv
  <2>4. ASSUME NEW uid \in Uids, Get(uid)
        PROVE  VolumeInv'
    BY <2>1, <2>4, GetKeeps DEF VolumeInv
  <2>5. ASSUME NEW c \in Stored, Set(c)
        PROVE  VolumeInv'
    BY <2>1, <2>5, SetKeeps DEF VolumeInv
  <2>6. CASE Purge
    BY <2>1, <2>6, PurgeKeeps DEF VolumeInv
  <2>7. CASE VerifyOpen
    BY <2>1, <2>7, VerifyOpenKeeps DEF VolumeInv
  <2>8. ASSUME NEW answer \in {-1, 0, 1, 2}, VerifyEntry(answer)
        PROVE  VolumeInv'
    BY <2>1, <2>8, VerifyEntryKeeps DEF VolumeInv
  <2>9. CASE VerifyClose
    BY <2>1, <2>9, VerifyCloseKeeps DEF VolumeInv
  <2>10. CASE DeviceWrite
    BY <2>1, <2>10, DeviceWriteKeeps DEF VolumeInv
  <2>11. CASE Reset
    BY <2>1, <2>11, ResetKeeps DEF VolumeInv
  <2>12. CASE NewCard
    BY <2>1, <2>12, NewCardKeeps
  <2>13. CASE UNCHANGED vars
    BY <2>1, <2>13, StutterKeeps DEF VolumeInv
  <2> QED BY <2>1, <2>2, <2>3, <2>4, <2>5, <2>6, <2>7, <2>8, <2>9, <2>10, <2>11, <2>12,
             <2>13 DEF Next
<1> QED BY <1>1, <1>2, PTL DEF Spec

\* Along a chain.
LinkingTo(w, first, k, run) ==
  run = [n \in 0 .. k |-> IF n = 0 THEN first
                          ELSE Behind(w, run[n - 1])]

LEMMA LinkingExists ==
  ASSUME NEW w, NEW first
  PROVE  \A k \in Nat : \E run : LinkingTo(w, first, k, run)
<1> DEFINE S == {k \in Nat : ~\E run : LinkingTo(w, first, k, run)}
<1>1. CASE S = {}
  BY <1>1
<1>2. CASE S # {}
  <2>1. PICK k \in S : \A j \in S : k <= j
    BY <1>2, LeastNumber
  <2>2. CASE k = 0
    <3> DEFINE run == [n \in 0 .. 0 |-> first]
    <3>1. LinkingTo(w, first, 0, run)
      BY DEF LinkingTo
    <3> QED BY <2>1, <2>2, <3>1
  <2>3. CASE k # 0
    <3>1. k - 1 \in Nat /\ k - 1 \notin S
      BY <2>1, <2>3
    <3>2. PICK run : LinkingTo(w, first, k - 1, run)
      BY <3>1
    <3> DEFINE on == [n \in 0 .. k |-> IF n = k THEN Behind(w, run[n - 1]) ELSE run[n]]
    <3>3. \A n \in 0 .. k - 1 : /\ on[n] = run[n]
                                /\ run[n] = IF n = 0 THEN first
                                            ELSE Behind(w, run[n - 1])
      <4>1. \A n \in 0 .. k - 1 : n \in 0 .. k /\ n # k
        BY <2>1
      <4>2. \A n \in 0 .. k - 1 : run[n] = IF n = 0 THEN first
                                           ELSE Behind(w, run[n - 1])
        BY <3>2, Zenon DEF LinkingTo
      <4> QED BY <4>1, <4>2, Zenon
    <3>4. \A n \in 0 .. k : on[n] = IF n = 0 THEN first
                                     ELSE Behind(w, on[n - 1])
      <4> SUFFICES ASSUME NEW n \in 0 .. k
                   PROVE  on[n] = IF n = 0 THEN first ELSE Behind(w, on[n - 1])
        OBVIOUS
      <4> HIDE DEF on
      <4>1. CASE n = k
        <5>1. on[k] = Behind(w, run[k - 1]) /\ k - 1 \in 0 .. k - 1
          BY <2>1, <2>3 DEF on
        <5> QED BY <2>3, <3>3, <4>1, <5>1
      <4>2. CASE n # k
        <5>1. n \in 0 .. k - 1 /\ (n # 0 => n - 1 \in 0 .. k - 1)
          BY <2>1, <4>2
        <5> QED BY <3>3, <5>1
      <4> QED BY <4>1, <4>2
    <3>5. LinkingTo(w, first, k, on)
      <4>1. on = [n \in 0 .. k |-> on[n]]
        OBVIOUS
      <4> HIDE DEF on
      <4> QED BY <3>4, <4>1, Zenon DEF LinkingTo
    <3> QED BY <2>1, <3>5
  <2> QED BY <2>2, <2>3
<1> QED BY <1>1, <1>2

LinkingRun(w, first, k, run) ==
  /\ run[0] = first
  /\ \A n \in 1 .. k : run[n] = Behind(w, run[n - 1])

LEMMA LinkingRuns ==
  ASSUME NEW w, NEW first, NEW k \in Nat, NEW run, LinkingTo(w, first, k, run)
  PROVE  LinkingRun(w, first, k, run)
<1>1. \A n \in 0 .. k : run[n] = IF n = 0 THEN first
                                 ELSE Behind(w, run[n - 1])
  BY Zenon DEF LinkingTo
<1>2. 0 \in 0 .. k /\ \A n \in 1 .. k : n \in 0 .. k /\ n # 0
  OBVIOUS
<1> QED BY <1>1, <1>2, Zenon DEF LinkingRun

LEMMA LinkingIs ==
  ASSUME NEW w, NEW first, NEW k \in Nat, k = w.vol.clusterCount, first # 0
  PROVE  \E run : /\ LinkingRun(w, first, k, run)
                  /\ LET chain == {run[n] : n \in 0 .. k}
                     IN  Clusters(w, first) = IF \E c \in chain : IsEOC(c)
                                              THEN {c \in chain : ~IsEOC(c)} ELSE {0}
<1> DEFINE run == CHOOSE run : LinkingTo(w, first, k, run)
<1>1. LinkingTo(w, first, k, run)
  BY LinkingExists
<1> DEFINE chain == {run[n] : n \in 0 .. k}
<1>2. Clusters(w, first) = IF \E c \in chain : IsEOC(c) THEN {c \in chain : ~IsEOC(c)} ELSE {0}
  BY DEF Clusters, LinkingTo
<1> HIDE DEF run
<1>3. LinkingRun(w, first, k, run)
  BY <1>1, LinkingRuns
<1> QED BY <1>2, <1>3

\* What is on the chain of slot s after n steps.
OnStep(c, n, g, s) ==
  /\ n < g.len[s] => c \in g.has /\ g.own[c] = s /\ g.rank[c] = n
  /\ n >= g.len[s] => IsEOC(c)

LEMMA StepsOn ==
  ASSUME NEW w, NEW disc, NEW v, Layout16(v), Holds(disc, v), Finds(w, disc, v),
         NEW dir, NEW g, NEW purged, Chains(TableOf(disc, v), dir, v, g, purged),
         NEW s \in Slots(v), NEW n \in Nat, NEW c, NEW e, OnStep(c, n, g, s), e = Behind(w, c)
  PROVE  OnStep(e, n + 1, g, s)
<1>1. PICK t, len : t = TableOf(disc, v) /\ len = g.len[s]
  OBVIOUS
<1>2. len \in Nat /\ (\A x \in g.has : g.rank[x] \in Nat /\ g.rank[x] < g.len[g.own[x]])
  BY <1>1 DEF Chains
<1>3. t \in [ClustersOf(v) -> Nat]
  BY <1>1, HoldsTypes
<1>4. \A x \in ClustersOf(v) : Fat(w, x) = t[x] /\ ~IsEOC(x)
  BY <1>1 DEF Finds, ClustersOf, IsEOC, Layout16, EOC
<1>5. 2 .. FatEnd(w) = ClustersOf(v)
  BY DEF Finds, ClustersOf
<1>6. CASE n < len
  <2>1. c \in g.has /\ g.own[c] = s /\ g.rank[c] = n
    BY <1>1, <1>6 DEF OnStep
  <2>2. Chains(t, dir, v, g, purged)
    BY <1>1
  <2>3. /\ c \in ClustersOf(v) /\ OnChain(t[c], g, s)
        /\ ~IsEOC(t[c]) => g.rank[t[c]] = g.rank[c] + 1
        /\ IsEOC(t[c]) => g.rank[c] + 1 = g.len[s]
    BY <1>3, <2>1, <2>2, ChainLeadsOn
  <2>4. e = t[c]
    BY <1>4, <1>5, <2>3 DEF Behind
  <2>5. CASE IsEOC(e)
    <3>1. n + 1 = len
      BY <1>1, <2>1, <2>3, <2>4, <2>5
    <3> QED BY <1>1, <1>2, <2>5, <3>1 DEF OnStep
  <2>6. CASE ~IsEOC(e)
    <3>1. e \in g.has /\ g.own[e] = s /\ g.rank[e] = n + 1
      BY <2>1, <2>3, <2>4, <2>6 DEF OnChain
    <3>2. n + 1 < len
      BY <1>1, <1>2, <3>1
    <3> QED BY <1>1, <1>2, <3>1, <3>2 DEF OnStep
  <2> QED BY <2>5, <2>6
<1>7. CASE ~(n < len)
  <2>1. IsEOC(c) /\ n + 1 >= len /\ ~(n + 1 < len)
    BY <1>1, <1>2, <1>7 DEF OnStep
  <2>2. e = c
    BY <1>4, <1>5, <2>1 DEF Behind
  <2> QED BY <1>1, <2>1, <2>2 DEF OnStep
<1> QED BY <1>6, <1>7

\* The clusters of slot s that a chain consists of, which are enough for it.
Linked(H, g, s) ==
  /\ H \subseteq g.has /\ \A c \in H : g.own[c] = s
  /\ Cardinality(H) \in Nat /\ g.len[s] <= Cardinality(H)

LEMMA ClustersDoes ==
  ASSUME NEW w, NEW disc, NEW v, Layout16(v), Holds(disc, v), Finds(w, disc, v),
         NEW dir, NEW g, NEW purged, Chains(TableOf(disc, v), dir, v, g, purged),
         NEW s \in Slots(v), NEW first \in g.has, g.own[first] = s, g.rank[first] = 0,
         NEW H, H = Clusters(w, first)
  PROVE  Linked(H, g, s)
<1>1. PICK k, len : k = v.clusterCount /\ len = g.len[s]
  OBVIOUS
<1>2. /\ k \in Nat /\ len \in Nat /\ k = w.vol.clusterCount /\ g.has \subseteq 2 .. k + 1
      /\ \A x \in g.has : g.rank[x] \in Nat /\ g.rank[x] < g.len[g.own[x]]
  BY <1>1 DEF Chains, Layout16, Finds, ClustersOf
<1>3. first # 0 /\ 0 < len
  BY <1>1, <1>2
<1>4. PICK run :
        /\ LinkingRun(w, first, k, run)
        /\ LET chain == {run[n] : n \in 0 .. k}
           IN  Clusters(w, first) = IF \E c \in chain : IsEOC(c)
                                    THEN {c \in chain : ~IsEOC(c)} ELSE {0}
  BY <1>2, <1>3, LinkingIs
<1> DEFINE S == {n \in 0 .. k : OnStep(run[n], n, g, s)}
<1>5. 0 \in S
  <2>1. run[0] = first
    BY <1>4 DEF LinkingRun
  <2> QED BY <1>1, <1>2, <1>3, <2>1 DEF OnStep
<1>6. \A n \in 1 .. k : n - 1 \in S => n \in S
  <2> SUFFICES ASSUME NEW n \in 1 .. k, n - 1 \in S
               PROVE  n \in S
    OBVIOUS
  <2>1. PICK i, c : i = n - 1 /\ c = run[n - 1]
    OBVIOUS
  <2>2. i \in Nat /\ n = i + 1 /\ n \in 0 .. k
    BY <2>1
  <2>3. PICK e : e = Behind(w, c)
    OBVIOUS
  <2>4. run[n] = e
    BY <1>4, <2>1, <2>3 DEF LinkingRun
  <2>5. OnStep(c, i, g, s)
    BY <2>1
  <2>6. OnStep(e, i + 1, g, s)
    BY <2>2, <2>3, <2>5, StepsOn
  <2> QED BY <2>2, <2>4, <2>6
<1> HIDE DEF S
<1>7. \A n \in 0 .. k : n \in S
  BY <1>2, <1>5, <1>6, Upwards
<1>8. \A n \in 0 .. k : /\ n < len => run[n] \in g.has /\ g.own[run[n]] = s /\ g.rank[run[n]] = n
                        /\ n >= len => IsEOC(run[n])
  BY <1>1, <1>7 DEF S, OnStep
<1>9. len <= k
  <2> SUFFICES ASSUME ~(len <= k)
               PROVE  FALSE
    OBVIOUS
  <2>1. \A n \in 0 .. k : run[n] \in 2 .. k + 1 /\ g.rank[run[n]] = n
    BY <1>2, <1>8
  <2> DEFINE f == [n \in 0 .. k |-> run[n]]
  <2>2. f \in [0 .. k -> 2 .. k + 1] /\ \A n \in 0 .. k : f[n] = run[n]
    BY <2>1
  <2> HIDE DEF f
  <2>3. 0 \in Int /\ k \in Int /\ 2 \in Int /\ k + 1 \in Int
    BY <1>2
  <2>4. /\ IsFiniteSet(0 .. k) /\ IsFiniteSet(2 .. k + 1)
        /\ Cardinality(2 .. k + 1) < Cardinality(0 .. k)
    <3>1. IsFiniteSet(0 .. k) /\ Cardinality(0 .. k) = IF 0 > k THEN 0 ELSE k - 0 + 1
      BY <2>3, FS_Interval, Zenon
    <3>2. IsFiniteSet(2 .. k + 1)
          /\ Cardinality(2 .. k + 1) = IF 2 > k + 1 THEN 0 ELSE (k + 1) - 2 + 1
      BY <2>3, FS_Interval, Zenon
    <3> QED BY <1>2, <3>1, <3>2
  <2>5. \E x, y \in 0 .. k : x # y /\ f[x] = f[y]
    <3>1. PICK A, B : A = 0 .. k /\ B = 2 .. k + 1
      OBVIOUS
    <3>2. IsFiniteSet(A) /\ IsFiniteSet(B) /\ Cardinality(B) < Cardinality(A) /\ f \in [A -> B]
      BY <2>2, <2>4, <3>1
    <3>3. \E x, y \in A : x # y /\ f[x] = f[y]
      BY <3>2, FS_PigeonHole, Zenon
    <3> QED BY <3>1, <3>3
  <2> QED BY <2>1, <2>2, <2>5
<1>10. H = {c \in {run[n] : n \in 0 .. k} : ~IsEOC(c)}
  <2>1. len \in 0 .. k /\ IsEOC(run[len])
    BY <1>2, <1>8, <1>9
  <2> QED BY <1>4, <2>1
<1>11. H \subseteq g.has /\ \A c \in H : g.own[c] = s
  BY <1>2, <1>8, <1>10
<1>12. IsFiniteSet(H) /\ Cardinality(H) \in Nat
  <2>0. 2 \in Int /\ k + 1 \in Int
    BY <1>2
  <2>1. IsFiniteSet(2 .. k + 1)
    BY <2>0, FS_Interval, Zenon
  <2>2. H \subseteq 2 .. k + 1
    BY <1>2, <1>11
  <2>3. IsFiniteSet(H)
    BY <2>1, <2>2, FS_Subset
  <2> QED BY <2>3, FS_CardinalityType
<1>13. len <= Cardinality(H)
  <2> DEFINE f == [n \in 0 .. len - 1 |-> run[n]]
  <2>1. \A n \in 0 .. len - 1 : n \in 0 .. k /\ n < len
    BY <1>2, <1>9
  <2>2. \A n \in 0 .. len - 1 : run[n] \in H /\ g.rank[run[n]] = n
    <3> SUFFICES ASSUME NEW n \in 0 .. len - 1
                 PROVE  run[n] \in H /\ g.rank[run[n]] = n
      OBVIOUS
    <3>1. run[n] \in g.has /\ g.rank[run[n]] = n
      BY <1>8, <2>1
    <3>2. run[n] \in 2 .. k + 1 /\ EOC \in Nat /\ k + 1 < EOC
      BY <1>1, <1>2, <3>1 DEF Layout16, EOC
    <3>3. ~IsEOC(run[n])
      BY <1>2, <3>2 DEF IsEOC
    <3> QED BY <1>10, <2>1, <3>1, <3>3
  <2>3. f \in [0 .. len - 1 -> H] /\ \A n \in 0 .. len - 1 : f[n] = run[n]
    BY <2>2
  <2> HIDE DEF f
  <2>4. f \in Injection(0 .. len - 1, H)
    BY <2>2, <2>3 DEF Injection, IsInjective
  <2>5. Cardinality(0 .. len - 1) <= Cardinality(H)
    BY <1>12, <2>4, FS_Injection
  <2>6. 0 \in Int /\ len - 1 \in Int
    BY <1>2
  <2>7. Cardinality(0 .. len - 1) = IF 0 > len - 1 THEN 0 ELSE (len - 1) - 0 + 1
    BY <2>6, FS_Interval, Zenon
  <2> QED BY <1>2, <1>3, <2>5, <2>7
<1> QED BY <1>1, <1>11, <1>12, <1>13 DEF Linked

\* The clusters of the entry e of slot s.
Serves(H, e, s, v, g) ==
  /\ H \subseteq g.has /\ 0 \notin H /\ \A c \in H : g.own[c] = s
  /\ e.size <= Cardinality(H) * PerChain(v)

LEMMA FedIsServed ==
  ASSUME NEW w, NEW disc, NEW v, Layout16(v), Holds(disc, v), Finds(w, disc, v),
         NEW dir, NEW g, NEW purged, Chains(TableOf(disc, v), dir, v, g, purged),
         NEW s \in Slots(v), NEW e \in DirEntry, Fed(e, s, v, g),
         NEW H, H = Clusters(w, e.first)
  PROVE  Serves(H, e, s, v, g)
<1>1. PICK per, len : per = PerChain(v) /\ len = g.len[s]
  OBVIOUS
<1>2. per \in Nat /\ len \in Nat /\ 0 \notin g.has /\ e.size \in Nat
  BY <1>1, PerChainIs DEF Layout16, Chains, ClustersOf, DirEntry
<1>3. CASE e.first = 0
  <2>1. H = {} /\ e.size = 0
    BY <1>3 DEF Fed, Clusters
  <2>2. Cardinality(H) = 0
    BY <2>1, FS_EmptySet
  <2> QED BY <1>1, <1>2, <2>1, <2>2 DEF Serves
<1>4. CASE e.first # 0
  <2>1. PICK first : first = e.first
    OBVIOUS
  <2>2. first \in g.has /\ g.own[first] = s /\ g.rank[first] = 0 /\ e.size <= len * per
    BY <1>1, <1>4, <2>1 DEF Fed
  <2>3. Linked(H, g, s)
    BY <2>1, <2>2, ClustersDoes
  <2>4. PICK n : n = Cardinality(H)
    OBVIOUS
  <2>5. n \in Nat /\ len <= n /\ H \subseteq g.has /\ \A c \in H : g.own[c] = s
    BY <1>1, <2>3, <2>4 DEF Linked
  <2>6. len * per <= n * per
    BY <1>2, <2>5
  <2>7. len * per \in Nat /\ n * per \in Nat
    BY <1>2, <2>5
  <2>8. e.size <= n * per
    BY <1>2, <2>2, <2>6, <2>7
  <2> QED BY <1>1, <1>2, <2>4, <2>5, <2>8 DEF Serves
<1> QED BY <1>3, <1>4

\* An entry of which the first cluster is free is one that hangs.
LEMMA EntryIsFed ==
  ASSUME NEW w, NEW disc, NEW v, Layout16(v), Holds(disc, v), Finds(w, disc, v),
         NEW g, NEW purged, Chains(TableOf(disc, v), DirOf(disc, v), v, g, purged),
         NEW e \in Entries(w)
  PROVE  /\ e \in DirEntry
         /\ Dangles(w, e) => e.name = "CACHE" /\ purged # {}
         /\ ~Dangles(w, e) => \E s \in Slots(v) : e = DirOf(disc, v)[s] /\ Fed(e, s, v, g)
<1>1. PICK t, dir : t = TableOf(disc, v) /\ dir = DirOf(disc, v)
  OBVIOUS
<1>2. dir \in [Slots(v) -> DirEntry] /\ Chains(t, dir, v, g, purged)
  BY <1>1, HoldsTypes
<1>3. PICK s \in Slots(v) : e = dir[s] /\ Live(e)
  BY <1>1 DEF Finds
<1>4. e \in DirEntry /\ (Fed(e, s, v, g) \/ (s \in purged /\ Hangs(e, t, v)))
  BY <1>2, <1>3 DEF Chains
<1>5. \A c \in ClustersOf(v) : Fat(w, c) = t[c] /\ c # 0
  BY <1>1 DEF Finds, ClustersOf
<1>6. CASE Fed(e, s, v, g)
  <2>1. ~Dangles(w, e)
    <3>1. CASE e.first = 0
      BY <3>1 DEF Dangles
    <3>2. CASE e.first # 0
      <4>1. PICK first : first = e.first
        OBVIOUS
      <4>2. first \in g.has
        BY <1>6, <3>2, <4>1 DEF Fed
      <4>3. first \in ClustersOf(v) /\ t[first] # 0
        BY <1>2, <4>2, OwnedIsTaken
      <4> QED BY <1>5, <4>1, <4>3 DEF Dangles
    <3> QED BY <3>1, <3>2
  <2> QED BY <1>1, <1>3, <1>4, <1>6, <2>1
<1>7. CASE s \in purged /\ Hangs(e, t, v)
  <2>1. Dangles(w, e) /\ e.name = "CACHE"
    BY <1>5, <1>7 DEF Hangs, Dangles
  <2> QED BY <1>4, <1>7, <2>1
<1> QED BY <1>4, <1>6, <1>7

LEMMA FoundIsSound ==
  ASSUME NEW w, NEW disc, NEW v, Layout16(v), Holds(disc, v), Finds(w, disc, v),
         NEW g, NEW purged, Chains(TableOf(disc, v), DirOf(disc, v), v, g, purged),
         NEW entries, entries = Entries(w), NEW dangling,
         dangling = {e \in entries : Dangles(w, e)}
  PROVE  Sound(w, entries \ dangling)
<1>1. PICK fed : fed = entries \ dangling
  OBVIOUS
<1> DEFINE files == {[of |-> e, has |-> Clusters(w, e.first)] : e \in fed}
<1>2. \A c \in files : /\ c.of \in fed /\ c.has = Clusters(w, c.of.first)
                        /\ c = [of |-> c.of, has |-> Clusters(w, c.of.first)]
  OBVIOUS
<1> HIDE DEF files
<1>3. \A c \in files : \E s \in Slots(v) : /\ c.of = DirOf(disc, v)[s]
                                            /\ Serves(c.has, c.of, s, v, g)
  <2> SUFFICES ASSUME NEW c \in files
               PROVE  \E s \in Slots(v) : c.of = DirOf(disc, v)[s] /\ Serves(c.has, c.of, s, v, g)
    OBVIOUS
  <2>1. PICK e, H : e = c.of /\ H = c.has
    OBVIOUS
  <2>2. e \in Entries(w) /\ ~Dangles(w, e) /\ H = Clusters(w, e.first)
    BY <1>1, <1>2, <2>1
  <2>3. e \in DirEntry /\ \E s \in Slots(v) : e = DirOf(disc, v)[s] /\ Fed(e, s, v, g)
    <3>1. /\ e \in DirEntry
          /\ ~Dangles(w, e) => \E s \in Slots(v) : e = DirOf(disc, v)[s] /\ Fed(e, s, v, g)
      BY <2>2, EntryIsFed
    <3> QED BY <2>2, <3>1
  <2>4. PICK s \in Slots(v) : e = DirOf(disc, v)[s] /\ Fed(e, s, v, g)
    BY <2>3
  <2>5. PICK dir : dir = DirOf(disc, v)
    OBVIOUS
  <2>6. Chains(TableOf(disc, v), dir, v, g, purged)
    BY <2>5
  <2>7. Serves(H, e, s, v, g)
    BY <2>2, <2>3, <2>4, <2>6, FedIsServed
  <2> QED BY <2>1, <2>4, <2>7
<1>4. w.vol = v /\ v.fatType = 16
  BY DEF Finds, Layout16
<1>5. PerCluster(w) = PerChain(v) /\ RootChain(w) = {}
  BY <1>4 DEF PerCluster, PerChain, RootChain
<1>6. ASSUME NEW c \in files
      PROVE  /\ 0 \notin c.has
             /\ c.of.size <= Cardinality(c.has) * PerCluster(w)
             /\ c.has \cap RootChain(w) = {}
             /\ \A o \in files \ {c} : c.has \cap o.has = {}
  <2>1. PICK s \in Slots(v) : c.of = DirOf(disc, v)[s] /\ Serves(c.has, c.of, s, v, g)
    BY <1>3
  <2>2. /\ 0 \notin c.has /\ c.of.size <= Cardinality(c.has) * PerCluster(w)
        /\ c.has \cap RootChain(w) = {}
    BY <1>5, <2>1 DEF Serves
  <2>3. ASSUME NEW o \in files \ {c}, NEW x \in c.has \cap o.has
        PROVE  FALSE
    <3>1. PICK r \in Slots(v) : o.of = DirOf(disc, v)[r] /\ Serves(o.has, o.of, r, v, g)
      BY <1>3, <2>3
    <3>2. g.own[x] = s /\ g.own[x] = r
      BY <2>1, <2>3, <3>1 DEF Serves
    <3>3. o.of = c.of
      BY <2>1, <3>1, <3>2
    <3>4. o = c
      BY <1>2, <2>3, <3>3, Zenon
    <3> QED BY <2>3, <3>4
  <2> QED BY <2>2, <2>3
<1>7. Sound(w, fed)
  BY <1>6, Zenon DEF Sound, files
<1> QED BY <1>1, <1>7

LEMMA CardIsSound ==
  ASSUME NEW v, CardInv(v)
  PROVE  VolumeSound
<1>1. PICK disc, w, entries : disc = disk /\ w = Fresh(disc) /\ entries = Entries(w)
  OBVIOUS
<1>2. PICK dangling : dangling = {e \in entries : Dangles(w, e)}
  OBVIOUS
<1>3. /\ Layout16(v) /\ Good(disc, v, Slots(v))
      /\ pc # "lost" /\ op # "purge" /\ ~(faults > 0) => Good(disc, v, {})
  BY <1>1, CardIsGood
<1>4. PICK g : Holds(disc, v) /\ Chains(TableOf(disc, v), DirOf(disc, v), v, g, Slots(v))
  BY <1>3 DEF Good
<1>5. Finds(w, disc, v)
  BY <1>1, <1>3, <1>4, FreshFinds
<1>6. Sound(w, entries \ dangling)
  <2>1. PICK purged : purged = Slots(v)
    OBVIOUS
  <2>2. Chains(TableOf(disc, v), DirOf(disc, v), v, g, purged)
    BY <1>4, <2>1
  <2> QED BY <1>1, <1>2, <1>3, <1>4, <1>5, <2>2, FoundIsSound
<1>7. ASSUME NEW e \in dangling
      PROVE  e.name = "CACHE" /\ (op = "purge" \/ pc = "lost" \/ faults > 0)
  <2>1. e \in Entries(w) /\ Dangles(w, e)
    BY <1>1, <1>2
  <2>2. PICK purged : purged = Slots(v)
    OBVIOUS
  <2>3. Chains(TableOf(disc, v), DirOf(disc, v), v, g, purged)
    BY <1>4, <2>2
  <2>4. e.name = "CACHE"
    BY <1>3, <1>4, <1>5, <2>1, <2>3, EntryIsFed
  <2>5. CASE pc # "lost" /\ op # "purge" /\ ~(faults > 0)
    <3>1. PICK h, none : none = {} /\ Chains(TableOf(disc, v), DirOf(disc, v), v, h, none)
      BY <1>3, <2>5 DEF Good
    <3>2. none # {}
      BY <1>3, <1>4, <1>5, <2>1, <3>1, EntryIsFed
    <3> QED BY <3>1, <3>2
  <2> QED BY <2>4, <2>5
<1> QED BY <1>1, <1>2, <1>6, <1>7 DEF VolumeSound

\* Before every single write of set(), verify() and purge(), of a call
\* that a reset cuts short and of one of which a write fails, the table on
\* the card fits its directory: no two files share a cluster, none is
\* longer than its chain, and only purge() leaves an entry without one.
THEOREM SdCardVolumeSound ==
  ASSUME SoundFormats
  PROVE  Spec => []VolumeSound
<1>1. VolumeInv => VolumeSound
  BY CardIsSound DEF VolumeInv
<1> QED BY <1>1, VolumeInvariant, PTL

=============================================================================
