--------------------------- MODULE RDBRescueProofs ---------------------------
(***************************************************************************)
(* For every area, all names, drivers and roots: what part-del and         *)
(* rdb-rebuild do to an image through their overlay.  A simulation shows   *)
(* in nothing, a commit that ends leaves a sound table, and where the      *)
(* commit of a deletion is killed the next rescue that adds partitions     *)
(* brings back what the deletion was to leave (RescueRestores).            *)
(*                                                                         *)
(* The argument.  RescueInv tells the instants of a command apart: a table *)
(* nobody works on, one that is lost, the simulations of a deletion, of a  *)
(* rescue that is to link PART blocks (and cannot) and of one that adds    *)
(* partitions, and a commit.  Each step leads from one of them to one of   *)
(* them.  A simulation is a run of RDisk on the overlay, so its steps are  *)
(* those of RDiskProofs; what a deletion adds to them is that PART blocks  *)
(* of the image are written as they were or not at all (SubParts), which   *)
(* is why an image half committed still has those it was to leave.         *)
(***************************************************************************)
EXTENDS RescueScanProofs

-----------------------------------------------------------------------------
(* The invariant *)

\* A table that nobody has in memory.
StoredTable(d, P, F, S) ==
  /\ IsTable(d, P, F, S)
  /\ crashes = 0 => \A x \in Used(P, F, S) : x <= d[RDSK].high_rdsk_block
  /\ crashes = 0 /\ inits = 0 =>
       \A x \in Blocks : d[x].magic = "PART" => \E i \in 1..Len(P) : x = P[i]

Closed == rdb = FreshRDB /\ parts = <<>> /\ fs = <<>> /\ opened = FALSE

Typed ==
  /\ disk \in [Blocks -> Content] /\ pending \in Seq(HeldBlock)
  /\ crashes \in 0..MaxUpsets /\ inits \in 0..MaxUpsets

\* The lost partitions have cylinders, and no PART block stands in the way of
\* another one.
Clear(d) == PartsApart(d) /\ \A p \in lost : p.lo <= p.hi

\* Each lost partition has its PART block.
LostOn(d) ==
  lost # {} => /\ Clear(d)
               /\ \A p \in lost :
                    \E b \in 1..RdbHi : d[b].magic = "PART" /\ PartRow(d[b]) = p

Broken(d) ==
  /\ d \in [Blocks -> Content] /\ crashes > 0
  /\ ~torn => ~HasTable(d)
  /\ LostOn(d)

NoneRuns == command = "none" /\ base = NoOverlay /\ queue = <<>>

\* There is a table, and perhaps a call of RDisk on it.
Settled == NoneRuns /\ ~torn /\ lost = {} /\ RInv

\* The table was overwritten, or its commit was killed.
Lost == NoneRuns /\ Typed /\ Closed /\ pending = <<>> /\ reread = "none" /\ Broken(disk)

\* part-del simulates. The table of the image has the partitions P.
DeleteStage(P, Q, F, S, L, i) ==
  \/ disk = base /\ Q = P /\ UnlinksPart(Q, F, S, L) /\ pending[2].blk = P[i]
  \/ /\ PartsOn(disk) = RemoveAt(PartsOn(base), i)
     /\ ScrubsPart(Q, F, S, L) \/ Quiet(Q, F, L)
Deleting ==
  /\ command = "part-del" /\ queue = <<>> /\ ~torn /\ TypeInv
  /\ SubParts(base, disk) /\ DriversOn(disk) = DriversOn(base)
  /\ lost # {} => Clear(base)
  /\ \E P, Q, F, S, L : \E i \in 1..Len(P) :
       /\ StoredTable(base, P, F, S) /\ StageInv(Q, F, S, L)
       /\ lost \subseteq ToSet(RemoveAt(PartsOn(base), i))
       /\ DeleteStage(P, Q, F, S, L, i)

\* rdb-rebuild has written a fresh RDSK block to the overlay, and is to link PART
\* blocks, which fails.
Relinking ==
  /\ command = "relink" /\ queue = <<>> /\ TypeInv /\ Broken(base)
  /\ StageInv(<<>>, <<>>, <<>>, {}) /\ Quiet(<<>>, <<>>, {})

\* rdb-rebuild adds partitions, R those that it has begun to add.
AddStage(P, F, S, L, R) ==
  \/ (Quiet(P, F, L) \/ Closes(P, F, L)) /\ R = PartsOn(disk)
  \/ WritesPart(P, F, S, L) /\ R = Append(PartsOn(disk), PartRow(Head(pending).data))
  \/ /\ LinksPart(P, F, S, L)
     /\ \A b \in L : R = Append(PartsOn(disk), PartRow(disk[b]))
Adding ==
  /\ command = "add" /\ queue \in Seq(Row) /\ TypeInv /\ Broken(base)
  /\ DriversOn(disk) = <<>>
  /\ \E P, F, S, L, R :
       /\ StageInv(P, F, S, L) /\ AddStage(P, F, S, L, R)
       /\ R \in Seq(Row) /\ Rising(R \o queue) /\ lost \subseteq ToSet(R \o queue)

\* A command writes what it has made of the image o to it: the table t.
Reaches(q, d, t) ==
  /\ \A i \in 1..Len(q) : q[i].data = t[q[i].blk]
  /\ \A b \in Blocks : d[b] = t[b] \/ \E i \in 1..Len(q) : q[i].blk = b
Between(d, o, t) == \A b \in Blocks : d[b] = o[b] \/ d[b] = t[b]
DeleteOf(o, t) ==
  /\ command = "part-del" /\ base = o /\ o # NoOverlay /\ ~torn
  /\ DriversOn(t) = DriversOn(o)
  /\ \E i \in DOMAIN PartsOn(o) : PartsOn(t) = RemoveAt(PartsOn(o), i)
RescueOf(t) ==
  /\ command = "add" /\ base = NoOverlay /\ crashes > 0
  /\ Rising(PartsOn(t)) /\ DriversOn(t) = <<>>
Writing ==
  /\ reread = "commit" /\ queue = <<>> /\ Typed /\ Closed
  /\ \E o, t, P, F, S :
       /\ StoredTable(t, P, F, S) /\ Reaches(pending, disk, t) /\ Between(disk, o, t)
       /\ lost \subseteq ToSet(PartsOn(t))
       /\ command = "part-del" => SubParts(o, t) /\ (lost # {} => Clear(o))
       /\ DeleteOf(o, t) \/ RescueOf(t)

RescueInv == Settled \/ Lost \/ Deleting \/ Relinking \/ Adding \/ Writing

-----------------------------------------------------------------------------
(* Images *)

\* An image is not the overlay that there is none of.
LEMMA ImageThere ==
  ASSUME NEW d, d \in [Blocks -> Content]
  PROVE  d # NoOverlay
<1>1. RDSK \in DOMAIN d
  BY Numbers
<1>2. DOMAIN NoOverlay = {}
  BY DEF NoOverlay
<1> QED BY <1>1, <1>2

\* A program that has ended, or was killed, has left no table in memory.
LEMMA ExitCloses ==
  ASSUME Exit
  PROVE  Closed'
BY DEF Exit, Closed

\* An image without a table has no partitions and no drivers.
LEMMA NoTable ==
  ASSUME NEW d, ~HasTable(d)
  PROVE  /\ PartChain(d) = <<>> /\ FsChain(d) = <<>>
         /\ PartsOn(d) = <<>> /\ DriversOn(d) = <<>>
<1>1. PartChain(d) = <<>> /\ FsChain(d) = <<>>
  BY DEF PartChain, FsChain
<1>2. DOMAIN <<>> = {}
  OBVIOUS
<1> QED BY <1>1, <1>2 DEF PartsOn, DriversOn

\* What is said of PART blocks is said of fewer, and of fewer of these.
LEMMA SubPartsTrans ==
  ASSUME NEW d, NEW e, NEW f, SubParts(d, e), SubParts(e, f)
  PROVE  SubParts(d, f)
BY DEF SubParts

\* PART blocks that are apart stay so when some of them go.
LEMMA SubPartsApart ==
  ASSUME NEW d, NEW e, SubParts(d, e), PartsApart(d)
  PROVE  PartsApart(e)
<1>1. ASSUME NEW b \in Blocks, e[b].magic = "PART"
      PROVE  d[b].magic = "PART" /\ e[b].lo = d[b].lo /\ e[b].hi = d[b].hi
  BY <1>1 DEF SubParts, PartRow
<1> QED BY <1>1 DEF PartsApart, Apart

\* The partitions of a stored table are apart, and so are its PART blocks if
\* there are no others.
LEMMA TableApart ==
  ASSUME NEW d, NEW P, NEW F, NEW S, IsTable(d, P, F, S),
         \A x \in Blocks : d[x].magic = "PART" => \E i \in 1..Len(P) : x = P[i]
  PROVE  PartsApart(d)
<1>1. ASSUME NEW b \in Blocks, NEW c \in Blocks, b # c, d[b].magic = "PART", d[c].magic = "PART"
      PROVE  Apart(d[b], d[c])
  <2>1. PICK i \in 1..Len(P), j \in 1..Len(P) : b = P[i] /\ c = P[j]
    BY <1>1
  <2> QED BY <1>1, <2>1 DEF IsTable, PartTable
<1> QED BY <1>1 DEF PartsApart

\* The rows of a table are what its PART blocks describe.
LEMMA RowBlocks ==
  ASSUME NEW d, NEW P, NEW F, NEW S, IsTable(d, P, F, S), NEW p
  PROVE  p \in ToSet(PartsOn(d)) <=> \E i \in 1..Len(P) : p = PartRow(d[P[i]])
<1>1. DOMAIN PartsOn(d) = 1..Len(P) /\ \A i \in 1..Len(P) : PartsOn(d)[i] = PartRow(d[P[i]])
  BY Rows, LenProperties
<1> QED BY <1>1 DEF ToSet

\* A table in whose memory nothing is left to write can be opened again.
LEMMA StoredQuiet ==
  ASSUME NEW P, NEW F, NEW S, NEW L, StageInv(P, F, S, L), Quiet(P, F, L)
  PROVE  StoredTable(disk, P, F, S)
<1>1. IsTable(disk, P, F, S) /\ HighInv(P, F, S) /\ ScanInv(P, {})
  BY DEF StageInv, Quiet
<1>2. crashes = 0 => \A x \in Used(P, F, S) : x <= disk[RDSK].high_rdsk_block
  BY <1>1 DEF HighInv, Quiet
<1>3. crashes = 0 /\ inits = 0 =>
        \A x \in Blocks : disk[x].magic = "PART" => \E i \in 1..Len(P) : x = P[i]
  BY <1>1 DEF ScanInv
<1> QED BY <1>1, <1>2, <1>3 DEF StoredTable

\* A fresh RDSK block is one.
LEMMA FreshTyped == FreshRDB \in Content /\ FreshRDB.magic = "RDSK" /\ RDSK \in Blocks
BY AreaAssumption, SMT DEF FreshRDB, RDBlock, Content, BlockNums, Blocks, RDSK

\* Nobody has a stored table in memory, and nothing is to be written.
LEMMA StoredInv ==
  ASSUME Typed', Closed', pending' = <<>>, reread' = "none",
         NEW P, NEW F, NEW S, StoredTable(disk, P, F, S)'
  PROVE  RInv'
<1>1. TypeInv'
  <2>1. <<>> \in Seq(HeldBlock)
    BY EmptySeq
  <2> QED BY <2>1, FreshTyped DEF TypeInv, Typed, Closed
<1>2. Quiet(P, F, {})'
  BY DEF Quiet, Closed
<1>3. HighInv(P, F, S)' /\ ScanInv(P, {})' /\ IsTable(disk', P, F, S)
  BY DEF StoredTable, HighInv, ScanInv, Closed
<1>4. StageInv(P, F, S, {})'
  BY <1>2, <1>3 DEF StageInv, Stage
<1> QED BY <1>1, <1>4 DEF RInv

-----------------------------------------------------------------------------
(* What the invariant says *)

\* When no table is in memory, the types are those of the disk.
LEMMA ClosedTypes ==
  ASSUME Typed, Closed, reread \in {"none", "all", "commit"}
  PROVE  TypeOK
<1>1. \A h \in ToSet(pending) : h.blk \in Blocks /\ h.data \in Content
  BY HeldTyped DEF Typed
<1>2. ToSet(parts) = {} /\ ToSet(fs) = {}
  BY DEF Closed, ToSet
<1> QED BY <1>1, <1>2, FreshTyped DEF Typed, Closed, TypeOK

\* A disk without a table, and one on which a table is being written, are sound.
LEMMA NoTableSound ==
  ASSUME TypeOK, ~HasTable(disk)
  PROVE  TableSound
<1>1. FsChain(disk) = <<>> /\ ToSet(FsChain(disk)) = {}
  BY NoTable DEF ToSet
<1> QED BY <1>1 DEF TableSound, AlwaysReadable, DriversWhole, HighCovers

\* Nothing is left to write: the disk is the table.
LEMMA Reached ==
  ASSUME Typed, NEW t, NEW P, NEW F, NEW S, StoredTable(t, P, F, S),
         Reaches(pending, disk, t), pending = <<>>
  PROVE  disk = t
<1>1. t \in [Blocks -> Content]
  BY DEF StoredTable, IsTable
<1>2. \A b \in Blocks : disk[b] = t[b]
  <2>1. Len(pending) = 0 /\ 1..0 = {}
    OBVIOUS
  <2> QED BY <2>1 DEF Reaches
<1> QED BY <1>1, <1>2 DEF Typed

\* Whenever RDisk runs, on the image or on the overlay, its invariant holds;
\* otherwise no table is in memory.
LEMMA Modes ==
  ASSUME RescueInv
  PROVE  RInv \/ Lost \/ Writing
<1>1. Settled \/ Deleting \/ Relinking \/ Adding => RInv
  BY DEF Settled, Deleting, Relinking, Adding, RInv
<1> QED BY <1>1 DEF RescueInv

\* The invariant makes what is read sound, memory the table, and a scan exact.
LEMMA SafeOfInv ==
  ASSUME RescueInv
  PROVE  SoundUnlessTorn /\ MemoryIsTheTable /\ ScanFindsOnlyTheTable
<1>1. CASE RInv
  BY <1>1, SoundOfInv, MemoryOfInv, ScanOfInv DEF SoundUnlessTorn, TableSound
<1>2. CASE Lost
  <2>1. TypeOK
    BY <1>2, ClosedTypes DEF Lost
  <2>2. torn \/ TableSound
    BY <1>2, <2>1, NoTableSound DEF Lost, Broken
  <2>3. ~opened /\ crashes # 0
    BY <1>2 DEF Lost, Closed, Broken, Typed
  <2> QED BY <2>1, <2>2, <2>3 DEF SoundUnlessTorn, MemoryIsTheTable, ScanFindsOnlyTheTable
<1>3. CASE Writing
  <2>1. TypeOK
    BY <1>3, ClosedTypes DEF Writing
  <2>2. Committing /\ ~opened
    BY <1>3 DEF Writing, Committing, Closed
  <2>3. ASSUME Idle, crashes = 0, inits = 0
        PROVE  {b \in Blocks : disk[b].magic = "PART"} = ToSet(PartChain(disk))
    <3>1. PICK t, P, F, S : StoredTable(t, P, F, S) /\ Reaches(pending, disk, t)
      BY <1>3 DEF Writing
    <3>2. disk = t
      BY <1>3, <2>3, <3>1, Reached DEF Writing, Idle
    <3>3. /\ PartChain(disk) = P /\ DOMAIN P = 1..Len(P)
          /\ \A i \in 1..Len(P) : P[i] \in Blocks /\ disk[P[i]].magic = "PART"
      BY <3>1, <3>2, TableRead, TableBlocks, LenProperties DEF StoredTable
    <3>4. \A x \in Blocks : disk[x].magic = "PART" => \E i \in 1..Len(P) : x = P[i]
      BY <2>3, <3>1, <3>2 DEF StoredTable
    <3>5. \A x : x \in ToSet(PartChain(disk)) <=> \E i \in 1..Len(P) : x = P[i]
      BY <3>3 DEF ToSet
    <3> QED BY <3>3, <3>4, <3>5
  <2> QED BY <2>1, <2>2, <2>3 DEF SoundUnlessTorn, MemoryIsTheTable, ScanFindsOnlyTheTable
<1> QED BY <1>1, <1>2, <1>3, Modes

-----------------------------------------------------------------------------
(* What a reader of the image sees *)

ShownParts == IF Blurred THEN <<>> ELSE PartsOn(Image)
ShownDrivers == IF Blurred THEN <<>> ELSE DriversOn(Image)
ImageStep == [ImageTable!Next]_(ImageTable!table)

\* The steps of the abstract table, by what is shown before and after them.
LEMMA SeenSame ==
  ASSUME ShownParts' = ShownParts, ShownDrivers' = ShownDrivers
  PROVE  ImageStep
BY DEF ImageStep, ShownParts, ShownDrivers, ImageTable!table

\* What was shown is lost: as if a table were made over it.
LEMMA SeenCreate ==
  ASSUME ShownParts' = <<>>, ShownDrivers' = <<>>
  PROVE  ImageStep
BY DEF ImageStep, ShownParts, ShownDrivers, ImageTable!table, ImageTable!Next, ImageTable!Create

\* A lost table is shown again, with disjoint partitions by cylinder.
LEMMA SeenRecover ==
  ASSUME ShownParts = <<>>, ShownDrivers' = ShownDrivers,
         ShownParts' \in Seq(Partition), Rising(ShownParts')
  PROVE  ImageStep
<1>1. DOMAIN ShownParts' = 1..Len(ShownParts')
  BY LenProperties
<1>2. ImageTable!Recover
  BY <1>1 DEF ImageTable!Recover, ShownParts, ShownDrivers, Rising, Partition, ImageTable!Partition
<1> QED BY <1>2 DEF ImageStep, ImageTable!Next, ImageTable!table

\* One partition is not shown any more.
LEMMA SeenDelete ==
  ASSUME NEW i \in DOMAIN ShownParts, ShownParts' = RemoveAt(ShownParts, i),
         ShownDrivers' = ShownDrivers
  PROVE  ImageStep
<1>1. ImageTable!DeletePartition
  BY DEF ImageTable!DeletePartition, ShownParts, ShownDrivers, ImageTable!RemoveAt, RemoveAt
<1> QED BY <1>1 DEF ImageStep, ImageTable!Next, ImageTable!table

\* A call of RDisk on the image itself.
LEMMA SeenTable ==
  ASSUME ~Blurred, ~Blurred', Image = disk, Image' = disk', TableStep
  PROVE  ImageStep
<1> DEFINE A == PartsOn(disk)
           B == DriversOn(disk)
           A1 == PartsOn(disk')
           B1 == DriversOn(disk')
<1>1. ShownParts = A /\ ShownDrivers = B /\ ShownParts' = A1 /\ ShownDrivers' = B1
  BY DEF ShownParts, ShownDrivers
<1>2. CASE Table!AddPartition
  <2>1. ImageTable!AddPartition
    BY <1>1, <1>2 DEF Table!AddPartition, ImageTable!AddPartition, ShownParts, ShownDrivers,
         Table!Last, ImageTable!Last, Table!Front, ImageTable!Front,
         Table!ToSet, ImageTable!ToSet, Table!Partition, ImageTable!Partition
  <2> QED BY <2>1 DEF ImageStep, ImageTable!Next, ImageTable!table
<1>3. CASE Table!DeletePartition
  <2>1. ImageTable!DeletePartition
    BY <1>1, <1>3 DEF Table!DeletePartition, ImageTable!DeletePartition, ShownParts, ShownDrivers,
         Table!RemoveAt, ImageTable!RemoveAt
  <2> QED BY <2>1 DEF ImageStep, ImageTable!Next, ImageTable!table
<1>4. CASE Table!AddDriver
  <2>1. ImageTable!AddDriver
    BY <1>1, <1>4 DEF Table!AddDriver, ImageTable!AddDriver, ShownParts, ShownDrivers,
         Table!ToSet, ImageTable!ToSet, Table!Driver, ImageTable!Driver
  <2> QED BY <2>1 DEF ImageStep, ImageTable!Next, ImageTable!table
<1>5. CASE Table!Create
  BY <1>1, <1>5, SeenCreate DEF Table!Create
<1>6. CASE UNCHANGED Table!table
  BY <1>1, <1>6, SeenSame DEF Table!table
<1> QED BY <1>2, <1>3, <1>4, <1>5, <1>6 DEF TableStep, CallChange

\* While a command simulates, the image is what it was.
LEMMA SeenSimulation ==
  ASSUME Image' = Image, Blurred' = Blurred
  PROVE  ImageStep
BY SeenSame DEF ShownParts, ShownDrivers

\* An image whose table is lost shows none.
LEMMA LostShown ==
  ASSUME Broken(Image), ~Committing
  PROVE  ShownParts = <<>> /\ ShownDrivers = <<>>
BY NoTable DEF Broken, Blurred, ShownParts, ShownDrivers

\* Which of the instants it is.
LEMMA NoneModes ==
  ASSUME RescueInv, command = "none"
  PROVE  Settled \/ Lost
BY DEF RescueInv, Deleting, Relinking, Adding, Writing, DeleteOf, RescueOf

\* A table that nobody works on is shown as it is on the disk.
LEMMA SettledShown ==
  ASSUME Settled
  PROVE  ~Blurred /\ ~Committing /\ Image = disk
BY DEF Settled, NoneRuns, RInv, TypeInv, Blurred, Committing, Image

-----------------------------------------------------------------------------
(* Steps on the image itself *)

\* A call of RDisk, or a step of one, on a table that nobody else works on.
LEMMA SettledStep ==
  ASSUME Settled, RInv', TableStep, ~torn', lost' = {},
         UNCHANGED <<command, base, queue>>
  PROVE  RescueInv' /\ ImageStep
<1>1. Settled'
  BY DEF Settled, NoneRuns
<1>2. ~Blurred /\ Image = disk
  BY SettledShown
<1>3. ~Blurred' /\ Image' = disk'
  BY <1>1 DEF Settled, NoneRuns, RInv, TypeInv, Blurred, Committing, Image
<1> QED BY <1>1, <1>2, <1>3, SeenTable DEF RescueInv

\* A lost table is not in memory.
LEMMA LostTyped ==
  ASSUME Lost
  PROVE  TypeInv /\ ~opened /\ Idle
<1>1. <<>> \in Seq(HeldBlock)
  BY EmptySeq
<1> QED BY <1>1, FreshTyped DEF Lost, Typed, Closed, TypeInv, Idle

\* A command calls RDisk on the image, without an overlay.
LEMMA StepLibrary ==
  ASSUME RescueInv, Library
  PROVE  RescueInv' /\ ImageStep
<1>1. /\ command = "none" /\ Idle /\ UNCHANGED <<command, base, queue>> /\ lost' = {}
      /\ Settled \/ Lost
  BY NoneModes DEF Library, NoCommand
<1>2. CASE ~torn /\ Adds /\ UNCHANGED torn
  <2>1. opened
    BY <1>2 DEF Adds, AddPartitionAt, AddPartitionSized, AddPartitionRest,
                add_partition, add_filesystem
  <2>2. Settled
    BY <1>1, <2>1, LostTyped
  <2>3. RInv' /\ disk' = disk
    BY <1>2, <2>2, CallAdds DEF Settled
  <2>4. TableStep
    BY <2>3, NothingSeen
  <2> QED BY <1>1, <1>2, <2>2, <2>3, <2>4, SettledStep
<1>3. CASE create /\ torn' = FALSE
  <2>1. TypeInv /\ reread = "none" /\ NoneRuns
    BY <1>1, LostTyped, BetweenCalls DEF Settled, Lost, RInv
  <2>2. RInv' /\ PartsOn(disk') = <<>> /\ DriversOn(disk') = <<>>
    BY <1>3, <2>1, CallCreate
  <2>3. Settled'
    BY <1>1, <1>3, <2>1, <2>2 DEF Settled, NoneRuns
  <2>4. ~Blurred' /\ Image' = disk'
    BY <2>3 DEF Settled, NoneRuns, RInv, TypeInv, Blurred, Committing, Image
  <2>5. ImageStep
    BY <2>2, <2>4, SeenCreate DEF ShownParts, ShownDrivers
  <2> QED BY <2>3, <2>5 DEF RescueInv
<1>4. CASE ~torn /\ open /\ UNCHANGED torn
  <2>1. Settled
    BY <1>1, <1>4 DEF open, Readable, Lost, Broken
  <2>2. RInv' /\ disk' = disk
    BY <1>4, <2>1, CallOpen DEF Settled
  <2>3. TableStep
    BY <2>2, NothingSeen
  <2> QED BY <1>1, <1>4, <2>1, <2>2, <2>3, SettledStep
<1> QED BY <1>2, <1>3, <1>4 DEF Library

\* A program is killed in such a call: the table stays what it is.
LEMMA StepCrash ==
  ASSUME RescueInv, command = "none", Crash, UNCHANGED <<commandVars, lost>>
  PROVE  RescueInv' /\ ImageStep
<1>1. Settled
  BY NoneModes, LostTyped DEF Crash
<1>2. RInv' /\ disk' = disk
  BY <1>1, CallCrash DEF Settled
<1>3. TableStep
  BY <1>2, NothingSeen
<1>4. ~torn' /\ lost' = {} /\ UNCHANGED <<command, base, queue>>
  BY <1>1 DEF Settled, commandVars
<1> QED BY <1>1, <1>2, <1>3, <1>4, SettledStep

\* What Described gives are the rows of PART blocks that have cylinders; there
\* are none after an upset.
LEMMA DescribedRows ==
  ASSUME NEW C, NEW p \in Described(C)
  PROVE  /\ crashes + inits = 0 /\ p.lo <= p.hi
         /\ \E b \in C : p = PartRow(disk[b]) /\ disk[b].lo <= disk[b].hi
<1>1. PICK b \in C : /\ disk[b].lo <= disk[b].hi /\ crashes + inits = 0
                     /\ p = [name |-> disk[b].name, lo |-> disk[b].lo, hi |-> disk[b].hi]
  BY DEF Described
<1>2. p = PartRow(disk[b]) /\ p.lo <= p.hi
  BY <1>1 DEF PartRow
<1> QED BY <1>1, <1>2

\* The table is overwritten: what is left of it are PART blocks.
LEMMA StepOverwrite ==
  ASSUME RescueInv, NEW k \in Blocks, Overwrite(k)
  PROVE  RescueInv' /\ ImageStep
<1>1. /\ NoCommand /\ HasTable(disk) /\ crashes + inits < MaxUpsets
      /\ crashes' = crashes + 1 /\ inits' = inits
      /\ disk' = [b \in Blocks |-> IF b <= k THEN Blank ELSE disk[b]]
      /\ lost' = Described({b \in ToSet(PartChain(disk)) : b > k})
      /\ Closed' /\ pending' = pending /\ reread' = reread
      /\ UNCHANGED <<command, base, queue, torn>>
  BY ExitCloses DEF Overwrite, commandVars
<1>2. (Settled \/ Lost) /\ command = "none" /\ Idle /\ pending = <<>>
  BY <1>1, NoneModes DEF NoCommand, Idle
<1>3. TypeInv /\ reread = "none" /\ NoneRuns
  BY <1>2, LostTyped, BetweenCalls DEF Settled, Lost, RInv
<1>4. disk' \in [Blocks -> Content] /\ ~HasTable(disk')
  <2>1. Blank \in Content /\ RDSK <= k /\ RDSK \in Blocks
    BY Numbers DEF Content
  <2>2. disk'[RDSK] = Blank
    BY <1>1, <2>1
  <2> QED BY <1>1, <1>3, <2>1, <2>2 DEF TypeInv, HasTable, Blank
<1>5. crashes' > 0 /\ crashes' \in 0..MaxUpsets
  BY <1>1, <1>3, AreaAssumption DEF TypeInv
<1>6. LostOn(disk)'
  <2> SUFFICES ASSUME lost' # {}
               PROVE  Clear(disk)' /\ \A p \in lost' :
                        \E b \in 1..RdbHi : disk'[b].magic = "PART" /\ PartRow(disk'[b]) = p
    BY DEF LostOn
  <2>1. crashes = 0 /\ inits = 0
    <3>1. crashes + inits = 0
      BY <1>1, DescribedRows
    <3> QED BY <1>3, <3>1 DEF TypeInv
  <2>2. Settled
    BY <1>2, <2>1 DEF Lost, Broken
  <2>3. PICK P, F, S : IsTable(disk, P, F, S) /\ ScanInv(P, {})
    BY <1>2, <2>2, BetweenCalls DEF Settled
  <2>4. PartsApart(disk)
    BY <2>1, <2>3, TableApart DEF ScanInv
  <2>5. SubParts(disk, disk')
    BY <1>1 DEF SubParts, Blank
  <2>6. PartsApart(disk')
    BY <2>4, <2>5, SubPartsApart
  <2>7. PartChain(disk) = P /\ DOMAIN P = 1..Len(P)
    BY <2>3, TableRead, TableBlocks, LenProperties
  <2>8. ASSUME NEW p \in lost'
        PROVE  /\ p.lo <= p.hi
               /\ \E b \in 1..RdbHi : disk'[b].magic = "PART" /\ PartRow(disk'[b]) = p
    <3>1. PICK b \in ToSet(P) : b > k /\ p = PartRow(disk[b]) /\ p.lo <= p.hi
      BY <1>1, <2>7, <2>8, DescribedRows
    <3>2. b \in Blocks /\ b # RDSK /\ disk[b].magic = "PART"
      BY <2>3, <2>7, TableBlocks DEF ToSet
    <3>3. disk'[b] = disk[b] /\ b \in 1..RdbHi
      BY <1>1, <3>1, <3>2, Numbers
    <3> QED BY <3>1, <3>2, <3>3
  <2> QED BY <2>6, <2>8 DEF Clear
<1>7. Lost'
  <2>1. Typed'
    BY <1>1, <1>3, <1>4, <1>5 DEF Typed, TypeInv
  <2>2. Broken(disk)'
    BY <1>4, <1>5, <1>6 DEF Broken
  <2> QED BY <1>1, <1>2, <1>3, <2>1, <2>2 DEF Lost, NoneRuns
<1>8. ImageStep
  <2>1. PartsOn(disk') = <<>> /\ DriversOn(disk') = <<>> /\ Image' = disk'
    BY <1>1, <1>3, <1>4, NoTable DEF Image, NoneRuns
  <2> QED BY <2>1, SeenCreate DEF ShownParts, ShownDrivers
<1> QED BY <1>7, <1>8 DEF RescueInv

-----------------------------------------------------------------------------
(* The simulation of a deletion *)

\* part-del begins: an overlay with nothing in it, and the call on it.
LEMMA StepPartDel ==
  ASSUME RescueInv, NEW i \in DOMAIN parts, part_del(i)
  PROVE  RescueInv' /\ ImageStep
<1>1. /\ NoCommand /\ command' = "part-del" /\ base' = disk /\ UNCHANGED <<torn, queue>>
      /\ delete_partition(i) /\ opened /\ Idle
      /\ lost' = Described(BlkNums(parts) \ {parts[i].blk})
  BY DEF part_del, Simulate, delete_partition
<1>2. Settled
  BY <1>1, NoneModes, LostTyped DEF NoCommand
<1>3. PICK P, F, S : IsTable(disk, P, F, S) /\ HighInv(P, F, S) /\ ScanInv(P, {})
                     /\ rdb = disk[RDSK] /\ Held(P, F)
  BY <1>1, <1>2, BetweenCalls DEF Settled
<1>4. RInv' /\ disk' = disk
  BY <1>1, <1>2, CallDelete DEF Settled
<1>5. /\ StageInv(P, F, S, {})' /\ UnlinksPart(P, F, S, {})'
      /\ i \in 1..Len(P) /\ pending'[2].blk = P[i]
  <2>1. PICK Q, G, T : /\ StageInv(Q, G, T, {})' /\ UnlinksPart(Q, G, T, {})'
                       /\ i \in 1..Len(Q) /\ pending'[2].blk = Q[i]
    BY <1>1, <1>2, CallDelete DEF Settled
  <2>2. IsTable(disk, Q, G, T)
    BY <1>4, <2>1 DEF StageInv
  <2>3. Q = P /\ G = F
    BY <1>3, <2>2, TableRead
  <2>4. T = S
    <3>1. \A j \in 1..Len(F) : S[j] = T[j]
      BY <1>3, <2>2, <2>3, TableRead
    <3>2. S \in Seq(Seq(Blocks)) /\ T \in Seq(Seq(Blocks)) /\ Len(S) = Len(F) /\ Len(T) = Len(F)
      BY <1>3, <2>2, <2>3 DEF IsTable, DriverTable
    <3> QED BY <3>1, <3>2, SeqEqual
  <2> QED BY <2>1, <2>3, <2>4
<1>6. crashes' = crashes /\ inits' = inits
  BY <1>1 DEF delete_partition, Begin
<1>7. StoredTable(base, P, F, S)'
  BY <1>1, <1>3, <1>6 DEF StoredTable, HighInv, ScanInv
<1>8. ASSUME NEW p \in lost'
      PROVE  /\ crashes = 0 /\ inits = 0 /\ p.lo <= p.hi
             /\ \E j \in 1..Len(P) : j # i /\ p = PartRow(disk[P[j]])
  <2>1. crashes = 0 /\ inits = 0 /\ p.lo <= p.hi
    BY <1>1, <1>2, DescribedRows DEF Settled, RInv, TypeInv
  <2>2. PICK b \in BlkNums(parts) \ {parts[i].blk} : p = PartRow(disk[b])
    BY <1>1, DescribedRows
  <2>3. PICK h \in ToSet(parts) : b = h.blk
    BY DEF BlkNums
  <2>4. DOMAIN parts = 1..Len(P) /\ \A j \in 1..Len(P) : parts[j].blk = P[j]
    BY <1>3, HeldRead
  <2>5. PICK j \in 1..Len(P) : h = parts[j]
    BY <2>4 DEF ToSet
  <2> QED BY <2>1, <2>2, <2>3, <2>4, <2>5
<1>9. lost' # {} => Clear(disk)'
  <2>1. ASSUME lost' # {} PROVE PartsApart(disk)
    <3>1. crashes = 0 /\ inits = 0
      BY <1>8, <2>1
    <3> QED BY <1>3, <3>1, TableApart DEF ScanInv
  <2> QED BY <1>4, <1>8, <2>1 DEF Clear
<1>10. lost' \subseteq ToSet(RemoveAt(PartsOn(disk), i))
  <2> DEFINE R == PartsOn(disk)
             Q == RemoveAt(R, i)
  <2>1. /\ R \in Seq(Partition) /\ Len(R) = Len(P) /\ Len(R) \in Nat
        /\ \A j \in 1..Len(P) : R[j] = PartRow(disk[P[j]])
    BY <1>3, Rows, LenProperties
  <2> HIDE DEF R
  <2>0. i \in 1..Len(R)
    BY <1>5, <2>1
  <2>2. /\ Q \in Seq(Partition) /\ Len(Q) = Len(R) - 1 /\ DOMAIN Q = 1 .. Len(R) - 1
        /\ \A j \in 1 .. Len(R) - 1 : Q[j] = IF j < i THEN R[j] ELSE R[j + 1]
    <3>1. /\ Q \in Seq(Partition) /\ Len(Q) = Len(R) - 1
          /\ \A j \in 1 .. Len(R) - 1 : Q[j] = IF j < i THEN R[j] ELSE R[j + 1]
      BY <2>0, <2>1, Removed
    <3> HIDE DEF Q
    <3> QED BY <3>1, LenProperties
  <2> HIDE DEF Q
  <2>3. ASSUME NEW j \in 1..Len(P), j # i PROVE R[j] \in ToSet(Q)
    <3>1. CASE j < i
      <4>1. j \in DOMAIN Q /\ Q[j] = R[j]
        BY <1>5, <2>1, <2>2, <3>1
      <4> QED BY <4>1 DEF ToSet
    <3>2. CASE ~(j < i)
      <4>1. j - 1 \in DOMAIN Q /\ Q[j - 1] = R[j]
        BY <1>5, <2>1, <2>2, <2>3, <3>2
      <4> QED BY <4>1 DEF ToSet
    <3> QED BY <3>1, <3>2
  <2>4. lost' \subseteq ToSet(Q)
    BY <1>8, <2>1, <2>3
  <2> QED BY <2>4 DEF Q, R
<1>11. Deleting'
  <2>1. /\ SubParts(base, disk)' /\ DriversOn(disk') = DriversOn(base')
        /\ (lost # {} => Clear(base))'
    BY <1>1, <1>4, <1>9 DEF SubParts, Clear
  <2>2. TypeInv' /\ command' = "part-del" /\ queue' = <<>> /\ ~torn'
    BY <1>1, <1>2, <1>4 DEF RInv, Settled, NoneRuns
  <2>3. DeleteStage(P, P, F, S, {}, i)'
    BY <1>1, <1>4, <1>5 DEF DeleteStage
  <2>4. lost' \subseteq ToSet(RemoveAt(PartsOn(base'), i))
    BY <1>1, <1>10
  <2>5. StoredTable(base, P, F, S)'
    BY <1>7
  <2> QED BY <1>5, <2>1, <2>2, <2>3, <2>4, <2>5 DEF Deleting
<1>12. ImageStep
  <2>1. Image = disk /\ ~Blurred
    BY <1>2, SettledShown
  <2>2. ~Blurred' /\ Image' = disk
    <3>1. disk # NoOverlay
      BY <1>2, ImageThere DEF Settled, RInv, TypeInv
    <3> QED BY <1>1, <1>2, <1>4, <3>1 DEF Image, Blurred, Settled
  <2> QED BY <2>1, <2>2, SeenSame DEF ShownParts, ShownDrivers
<1> QED BY <1>11, <1>12 DEF RescueInv

\* A write that makes no PART block, or one that tells of the same partition.
LEMMA SubPartsDevice ==
  ASSUME TypeInv, DeviceWrite, NEW b \in Blocks, NEW c, Head(pending) = Write(b, c),
         c.magic = "PART" => disk[b].magic = "PART" /\ PartRow(c) = PartRow(disk[b])
  PROVE  SubParts(disk, disk')
<1>1. disk' = [disk EXCEPT ![b] = c]
  <2>1. Head(pending).blk = b /\ Head(pending).data = c
    BY DEF Write
  <2> QED BY <2>1 DEF DeviceWrite
<1>2. disk'[b] = c /\ \A x \in Blocks \ {b} : disk'[x] = disk[x]
  BY <1>1 DEF TypeInv
<1> QED BY <1>2 DEF SubParts

\* A step of the simulation.
LEMMA StepDeleting ==
  ASSUME Deleting, DeviceWrite, UNCHANGED <<commandVars, lost>>
  PROVE  RescueInv' /\ ImageStep
<1>1. /\ command = "part-del" /\ queue = <<>> /\ ~torn /\ TypeInv
      /\ SubParts(base, disk) /\ DriversOn(disk) = DriversOn(base)
      /\ lost # {} => Clear(base)
      /\ UNCHANGED <<command, base, queue, torn, lost>>
  BY DEF Deleting, commandVars
<1>2. PICK P, Q, F, S, L : \E i \in 1..Len(P) :
       /\ StoredTable(base, P, F, S) /\ StageInv(Q, F, S, L)
       /\ lost \subseteq ToSet(RemoveAt(PartsOn(base), i))
       /\ DeleteStage(P, Q, F, S, L, i)
  BY DEF Deleting
<1>3. PICK i \in 1..Len(P) :
       /\ StoredTable(base, P, F, S) /\ StageInv(Q, F, S, L)
       /\ lost \subseteq ToSet(RemoveAt(PartsOn(base), i))
       /\ DeleteStage(P, Q, F, S, L, i)
  BY <1>2
<1>4. crashes' = crashes /\ inits' = inits
  BY DEF DeviceWrite
<1>5. StoredTable(base, P, F, S)'
  BY <1>1, <1>3, <1>4 DEF StoredTable
<1>6. /\ RInv' /\ DriversOn(disk') = DriversOn(disk)
      /\ \E T, M : StageInv(T, F, S, M)' /\ DeleteStage(P, T, F, S, M, i)'
  <2>1. CASE disk = base /\ Q = P /\ UnlinksPart(Q, F, S, L) /\ pending[2].blk = P[i]
    <3>1. /\ RInv' /\ DriversOn(disk') = DriversOn(disk)
          /\ PartsOn(disk') = RemoveAt(PartsOn(disk), i)
          /\ \E T : \E b \in Blocks : StageInv(T, F, S, {b})' /\ ScrubsPart(T, F, S, {b})'
      BY <1>1, <1>3, <2>1, StepUnlinksPart
    <3> QED BY <1>1, <2>1, <3>1 DEF DeleteStage
  <2>2. CASE PartsOn(disk) = RemoveAt(PartsOn(base), i) /\ ScrubsPart(Q, F, S, L)
    <3>1. /\ RInv' /\ PartsOn(disk') = PartsOn(disk) /\ DriversOn(disk') = DriversOn(disk)
          /\ StageInv(Q, F, S, {})' /\ Quiet(Q, F, {})'
      BY <1>1, <1>3, <2>2, StepScrubsPart
    <3> QED BY <1>1, <2>2, <3>1 DEF DeleteStage
  <2>3. CASE Quiet(Q, F, L)
    BY <2>3 DEF Quiet, DeviceWrite, Idle
  <2> QED BY <1>3, <2>1, <2>2, <2>3 DEF DeleteStage
<1>7. SubParts(disk, disk')
  <2>1. CASE UnlinksPart(Q, F, S, L)
    <3>1. PICK j \in 1..Len(Q) :
            /\ rdb = IF j = 1 THEN [disk[RDSK] EXCEPT !.partition_list = disk[Q[1]].next]
                     ELSE disk[RDSK]
            /\ pending = <<IF j = 1 THEN Write(RDSK, rdb)
                           ELSE Write(Q[j - 1], Linked(disk[Q[j - 1]], disk[Q[j]].next)),
                           Write(Q[j], Blank)>>
      BY <2>1 DEF UnlinksPart
    <3>2. /\ IsTable(disk, Q, F, S) /\ Len(Q) \in Nat
          /\ \A k \in 1..Len(Q) : /\ Q[k] \in Blocks /\ disk[Q[k]].magic = "PART"
                                  /\ disk[Q[k]] \in Content /\ disk[Q[k]].next \in BlockNums
      <4>1. IsTable(disk, Q, F, S)
        BY <1>3 DEF StageInv
      <4>2. Len(Q) \in Nat /\ \A k \in 1..Len(Q) : Q[k] \in Blocks /\ disk[Q[k]].magic = "PART"
        BY <4>1, TableBlocks
      <4>3. \A k \in 1..Len(Q) : disk[Q[k]] \in Content
        BY <1>1, <4>2 DEF TypeInv
      <4> QED BY <4>1, <4>2, <4>3, PartTyped
    <3>3. CASE j = 1
      <4>1. Head(pending) = Write(RDSK, rdb)
        BY <3>1, <3>3
      <4>2. rdb.magic # "PART" /\ RDSK \in Blocks
        BY <1>1, FreshTyped DEF TypeInv
      <4> QED BY <1>1, <4>1, <4>2, SubPartsDevice
    <3>4. CASE j # 1
      <4> DEFINE b == Q[j - 1]
                 c == Linked(disk[b], disk[Q[j]].next)
      <4>1. j - 1 \in 1..Len(Q)
        BY <3>2, <3>4
      <4>2. c.magic = "PART" /\ PartRow(c) = PartRow(disk[b]) /\ disk[b].magic = "PART" /\ b \in Blocks
        BY <3>2, <4>1, LinkedBlock DEF PartRow
      <4>3. Head(pending) = Write(b, c)
        BY <3>1, <3>4
      <4> HIDE DEF b, c
      <4> QED BY <1>1, <4>2, <4>3, SubPartsDevice
    <3> QED BY <3>3, <3>4
  <2>2. CASE ScrubsPart(Q, F, S, L)
    <3>1. PICK b \in Blocks : pending = <<Write(b, Blank)>>
      BY <2>2 DEF ScrubsPart
    <3>2. Head(pending) = Write(b, Blank) /\ Blank.magic # "PART"
      BY <3>1 DEF Blank
    <3> QED BY <1>1, <3>2, SubPartsDevice
  <2>3. CASE Quiet(Q, F, L)
    BY <2>3 DEF Quiet, DeviceWrite, Idle
  <2> QED BY <1>3, <2>1, <2>2, <2>3 DEF DeleteStage
<1>8. Deleting'
  <2>1. SubParts(base, disk)'
    BY <1>1, <1>7, SubPartsTrans
  <2>2. (lost # {} => Clear(base))' /\ DriversOn(disk') = DriversOn(base')
    BY <1>1, <1>6 DEF Clear
  <2>3. lost' \subseteq ToSet(RemoveAt(PartsOn(base'), i))
    BY <1>1, <1>3
  <2> QED BY <1>1, <1>5, <1>6, <2>1, <2>2, <2>3 DEF Deleting, RInv
<1>9. ImageStep
  <2>1. reread # "commit" /\ reread' # "commit"
    BY <1>1, <1>6 DEF RInv, TypeInv
  <2>2. base # NoOverlay
    BY <1>3, ImageThere DEF StoredTable, IsTable
  <2> QED BY <1>1, <2>1, <2>2, SeenSimulation DEF Image, Blurred, Committing
<1> QED BY <1>8, <1>9 DEF RescueInv

-----------------------------------------------------------------------------
(* The simulation of a rescue *)

\* The PART blocks that the lost partitions of a rescue have are in its scan.
LEMMA LostScanned ==
  ASSUME NEW d, Broken(d), NEW anchors \in Seq(Anchors),
         NEW p \in lost, ~Covered(anchors, p)
  PROVE  \E i \in 1..Len(scan(d, anchors)) :
           /\ FromPart(d, scan(d, anchors)[i])
           /\ PartRow(d[scan(d, anchors)[i].blk]) = p
<1> DEFINE s == scan(d, anchors)
<1>1. PartsApart(d) /\ p.lo <= p.hi /\ \E b \in 1..RdbHi : d[b].magic = "PART" /\ PartRow(d[b]) = p
  BY DEF Broken, LostOn, Clear
<1>2. PICK b \in 1..RdbHi : d[b].magic = "PART" /\ PartRow(d[b]) = p
  BY <1>1
<1>3. d[b].lo = p.lo /\ d[b].hi = p.hi
  BY <1>2 DEF PartRow
<1>4. d[b].lo <= d[b].hi /\ ~Covered(anchors, d[b])
  BY <1>1, <1>3 DEF Covered
<1>5. \E i \in 1..Len(s) : s[i] = PartCandidate(d, b)
  <2>1. d \in [Blocks -> Content]
    BY DEF Broken
  <2> QED BY <1>1, <1>2, <1>4, <2>1, Scanned
<1> HIDE DEF s
<1>6. PICK i \in 1..Len(s) : s[i] = PartCandidate(d, b)
  BY <1>5
<1>7. s[i].blk = b /\ FromPart(d, s[i])
  BY <1>2, <1>6 DEF FromPart, PartCandidate
<1> QED BY <1>2, <1>7 DEF s

\* rdb-rebuild has scanned what is left, has written its RDSK block, and begins
\* to add or is to link.
LEMMA StepRebuild ==
  ASSUME RescueInv, rdb_rebuild
  PROVE  RescueInv' /\ ImageStep
<1>1. PICK anchors \in Evidence :
        LET cands == scan(disk, anchors)
            reuse == \A i \in DOMAIN cands : cands[i].blk # END
        IN /\ cands # <<>>
           /\ disk' = [disk EXCEPT ![RDSK] = FreshRDB]
           /\ Load(disk')
           /\ IF reuse
              THEN Simulate("relink") /\ UNCHANGED <<queue, lost>>
              ELSE /\ Simulate("add")
                   /\ queue' = [i \in DOMAIN cands |-> ToAdd(cands, i)]
                   /\ lost' = {p \in lost :
                        \A a \in ToSet(anchors) : ~(a.exact /\ a.lo < p.lo /\ p.lo <= a.hi)}
           /\ UNCHANGED <<pending, reread, crashes, inits>>
  BY DEF rdb_rebuild
<1> DEFINE s == scan(disk, anchors)
           e == disk'
<1>2. Lost
  <2>1. command = "none" /\ (torn \/ ~Readable(disk))
    BY DEF rdb_rebuild, NoCommand, Rescuable
  <2>2. CASE Settled
    <3>1. PICK P, F, S, L : StageInv(P, F, S, L)
      BY <2>2 DEF Settled, RInv
    <3>2. Readable(disk)
      BY <3>1, TableRead DEF StageInv
    <3> QED BY <2>1, <2>2, <3>2 DEF Settled
  <2> QED BY <2>1, <2>2, NoneModes
<1>3. /\ Broken(disk) /\ disk \in [Blocks -> Content] /\ pending = <<>> /\ reread = "none"
      /\ Typed /\ Closed /\ base = NoOverlay /\ queue = <<>>
  BY <1>2 DEF Lost, Broken, NoneRuns
<1>4. /\ torn' = torn /\ crashes' = crashes /\ inits' = inits /\ base' = disk
      /\ disk' = [disk EXCEPT ![RDSK] = FreshRDB]
      /\ Load(disk') /\ UNCHANGED <<pending, reread>> /\ command' \in {"relink", "add"}
  BY <1>1 DEF Simulate
<1>5. disk' \in [Blocks -> Content] /\ disk'[RDSK] = FreshRDB
  BY <1>3, <1>4, FreshTyped
<1>6. /\ IsTable(e, <<>>, <<>>, <<>>)
      /\ PartsOn(e) = <<>> /\ DriversOn(e) = <<>> /\ InMemory(e, <<>>) = <<>>
  <2> HIDE DEF e
  <2>1. e \in [Blocks -> Content] /\ e[RDSK] = FreshRDB
    BY <1>5 DEF e
  <2> QED BY <2>1, FreshTable
<1>7. PartChain(e) = <<>> /\ FsChain(e) = <<>>
  BY <1>6, TableRead
<1>8. rdb' = FreshRDB /\ parts' = <<>> /\ fs' = <<>> /\ opened' = TRUE
  BY <1>4, <1>5, <1>6, <1>7 DEF Load
<1>9. TypeInv'
  <2>1. <<>> \in Seq(HeldBlock)
    BY EmptySeq
  <2> QED BY <1>3, <1>4, <1>5, <1>8, <2>1, FreshTyped DEF TypeInv, Typed
<1>10. Quiet(<<>>, <<>>, {})'
  BY <1>3, <1>4, <1>5, <1>6, <1>8 DEF Quiet, Held
<1>11. StageInv(<<>>, <<>>, <<>>, {})'
  <2>1. crashes' # 0
    BY <1>3, <1>4 DEF Broken, Typed
  <2> QED BY <1>6, <1>10, <2>1 DEF StageInv, Stage, HighInv, ScanInv
<1>12. ImageStep
  BY <1>3, <1>4, ImageThere, SeenSimulation DEF Image, Blurred, Committing
<1>13. CASE \A i \in DOMAIN s : s[i].blk # END
  <2>1. command' = "relink" /\ queue' = queue /\ lost' = lost
    BY <1>1, <1>13 DEF Simulate, s
  <2>2. Broken(base)'
    BY <1>3, <1>4, <2>1 DEF Broken, LostOn, Clear
  <2>3. Relinking'
    BY <1>3, <1>9, <1>10, <1>11, <2>1, <2>2 DEF Relinking
  <2> QED BY <1>12, <2>3 DEF RescueInv
<1>14. CASE ~\A i \in DOMAIN s : s[i].blk # END
  <2>1. /\ command' = "add" /\ queue' = [i \in DOMAIN s |-> ToAdd(s, i)]
        /\ lost' = {p \in lost :
             \A a \in ToSet(anchors) : ~(a.exact /\ a.lo < p.lo /\ p.lo <= a.hi)}
    BY <1>1, <1>14 DEF Simulate, s
  <2>2. anchors \in Seq(Anchors)
    BY EvidenceLists
  <2>3. /\ s \in Seq(Candidate) /\ Disjoint(s) /\ s # <<>> /\ DOMAIN s = 1..Len(s)
        /\ \A i \in 1..Len(s) : FromScan(disk, anchors, s[i])
    BY <1>1, <1>3, <2>2, Scanned, LenProperties
  <2>4. /\ lost' \subseteq lost
        /\ \A p \in lost' : \E i \in 1..Len(s) : FromPart(disk, s[i]) /\ PartRow(disk[s[i].blk]) = p
    BY <1>3, <2>1, <2>2, LostScanned DEF Covered
  <2> HIDE DEF s
  <2>5. Broken(base)'
    BY <1>3, <1>4, <2>4 DEF Broken, LostOn, Clear
  <2>6. /\ queue' \in Seq(Row) /\ Rising(queue')
        /\ \A i \in 1..Len(s) : FromPart(disk, s[i]) => PartRow(disk[s[i].blk]) \in ToSet(queue')
    BY <1>3, <2>1, <2>3, AddList
  <2>7. <<>> \o queue' = queue' /\ <<>> \in Seq(Row)
    BY <2>6, EmptySeq
  <2>8. AddStage(<<>>, <<>>, <<>>, {}, <<>>)'
    BY <1>6, <1>10 DEF AddStage
  <2>9. lost' \subseteq ToSet(queue')
    BY <2>4, <2>6
  <2>10. Adding'
    BY <1>6, <1>9, <1>11, <2>1, <2>5, <2>6, <2>7, <2>8, <2>9 DEF Adding
  <2> QED BY <1>12, <2>10 DEF RescueInv
<1> QED BY <1>13, <1>14

\* What a sequence is whose first element comes to the end of another one.
LEMMA MoveHead ==
  ASSUME NEW R \in Seq(Row), NEW q \in Seq(Row), q # <<>>
  PROVE  /\ Append(R, Head(q)) \o Tail(q) = R \o q
         /\ Head(q) \in Row /\ Tail(q) \in Seq(Row) /\ Append(R, Head(q)) \in Seq(Row)
<1>1. /\ Head(q) \in Row /\ Tail(q) \in Seq(Row) /\ Append(R, Head(q)) \in Seq(Row)
      /\ Len(q) \in Nat /\ Len(q) > 0 /\ Len(R) \in Nat
      /\ Len(Tail(q)) = Len(q) - 1 /\ Head(q) = q[1]
      /\ \A i \in 1 .. Len(q) - 1 : Tail(q)[i] = q[i + 1]
  BY HeadTailProperties, AppendProperties, EmptySeq, LenProperties
<1> DEFINE A == Append(R, Head(q))
           T == Tail(q)
<1>2. /\ Len(A) = Len(R) + 1 /\ A[Len(R) + 1] = q[1]
      /\ \A i \in 1..Len(R) : A[i] = R[i]
  BY <1>1, AppendProperties
<1>3. A \in Seq(Row) /\ T \in Seq(Row) /\ Len(T) = Len(q) - 1
      /\ \A i \in 1 .. Len(q) - 1 : T[i] = q[i + 1]
  BY <1>1
<1> HIDE DEF A, T
<1>4. /\ A \o T \in Seq(Row) /\ Len(A \o T) = Len(R) + Len(q)
      /\ \A i \in 1 .. Len(R) + Len(q) :
           (A \o T)[i] = IF i <= Len(R) + 1 THEN A[i] ELSE T[i - (Len(R) + 1)]
  <2>1. /\ A \o T \in Seq(Row) /\ Len(A \o T) = Len(A) + Len(T)
        /\ \A i \in 1 .. Len(A) + Len(T) :
             (A \o T)[i] = IF i <= Len(A) THEN A[i] ELSE T[i - Len(A)]
    BY <1>3, ConcatProperties
  <2>2. Len(A) + Len(T) = Len(R) + Len(q)
    BY <1>1, <1>2, <1>3
  <2> QED BY <1>2, <2>1, <2>2
<1>5. /\ R \o q \in Seq(Row) /\ Len(R \o q) = Len(R) + Len(q)
      /\ \A i \in 1 .. Len(R) + Len(q) :
           (R \o q)[i] = IF i <= Len(R) THEN R[i] ELSE q[i - Len(R)]
  BY <1>1, ConcatProperties
<1>6. ASSUME NEW i \in 1 .. Len(R) + Len(q) PROVE (A \o T)[i] = (R \o q)[i]
  <2>1. CASE i <= Len(R)
    BY <1>1, <1>2, <1>4, <1>5, <2>1
  <2>2. CASE i = Len(R) + 1
    <3>1. i - Len(R) = 1 /\ ~(i <= Len(R))
      BY <1>1, <2>2
    <3> QED BY <1>1, <1>2, <1>4, <1>5, <2>2, <3>1
  <2>3. CASE i > Len(R) + 1
    <3>1. /\ i - (Len(R) + 1) \in 1 .. Len(q) - 1 /\ (i - (Len(R) + 1)) + 1 = i - Len(R)
          /\ ~(i <= Len(R)) /\ ~(i <= Len(R) + 1)
      BY <1>1, <2>3
    <3>2. (A \o T)[i] = T[i - (Len(R) + 1)] /\ (R \o q)[i] = q[i - Len(R)]
      BY <1>4, <1>5, <3>1
    <3>3. T[i - (Len(R) + 1)] = q[i - Len(R)]
      BY <1>3, <3>1
    <3> QED BY <3>2, <3>3
  <2>4. i \in Int /\ Len(R) \in Int
    BY <1>1
  <2>5. i <= Len(R) \/ i = Len(R) + 1 \/ i > Len(R) + 1
    BY <2>4
  <2> QED BY <2>1, <2>2, <2>3, <2>5
<1>7. A \o T = R \o q
  BY <1>1, <1>4, <1>5, <1>6, SeqEqual
<1> QED BY <1>1, <1>7 DEF A, T

\* Between two additions R is what there is in the table.
LEMMA AddedIdle ==
  ASSUME Idle, TypeInv, NEW P, NEW F, NEW S, NEW L, NEW R,
         StageInv(P, F, S, L), AddStage(P, F, S, L, R)
  PROVE  R = PartsOn(disk)
<1>1. \A b \in Blocks : LinkTo(P, b) # <<>> /\ LinkTo(P, b) \in Seq(HeldBlock)
  BY LastMagic, LinkWrites DEF StageInv
<1>2. ASSUME NEW b \in Blocks, NEW c \in Content
      PROVE  <<Write(b, c)>> \o LinkTo(P, b) # <<>>
  <2>1. Write(b, c) \in HeldBlock
    BY DEF Write, HeldBlock
  <2>2. /\ Len(<<Write(b, c)>> \o LinkTo(P, b)) = 1 + Len(LinkTo(P, b))
        /\ Len(LinkTo(P, b)) \in Nat
    BY <1>1, <2>1
  <2> QED BY <2>2
<1>3. ~WritesPart(P, F, S, L) /\ ~LinksPart(P, F, S, L)
  BY <1>1, <1>2 DEF Idle, WritesPart, LinksPart
<1> QED BY <1>3 DEF AddStage

\* rdb-rebuild begins to add its next candidate.
LEMMA StepAddNext ==
  ASSUME RescueInv, AddNext
  PROVE  RescueInv' /\ ImageStep
<1>1. /\ queue # <<>> /\ queue' = Tail(queue) /\ UNCHANGED <<command, base, torn, lost>>
      /\ AddPartitionAt(Head(queue).name, Head(queue).lo, Head(queue).hi)
  BY DEF AddNext
<1>2. Adding
  BY <1>1 DEF RescueInv, Settled, Lost, NoneRuns, Deleting, Relinking, Writing
<1>3. /\ command = "add" /\ queue \in Seq(Row) /\ TypeInv /\ Broken(base)
      /\ DriversOn(disk) = <<>>
  BY <1>2 DEF Adding
<1>4. PICK P, F, S, L, R :
       /\ StageInv(P, F, S, L) /\ AddStage(P, F, S, L, R)
       /\ R \in Seq(Row) /\ Rising(R \o queue) /\ lost \subseteq ToSet(R \o queue)
  BY <1>2 DEF Adding
<1> DEFINE n == Head(queue).name
           lo == Head(queue).lo
           hi == Head(queue).hi
<1>5. /\ Append(R, Head(queue)) \o Tail(queue) = R \o queue
      /\ Head(queue) \in Row /\ Tail(queue) \in Seq(Row) /\ Append(R, Head(queue)) \in Seq(Row)
  BY <1>1, <1>3, <1>4, MoveHead
<1>6. /\ n \in Names /\ lo \in LoCyl..(HiCyl + 1) /\ hi \in (LoCyl - 1)..HiCyl
      /\ lo <= hi + 1 /\ Fits(lo, hi) /\ add_partition(n, lo, hi)
  <2>1. n \in Names /\ lo \in Int /\ hi \in Int
    BY <1>5 DEF Row
  <2>2. LoCyl <= lo /\ lo <= hi /\ hi <= HiCyl /\ Fits(lo, hi) /\ add_partition(n, lo, hi)
    BY <1>1 DEF AddPartitionAt, Placeable
  <2> HIDE DEF n, lo, hi
  <2> QED BY <2>1, <2>2, Numbers
<1>7. RInv
  BY <1>3, <1>4 DEF RInv
<1>8. /\ RInv' /\ disk' = disk /\ Head(pending').data = PartitionBlock(n, lo, hi)
      /\ \E Q, G, T : StageInv(Q, G, T, {})' /\ WritesPart(Q, G, T, {})'
  <2> HIDE DEF n, lo, hi
  <2> QED BY <1>6, <1>7, CallAddPartition
<1>9. PartsOn(disk) = R /\ crashes' = crashes /\ inits' = inits
  <2>1. Idle /\ crashes' = crashes /\ inits' = inits
    BY <1>6 DEF add_partition, Begin
  <2> QED BY <1>3, <1>4, <2>1, AddedIdle
<1>10. PartRow(PartitionBlock(n, lo, hi)) = Head(queue)
  <2>1. Head(queue) = [name |-> n, lo |-> lo, hi |-> hi]
    BY <1>5 DEF Row
  <2> HIDE DEF n, lo, hi
  <2> QED BY <2>1 DEF PartRow, PartitionBlock
<1>11. Broken(base)'
  BY <1>1, <1>3, <1>9 DEF Broken, LostOn, Clear
<1>12. Adding'
  <2>1. PICK Q, G, T : StageInv(Q, G, T, {})' /\ WritesPart(Q, G, T, {})'
    BY <1>8
  <2>0. PICK R1 : R1 = Append(R, Head(queue))
    OBVIOUS
  <2>2. AddStage(Q, G, T, {}, R1)'
    BY <1>8, <1>9, <1>10, <2>0, <2>1 DEF AddStage
  <2>3. R1 \in Seq(Row) /\ Rising(R1 \o queue') /\ lost' \subseteq ToSet(R1 \o queue')
    BY <1>1, <1>4, <1>5, <2>0
  <2>4. TypeInv' /\ DriversOn(disk') = <<>> /\ queue' \in Seq(Row) /\ command' = "add"
    BY <1>1, <1>3, <1>5, <1>8 DEF RInv
  <2> QED BY <1>11, <2>1, <2>2, <2>3, <2>4 DEF Adding
<1>13. ImageStep
  <2>1. reread # "commit" /\ reread' # "commit"
    BY <1>3, <1>8 DEF RInv, TypeInv
  <2>2. base # NoOverlay
    BY <1>3, ImageThere DEF Broken
  <2> QED BY <1>1, <2>1, <2>2, SeenSimulation DEF Image, Blurred, Committing
<1> QED BY <1>12, <1>13 DEF RescueInv

\* A step of the simulation that adds.
LEMMA StepAdding ==
  ASSUME Adding, DeviceWrite, UNCHANGED <<commandVars, lost>>
  PROVE  RescueInv' /\ ImageStep
<1>1. /\ command = "add" /\ queue \in Seq(Row) /\ TypeInv /\ Broken(base)
      /\ DriversOn(disk) = <<>> /\ ~Idle
      /\ UNCHANGED <<command, base, queue, torn, lost>>
      /\ crashes' = crashes /\ inits' = inits
  BY DEF Adding, commandVars, DeviceWrite
<1>2. PICK P, F, S, L, R :
       /\ StageInv(P, F, S, L) /\ AddStage(P, F, S, L, R)
       /\ R \in Seq(Row) /\ Rising(R \o queue) /\ lost \subseteq ToSet(R \o queue)
  BY DEF Adding
<1>3. Broken(base)'
  BY <1>1 DEF Broken, LostOn, Clear
<1>4. /\ RInv' /\ DriversOn(disk') = DriversOn(disk)
      /\ \E Q, M : StageInv(Q, F, S, M)' /\ AddStage(Q, F, S, M, R)'
  <2>1. CASE WritesPart(P, F, S, L) /\ R = Append(PartsOn(disk), PartRow(Head(pending).data))
    <3>1. /\ RInv'
          /\ PartsOn(disk') = PartsOn(disk) /\ DriversOn(disk') = DriversOn(disk)
          /\ \E b \in Blocks : /\ StageInv(P, F, S, {b})' /\ LinksPart(P, F, S, {b})'
                               /\ disk'[b] = Head(pending).data
      BY <1>1, <1>2, <2>1, StepWritesPart
    <3>2. PICK b \in Blocks : /\ StageInv(P, F, S, {b})' /\ LinksPart(P, F, S, {b})'
                              /\ disk'[b] = Head(pending).data
      BY <3>1
    <3>3. AddStage(P, F, S, {b}, R)'
      BY <2>1, <3>1, <3>2 DEF AddStage
    <3> QED BY <3>1, <3>2, <3>3
  <2>2. CASE /\ LinksPart(P, F, S, L)
             /\ \A b \in L : R = Append(PartsOn(disk), PartRow(disk[b]))
    <3>1. /\ RInv' /\ DriversOn(disk') = DriversOn(disk)
          /\ \E b \in L : PartsOn(disk') = Append(PartsOn(disk), PartRow(disk[b]))
          /\ \E Q : StageInv(Q, F, S, {})' /\ (Quiet(Q, F, {}) \/ Closes(Q, F, {}))'
      BY <1>1, <1>2, <2>2, StepLinksPart
    <3>2. R = PartsOn(disk')
      BY <2>2, <3>1
    <3> QED BY <3>1, <3>2 DEF AddStage
  <2>3. CASE Closes(P, F, L) /\ R = PartsOn(disk)
    <3>1. /\ RInv'
          /\ PartsOn(disk') = PartsOn(disk) /\ DriversOn(disk') = DriversOn(disk)
          /\ StageInv(P, F, S, {})' /\ Quiet(P, F, {})'
      BY <1>1, <1>2, <2>3, StepCloses
    <3> QED BY <2>3, <3>1 DEF AddStage
  <2>4. CASE Quiet(P, F, L)
    BY <1>1, <2>4 DEF Quiet, Idle
  <2> QED BY <1>2, <2>1, <2>2, <2>3, <2>4 DEF AddStage
<1>5. Adding'
  BY <1>1, <1>2, <1>3, <1>4 DEF Adding, RInv
<1>6. ImageStep
  <2>1. reread # "commit" /\ reread' # "commit"
    BY <1>1, <1>4 DEF RInv, TypeInv
  <2>2. base # NoOverlay
    BY <1>1, ImageThere DEF Broken
  <2> QED BY <1>1, <2>1, <2>2, SeenSimulation DEF Image, Blurred, Committing
<1> QED BY <1>5, <1>6 DEF RescueInv

\* A write of RDisk, on the image or on the overlay.
LEMMA StepWrite ==
  ASSUME RescueInv, ~Committing, DeviceWrite, UNCHANGED <<commandVars, lost>>
  PROVE  RescueInv' /\ ImageStep
<1>1. CASE Settled
  <2>1. RInv' /\ TableStep
    BY <1>1, StepDeviceWrite DEF Settled
  <2>2. ~torn' /\ lost' = {} /\ UNCHANGED <<command, base, queue>>
    BY <1>1 DEF Settled, commandVars
  <2> QED BY <1>1, <2>1, <2>2, SettledStep
<1>2. CASE Lost
  BY <1>2, LostTyped DEF DeviceWrite
<1>3. CASE Writing
  BY <1>3 DEF Writing, Committing
<1>4. CASE Relinking
  BY <1>4 DEF Relinking, Quiet, DeviceWrite, Idle
<1> QED BY <1>1, <1>2, <1>3, <1>4, StepDeleting, StepAdding DEF RescueInv

-----------------------------------------------------------------------------
(* The commit *)

\* The sequence of nothing.
LEMMA NoneLeft ==
  ASSUME NEW T, NEW R \in Seq(T)
  PROVE  R \o <<>> = R
OBVIOUS

\* What a simulation has made when nothing is left to write or to add: the table
\* that the commit is to bring to the image.
Outcome(o, t) ==
  /\ \E P, F, S : StoredTable(t, P, F, S)
  /\ lost \subseteq ToSet(PartsOn(t))
  /\ command = "part-del" => SubParts(o, t) /\ (lost # {} => Clear(o))
  /\ \/ /\ command = "part-del" /\ ~torn /\ DriversOn(t) = DriversOn(o)
        /\ \E i \in DOMAIN PartsOn(o) : PartsOn(t) = RemoveAt(PartsOn(o), i)
     \/ /\ command = "add" /\ crashes > 0 /\ Broken(o)
        /\ Rising(PartsOn(t)) /\ DriversOn(t) = <<>>

\* part-del has removed one partition from the overlay.
LEMMA DeletionDone ==
  ASSUME Deleting, Idle
  PROVE  Outcome(base, disk)
<1>1. /\ command = "part-del" /\ ~torn /\ TypeInv
      /\ SubParts(base, disk) /\ DriversOn(disk) = DriversOn(base)
      /\ lost # {} => Clear(base)
  BY DEF Deleting
<1>2. PICK P, Q, F, S, L : \E i \in 1..Len(P) :
       /\ StoredTable(base, P, F, S) /\ StageInv(Q, F, S, L)
       /\ lost \subseteq ToSet(RemoveAt(PartsOn(base), i))
       /\ DeleteStage(P, Q, F, S, L, i)
  BY DEF Deleting
<1>3. PICK i \in 1..Len(P) :
       /\ StoredTable(base, P, F, S) /\ StageInv(Q, F, S, L)
       /\ lost \subseteq ToSet(RemoveAt(PartsOn(base), i))
       /\ DeleteStage(P, Q, F, S, L, i)
  BY <1>2
<1>4. ~UnlinksPart(Q, F, S, L) /\ ~ScrubsPart(Q, F, S, L)
  BY DEF Idle, UnlinksPart, ScrubsPart
<1>5. PartsOn(disk) = RemoveAt(PartsOn(base), i) /\ Quiet(Q, F, L)
  BY <1>3, <1>4 DEF DeleteStage
<1>6. StoredTable(disk, Q, F, S)
  BY <1>3, <1>5, StoredQuiet
<1>7. i \in DOMAIN PartsOn(base)
  BY <1>3, Rows, LenProperties DEF StoredTable
<1> QED BY <1>1, <1>3, <1>5, <1>6, <1>7 DEF Outcome

\* rdb-rebuild has added what the scan found.
LEMMA AddingDone ==
  ASSUME Adding, Idle, queue = <<>>
  PROVE  Outcome(base, disk)
<1>1. /\ command = "add" /\ TypeInv /\ Broken(base) /\ DriversOn(disk) = <<>>
      /\ crashes > 0 /\ crashes # 0
  BY DEF Adding, Broken, TypeInv
<1>2. PICK P, F, S, L, R :
       /\ StageInv(P, F, S, L) /\ AddStage(P, F, S, L, R)
       /\ R \in Seq(Row) /\ Rising(R \o queue) /\ lost \subseteq ToSet(R \o queue)
  BY DEF Adding
<1>3. R = PartsOn(disk) /\ R \o queue = R
  BY <1>1, <1>2, AddedIdle, NoneLeft
<1>4. StoredTable(disk, P, F, S)
  BY <1>1, <1>2 DEF StageInv, StoredTable
<1> QED BY <1>1, <1>2, <1>3, <1>4 DEF Outcome

\* Which instants a simulation has.
LEMMA SimulatingModes ==
  ASSUME RescueInv, Simulating
  PROVE  (Deleting \/ Relinking \/ Adding) /\ Typed /\ base \in [Blocks -> Content]
<1>1. Deleting \/ Relinking \/ Adding
  BY DEF RescueInv, Simulating, Committing, Settled, Lost, NoneRuns, Writing
<1>2. Typed
  BY <1>1 DEF Deleting, Relinking, Adding, Typed, TypeInv
<1>3. base \in [Blocks -> Content]
  BY <1>1 DEF Deleting, Relinking, Adding, StoredTable, IsTable, Broken
<1> QED BY <1>1, <1>2, <1>3

\* A command begins to write what it has made.
LEMMA StepCommit ==
  ASSUME RescueInv, Commit
  PROVE  RescueInv' /\ ImageStep
<1> DEFINE C == {b \in Blocks : disk[b] # base[b]}
           order == dirty_blocks(C)
<1>1. /\ Simulating /\ Idle /\ queue = <<>> /\ base # NoOverlay /\ ~Committing
      /\ pending' = [i \in DOMAIN order |-> Write(order[i], disk[order[i]])]
      /\ disk' = base /\ base' = (IF command = "part-del" THEN base ELSE NoOverlay)
      /\ reread' = "commit" /\ Closed'
      /\ UNCHANGED <<command, queue, torn, lost, crashes, inits>>
      /\ command # "relink"
  BY ExitCloses DEF Commit, Simulating
<1>2. Typed /\ base \in [Blocks -> Content] /\ Outcome(base, disk)
  BY <1>1, SimulatingModes, DeletionDone, AddingDone DEF Relinking
<1>3. order \in Seq(C) /\ \A b \in C : \E i \in 1..Len(order) : order[i] = b
  BY DirtyBlocks
<1> HIDE DEF order
<1>4. DOMAIN order = 1..Len(order) /\ Len(order) \in Nat /\ \A i \in 1..Len(order) : order[i] \in Blocks
  BY <1>3, LenProperties, ElementOfSeq
<1>5. ASSUME NEW i \in 1..Len(order)
      PROVE  /\ Write(order[i], disk[order[i]]) \in HeldBlock
             /\ Write(order[i], disk[order[i]]).blk = order[i]
             /\ Write(order[i], disk[order[i]]).data = disk[order[i]]
  BY <1>2, <1>4 DEF Write, HeldBlock, Typed
<1>6. /\ pending' \in Seq(HeldBlock) /\ Len(pending') = Len(order)
      /\ \A i \in 1..Len(order) : /\ pending'[i].blk = order[i]
                                  /\ pending'[i].data = disk[order[i]]
  <2>1. pending' \in [1..Len(order) -> HeldBlock]
    BY <1>1, <1>4, <1>5
  <2> QED BY <1>1, <1>4, <1>5, <2>1
<1> PICK o, t : o = base /\ t = disk
  OBVIOUS
<1>7. Reaches(pending', o, t)
  <2>1. \A i \in 1..Len(pending') : pending'[i].data = t[pending'[i].blk]
    BY <1>6
  <2>2. ASSUME NEW b \in Blocks, o[b] # t[b]
        PROVE  \E i \in 1..Len(pending') : pending'[i].blk = b
    <3>1. b \in C
      BY <2>2
    <3> QED BY <1>3, <1>6, <3>1
  <2> QED BY <2>1, <2>2 DEF Reaches
<1>8. PICK P, F, S : StoredTable(t, P, F, S)
  BY <1>2 DEF Outcome
<1>9. /\ lost \subseteq ToSet(PartsOn(t))
      /\ command = "part-del" => SubParts(o, t) /\ (lost # {} => Clear(o))
      /\ \/ /\ command = "part-del" /\ ~torn /\ DriversOn(t) = DriversOn(o)
            /\ \E i \in DOMAIN PartsOn(o) : PartsOn(t) = RemoveAt(PartsOn(o), i)
         \/ /\ command = "add" /\ crashes > 0 /\ Broken(o)
            /\ Rising(PartsOn(t)) /\ DriversOn(t) = <<>>
  BY <1>2 DEF Outcome
<1>10. Writing'
  <2>1. Typed'
    BY <1>1, <1>2, <1>6 DEF Typed
  <2>2. StoredTable(t, P, F, S)'
    BY <1>1, <1>8 DEF StoredTable
  <2>3. Reaches(pending', disk', t) /\ Between(disk', o, t)
    BY <1>1, <1>7 DEF Between
  <2>4. lost' \subseteq ToSet(PartsOn(t)) /\ (command' = "part-del" => SubParts(o, t) /\ (lost # {} => Clear(o))')
    BY <1>1, <1>9 DEF Clear
  <2>5. (DeleteOf(o, t) \/ RescueOf(t))'
    BY <1>1, <1>9 DEF DeleteOf, RescueOf
  <2> QED BY <1>1, <2>1, <2>2, <2>3, <2>4, <2>5 DEF Writing
<1>11. CASE command = "part-del"
  <2>1. Image' = Image /\ Blurred' = Blurred
    BY <1>1, <1>11 DEF Image, Blurred
  <2> QED BY <1>10, <2>1, SeenSimulation DEF RescueInv
<1>12. CASE command # "part-del"
  <2>1. ShownParts = <<>> /\ ShownDrivers = <<>>
    BY <1>1, <1>9, <1>12, LostShown DEF Image
  <2>2. Blurred'
    BY <1>1, <1>12 DEF Blurred, Committing
  <2>3. ImageStep
    BY <2>1, <2>2, SeenSame DEF ShownParts, ShownDrivers
  <2> QED BY <1>10, <2>3 DEF RescueInv
<1> QED BY <1>11, <1>12

\* A command gives up what it simulated, or has to.
LEMMA StepAbandon ==
  ASSUME RescueInv, Abandon \/ Relink
  PROVE  RescueInv' /\ ImageStep
<1>1. /\ Simulating /\ base # NoOverlay /\ ~Committing
      /\ disk' = base /\ pending' = <<>> /\ reread' = "none" /\ Closed'
      /\ command' = "none" /\ base' = NoOverlay /\ queue' = <<>>
      /\ lost' = (IF command = "part-del" THEN {} ELSE lost)
      /\ UNCHANGED <<torn, crashes, inits>>
  BY ExitCloses DEF Abandon, Relink, Discard, Simulating
<1>2. (Deleting \/ Relinking \/ Adding) /\ Typed /\ base \in [Blocks -> Content]
  BY <1>1, SimulatingModes
<1>3. Typed'
  <2>1. <<>> \in Seq(HeldBlock)
    BY EmptySeq
  <2> QED BY <1>1, <1>2, <2>1 DEF Typed
<1>4. NoneRuns'
  BY <1>1 DEF NoneRuns
<1>5. ImageStep
  <2>1. Image' = Image /\ Blurred' = Blurred
    BY <1>1 DEF Image, Blurred, Committing
  <2> QED BY <2>1, SeenSimulation
<1>6. CASE Deleting
  <2>1. command = "part-del" /\ ~torn
    BY <1>6 DEF Deleting
  <2>2. PICK P, F, S : StoredTable(base, P, F, S)
    BY <1>6 DEF Deleting
  <2>3. StoredTable(disk, P, F, S)'
    BY <1>1, <2>2 DEF StoredTable
  <2>4. RInv'
    BY <1>1, <1>3, <2>3, StoredInv
  <2> QED BY <1>1, <1>4, <1>5, <2>1, <2>4 DEF Settled, RescueInv
<1>7. CASE Relinking \/ Adding
  <2>1. Broken(base) /\ command # "part-del"
    BY <1>7 DEF Relinking, Adding
  <2>2. Broken(disk)'
    BY <1>1, <2>1 DEF Broken, LostOn, Clear
  <2> QED BY <1>1, <1>3, <1>4, <1>5, <2>2 DEF Lost, RescueInv
<1> QED BY <1>2, <1>6, <1>7

\* Only a commit commits.
LEMMA CommittingMode ==
  ASSUME RescueInv, Committing
  PROVE  Writing
BY Modes DEF Committing, RInv, TypeInv, Lost

\* What is shown while a rescue is committed, and in the commit of a deletion.
LEMMA WritingShown ==
  ASSUME Committing, NEW o, NEW t
  PROVE  /\ RescueOf(t) => ShownParts = <<>> /\ ShownDrivers = <<>>
         /\ DeleteOf(o, t) => ShownParts = PartsOn(o) /\ ShownDrivers = DriversOn(o)
BY DEF RescueOf, DeleteOf, ShownParts, ShownDrivers, Blurred, Image

\* One write of a commit.
LEMMA StepCommitWrite ==
  ASSUME RescueInv, CommitWrite
  PROVE  RescueInv' /\ ImageStep
<1>1. /\ Committing /\ pending # <<>>
      /\ disk' = [disk EXCEPT ![Head(pending).blk] = Head(pending).data]
      /\ pending' = Tail(pending)
      /\ UNCHANGED <<rdb, parts, fs, opened, reread, command, base, queue, torn, lost, crashes, inits>>
  BY DEF CommitWrite, Idle, mem, commandVars
<1>2. Writing
  BY <1>1, CommittingMode
<1>3. reread = "commit" /\ queue = <<>> /\ Typed /\ Closed
  BY <1>2 DEF Writing
<1>4. PICK o, t, P, F, S :
       /\ StoredTable(t, P, F, S) /\ Reaches(pending, disk, t) /\ Between(disk, o, t)
       /\ lost \subseteq ToSet(PartsOn(t))
       /\ command = "part-del" => SubParts(o, t) /\ (lost # {} => Clear(o))
       /\ DeleteOf(o, t) \/ RescueOf(t)
  BY <1>2 DEF Writing
<1>5. /\ pending \in Seq(HeldBlock) /\ Len(pending) \in Nat /\ 1 \in 1..Len(pending)
      /\ Head(pending) = pending[1] /\ pending[1] \in HeldBlock
      /\ pending' \in Seq(HeldBlock) /\ Len(pending') = Len(pending) - 1
      /\ \A i \in 1 .. Len(pending) - 1 : pending'[i] = pending[i + 1]
  <2>1. pending \in Seq(HeldBlock) /\ pending # <<>>
    BY <1>1, <1>3 DEF Typed
  <2>2. Len(pending) \in Nat /\ Len(pending) # 0
    BY <2>1, LenProperties, EmptySeq
  <2>3. 1 \in 1..Len(pending)
    BY <2>2
  <2> QED BY <1>1, <2>1, <2>2, <2>3, HeadTailProperties, ElementOfSeq
<1> PICK h : h = pending[1]
  OBVIOUS
<1>6. h.blk \in Blocks /\ h.data \in Content /\ h.data = t[h.blk]
  BY <1>4, <1>5 DEF HeldBlock, Reaches
<1>7. /\ disk' \in [Blocks -> Content] /\ disk'[h.blk] = t[h.blk]
      /\ \A b \in Blocks \ {h.blk} : disk'[b] = disk[b]
  BY <1>1, <1>3, <1>5, <1>6 DEF Typed
<1>8. Between(disk', o, t)
  BY <1>4, <1>7 DEF Between
<1>9. Reaches(pending', disk', t)
  <2>1. ASSUME NEW i \in 1..Len(pending') PROVE pending'[i].data = t[pending'[i].blk]
    <3>1. i + 1 \in 1..Len(pending) /\ pending'[i] = pending[i + 1]
      BY <1>5
    <3> QED BY <1>4, <3>1 DEF Reaches
  <2>2. ASSUME NEW b \in Blocks, disk'[b] # t[b]
        PROVE  \E i \in 1..Len(pending') : pending'[i].blk = b
    <3>1. b # h.blk /\ disk'[b] = disk[b]
      BY <1>7, <2>2
    <3>2. PICK i \in 1..Len(pending) : pending[i].blk = b
      BY <1>4, <2>2, <3>1 DEF Reaches
    <3>3. i # 1
      BY <3>1, <3>2
    <3>4. i - 1 \in 1..Len(pending') /\ i - 1 \in 1 .. Len(pending) - 1 /\ (i - 1) + 1 = i
      BY <1>5, <3>3
    <3>5. pending'[i - 1] = pending[i]
      BY <1>5, <3>4
    <3> QED BY <3>2, <3>4, <3>5
  <2> QED BY <2>1, <2>2 DEF Reaches
<1>10. Writing'
  <2>1. Typed' /\ Closed'
    BY <1>1, <1>3, <1>5, <1>7 DEF Typed, Closed
  <2>2. StoredTable(t, P, F, S)'
    BY <1>1, <1>4 DEF StoredTable
  <2>3. lost' \subseteq ToSet(PartsOn(t)) /\ (command' = "part-del" => SubParts(o, t) /\ (lost # {} => Clear(o))')
    BY <1>1, <1>4 DEF Clear
  <2>4. (DeleteOf(o, t) \/ RescueOf(t))'
    BY <1>1, <1>4 DEF DeleteOf, RescueOf
  <2> QED BY <1>1, <1>3, <1>8, <1>9, <2>1, <2>2, <2>3, <2>4 DEF Writing
<1>11. ImageStep
  <2>1. CASE DeleteOf(o, t)
    <3>1. Image' = Image /\ Blurred' = Blurred
      BY <1>1, <2>1 DEF Image, Blurred, Committing, DeleteOf
    <3> QED BY <3>1, SeenSimulation
  <2>2. CASE RescueOf(t)
    <3>1. Blurred /\ Blurred'
      BY <1>1, <2>2 DEF Blurred, Committing, RescueOf
    <3> QED BY <3>1, SeenSame DEF ShownParts, ShownDrivers
  <2> QED BY <1>4, <2>1, <2>2
<1> QED BY <1>10, <1>11 DEF RescueInv

\* When a commit ends, the image is the table, with the lost partitions in it.
LEMMA CommitEnds ==
  ASSUME RescueInv, Committed
  PROVE  /\ Typed /\ Closed /\ queue = <<>> /\ pending = <<>>
         /\ lost \subseteq ToSet(PartsOn(disk))
         /\ \E P, F, S : StoredTable(disk, P, F, S)
         /\ \E o : DeleteOf(o, disk) \/ RescueOf(disk)
<1>1. Committing /\ pending = <<>>
  BY DEF Committed, Idle
<1>2. Writing
  BY <1>1, CommittingMode
<1>3. queue = <<>> /\ Typed /\ Closed
  BY <1>2 DEF Writing
<1>4. PICK o, t, P, F, S :
       /\ StoredTable(t, P, F, S) /\ Reaches(pending, disk, t)
       /\ lost \subseteq ToSet(PartsOn(t))
       /\ DeleteOf(o, t) \/ RescueOf(t)
  BY <1>2 DEF Writing
<1>5. disk = t
  BY <1>1, <1>3, <1>4, Reached
<1> QED BY <1>1, <1>3, <1>4, <1>5

\* A commit ends: the image has a table again that nobody works on.
LEMMA StepCommitted ==
  ASSUME RescueInv, Committed
  PROVE  RescueInv' /\ ImageStep
<1>1. /\ Committing /\ torn' = FALSE /\ lost' = {} /\ reread' = "none" /\ command' = "none"
      /\ base' = NoOverlay
      /\ UNCHANGED <<disk, rdb, parts, fs, opened, queue, inits, pending, crashes>>
  BY DEF Committed, Ended, mem
<1>2. Typed /\ Closed /\ queue = <<>> /\ pending = <<>>
  BY CommitEnds
<1>3. PICK P, F, S : StoredTable(disk, P, F, S)
  BY CommitEnds
<1> PICK t : t = disk
  OBVIOUS
<1>4. PICK o : DeleteOf(o, t) \/ RescueOf(t)
  BY CommitEnds
<1>5. Typed' /\ Closed'
  BY <1>1, <1>2 DEF Typed, Closed
<1>6. StoredTable(disk, P, F, S)'
  BY <1>1, <1>3 DEF StoredTable
<1>7. RInv'
  BY <1>1, <1>2, <1>5, <1>6, StoredInv
<1>8. Settled'
  BY <1>1, <1>2, <1>7 DEF Settled, NoneRuns
<1>9. ShownParts' = PartsOn(t) /\ ShownDrivers' = DriversOn(t)
  <2>1. ~Blurred' /\ Image' = t
    BY <1>1 DEF Blurred, Committing, Image
  <2> QED BY <2>1 DEF ShownParts, ShownDrivers
<1>10. CASE DeleteOf(o, t)
  <2>1. ShownParts = PartsOn(o) /\ ShownDrivers = DriversOn(o)
    BY <1>1, <1>10, WritingShown
  <2>2. PICK i \in DOMAIN ShownParts : ShownParts' = RemoveAt(ShownParts, i)
    BY <1>9, <1>10, <2>1 DEF DeleteOf
  <2>3. ShownDrivers' = ShownDrivers
    BY <1>9, <1>10, <2>1 DEF DeleteOf
  <2> QED BY <1>8, <2>2, <2>3, SeenDelete DEF RescueInv
<1>11. CASE RescueOf(t)
  <2>1. ShownParts = <<>> /\ ShownDrivers = <<>>
    BY <1>1, <1>11, WritingShown
  <2>2. PartsOn(t) \in Seq(Partition)
    BY <1>3, Rows DEF StoredTable
  <2>3. ShownDrivers' = ShownDrivers /\ ShownParts' \in Seq(Partition) /\ Rising(ShownParts')
    BY <1>9, <1>11, <2>1, <2>2 DEF RescueOf
  <2> QED BY <1>8, <2>1, <2>3, SeenRecover DEF RescueInv
<1> QED BY <1>4, <1>10, <1>11

\* A command is killed in its commit. What it has not reached is what it was, so
\* that the PART blocks of the lost partitions are there.
LEMMA StepKilled ==
  ASSUME RescueInv, KilledInCommit
  PROVE  RescueInv' /\ ImageStep
<1>1. /\ Committing /\ torn' = TRUE /\ pending' = <<>>
      /\ command = "part-del" => crashes + inits < MaxUpsets
      /\ crashes' = (IF command = "part-del" THEN crashes + 1 ELSE crashes)
      /\ lost' = (IF command = "part-del" THEN lost ELSE {})
      /\ reread' = "none" /\ command' = "none" /\ base' = NoOverlay
      /\ UNCHANGED <<disk, rdb, parts, fs, opened, queue, inits>>
  BY DEF KilledInCommit, Ended, mem
<1>2. Writing
  BY <1>1, CommittingMode
<1>3. queue = <<>> /\ Typed /\ Closed
  BY <1>2 DEF Writing
<1>4. PICK o, t, P, F, S :
       /\ StoredTable(t, P, F, S) /\ Between(disk, o, t)
       /\ lost \subseteq ToSet(PartsOn(t))
       /\ command = "part-del" => SubParts(o, t) /\ (lost # {} => Clear(o))
       /\ DeleteOf(o, t) \/ RescueOf(t)
  BY <1>2 DEF Writing
<1>5. crashes' > 0 /\ crashes' \in 0..MaxUpsets
  <2>1. crashes \in Nat /\ crashes <= MaxUpsets /\ inits \in Nat /\ MaxUpsets \in Nat
    BY <1>3, AreaAssumption DEF Typed
  <2>2. CASE command = "part-del"
    BY <1>1, <2>1, <2>2
  <2>3. CASE command # "part-del"
    <3>1. crashes > 0
      BY <1>4, <2>3 DEF DeleteOf, RescueOf
    <3> QED BY <1>1, <2>1, <2>3, <3>1
  <2> QED BY <2>2, <2>3
<1>6. LostOn(disk)'
  <2> SUFFICES ASSUME lost' # {}
               PROVE  Clear(disk)' /\ \A p \in lost' :
                        \E b \in 1..RdbHi : disk'[b].magic = "PART" /\ PartRow(disk'[b]) = p
    BY DEF LostOn
  <2>1. lost' = lost /\ SubParts(o, t) /\ Clear(o) /\ disk' = disk
    BY <1>1, <1>4
  <2>2. SubParts(o, disk)
    BY <1>4, <2>1 DEF SubParts, Between
  <2>3. PartsApart(disk) /\ \A p \in lost : p.lo <= p.hi
    BY <2>1, <2>2, SubPartsApart DEF Clear
  <2>4. ASSUME NEW p \in lost
        PROVE  \E b \in 1..RdbHi : disk[b].magic = "PART" /\ PartRow(disk[b]) = p
    <3>1. IsTable(t, P, F, S)
      BY <1>4 DEF StoredTable
    <3>2. p \in ToSet(PartsOn(t))
      BY <1>4
    <3>3. PICK i \in 1..Len(P) : p = PartRow(t[P[i]])
      BY <3>1, <3>2, RowBlocks
    <3>4. P[i] \in Blocks /\ t[P[i]].magic = "PART" /\ P[i] # RDSK
      BY <3>1, TableBlocks
    <3>5. o[P[i]].magic = "PART" /\ PartRow(o[P[i]]) = p
      BY <2>1, <3>3, <3>4 DEF SubParts
    <3>6. disk[P[i]].magic = "PART" /\ PartRow(disk[P[i]]) = p
      BY <1>4, <3>3, <3>4, <3>5 DEF Between
    <3>7. P[i] \in 1..RdbHi
      BY <3>4, Numbers
    <3> QED BY <3>6, <3>7
  <2>5. Clear(disk)'
    BY <2>1, <2>3 DEF Clear, PartsApart
  <2> QED BY <2>1, <2>4, <2>5
<1>7. Lost'
  <2>1. Typed'
    <3>1. <<>> \in Seq(HeldBlock)
      BY EmptySeq
    <3> QED BY <1>1, <1>3, <1>5, <3>1 DEF Typed
  <2>2. Closed' /\ NoneRuns'
    BY <1>1, <1>3 DEF Closed, NoneRuns
  <2>3. Broken(disk)'
    BY <1>1, <1>3, <1>5, <1>6 DEF Broken, Typed
  <2> QED BY <1>1, <2>1, <2>2, <2>3 DEF Lost
<1>8. ImageStep
  <2>1. Blurred'
    BY <1>1 DEF Blurred
  <2> QED BY <2>1, SeenCreate DEF ShownParts, ShownDrivers
<1> QED BY <1>7, <1>8 DEF RescueInv

-----------------------------------------------------------------------------
(* Every step *)

\* Nothing happens.
LEMMA StepNone ==
  ASSUME RescueInv, UNCHANGED rescueVars
  PROVE  RescueInv' /\ ImageStep
<1>1. /\ UNCHANGED vars
      /\ UNCHANGED <<disk, rdb, parts, fs, opened, pending, reread, crashes, inits,
                     command, base, queue, torn, lost>>
  BY DEF rescueVars, vars, commandVars
<1>2. Typed' = Typed /\ Closed' = Closed /\ TypeInv' = TypeInv /\ NoneRuns' = NoneRuns
  BY <1>1 DEF Typed, Closed, TypeInv, NoneRuns
<1>3. /\ Broken(disk)' = Broken(disk) /\ Broken(base)' = Broken(base)
      /\ \A d : Clear(d)' = Clear(d)
      /\ \A d, P, F, S : StoredTable(d, P, F, S)' = StoredTable(d, P, F, S)
  BY <1>1 DEF Broken, LostOn, Clear, StoredTable
<1>4. ASSUME Settled PROVE Settled'
  <2>1. RInv' /\ TableStep
    BY <1>1, <1>4, RStep DEF Settled
  <2>2. ~torn' /\ lost' = {} /\ UNCHANGED <<command, base, queue>>
    BY <1>1, <1>4 DEF Settled
  <2>3. Settled'
    BY <1>2, <1>4, <2>1, <2>2 DEF Settled
  <2> QED BY <2>3
<1>5. ASSUME Lost PROVE Lost'
  BY <1>1, <1>2, <1>3, <1>5 DEF Lost
<1>6. ASSUME Deleting PROVE Deleting'
  <2>1. /\ command = "part-del" /\ queue = <<>> /\ ~torn /\ TypeInv
        /\ SubParts(base, disk) /\ DriversOn(disk) = DriversOn(base)
        /\ lost # {} => Clear(base)
    BY <1>6 DEF Deleting
  <2>2. PICK P, Q, F, S, L : \E i \in 1..Len(P) :
         /\ StoredTable(base, P, F, S) /\ StageInv(Q, F, S, L)
         /\ lost \subseteq ToSet(RemoveAt(PartsOn(base), i))
         /\ DeleteStage(P, Q, F, S, L, i)
    BY <1>6 DEF Deleting
  <2>3. PICK i \in 1..Len(P) :
         /\ StoredTable(base, P, F, S) /\ StageInv(Q, F, S, L)
         /\ lost \subseteq ToSet(RemoveAt(PartsOn(base), i))
         /\ DeleteStage(P, Q, F, S, L, i)
    BY <2>2
  <2>4. StageInv(Q, F, S, L)' /\ DeleteStage(P, Q, F, S, L, i)'
    BY <1>1, <2>3, StageSame DEF DeleteStage
  <2>5. StoredTable(base, P, F, S)'
    BY <1>1, <2>3 DEF StoredTable
  <2>6. (lost # {} => Clear(base))'
    BY <1>1, <2>1 DEF Clear
  <2> QED BY <1>1, <1>2, <2>1, <2>3, <2>4, <2>5, <2>6 DEF Deleting
<1>7. ASSUME Relinking PROVE Relinking'
  BY <1>1, <1>2, <1>3, <1>7, StageSame DEF Relinking
<1>8. ASSUME Adding PROVE Adding'
  <2>1. PICK P, F, S, L, R :
         /\ StageInv(P, F, S, L) /\ AddStage(P, F, S, L, R)
         /\ R \in Seq(Row) /\ Rising(R \o queue) /\ lost \subseteq ToSet(R \o queue)
    BY <1>8 DEF Adding
  <2>2. StageInv(P, F, S, L)' /\ AddStage(P, F, S, L, R)'
    BY <1>1, <2>1, StageSame DEF AddStage
  <2> QED BY <1>1, <1>2, <1>3, <1>8, <2>1, <2>2 DEF Adding
<1>9. ASSUME Writing PROVE Writing'
  <2>1. PICK o, t, P, F, S :
         /\ StoredTable(t, P, F, S) /\ Reaches(pending, disk, t) /\ Between(disk, o, t)
         /\ lost \subseteq ToSet(PartsOn(t))
         /\ command = "part-del" => SubParts(o, t) /\ (lost # {} => Clear(o))
         /\ DeleteOf(o, t) \/ RescueOf(t)
    BY <1>9 DEF Writing
  <2>2. (DeleteOf(o, t) \/ RescueOf(t))' /\ StoredTable(t, P, F, S)'
    BY <1>1, <2>1 DEF DeleteOf, RescueOf, StoredTable
  <2>3. (lost # {} => Clear(o))' = (lost # {} => Clear(o))
    BY <1>1 DEF Clear
  <2> QED BY <1>1, <1>2, <1>9, <2>1, <2>2, <2>3 DEF Writing
<1>10. ImageStep
  BY <1>1, SeenSimulation DEF Image, Blurred, Committing
<1> QED BY <1>4, <1>5, <1>6, <1>7, <1>8, <1>9, <1>10 DEF RescueInv

\* Every step leads from one of the instants to one of them, and is one of the
\* table that a reader of the image sees, or shows in nothing.
LEMMA RescueStep ==
  ASSUME RescueInv, [RescueNext]_rescueVars
  PROVE  RescueInv' /\ ImageStep
<1>1. CASE RescueNext
  BY <1>1, StepLibrary, StepWrite, StepCrash, StepOverwrite, StepPartDel, StepRebuild,
     StepAddNext, StepCommit, StepAbandon, StepCommitWrite, StepCommitted, StepKilled
  DEF RescueNext
<1>2. CASE UNCHANGED rescueVars
  BY <1>2, StepNone
<1> QED BY <1>1, <1>2

\* A program has just made a table.
LEMMA RescueStart ==
  ASSUME RescueInit
  PROVE  RescueInv /\ ShownParts = <<>> /\ ShownDrivers = <<>>
<1>1. Init /\ NoneRuns /\ ~torn /\ lost = {}
  BY DEF RescueInit, NoneRuns
<1>2. Settled /\ PartsOn(disk) = <<>> /\ DriversOn(disk) = <<>>
  BY <1>1, RInit DEF Settled
<1> QED BY <1>2, SettledShown DEF RescueInv, ShownParts, ShownDrivers

-----------------------------------------------------------------------------
(* Theorems *)

\* At every instant it is one of those that the invariant tells apart.
THEOREM RescueInvariant == RescueSpec => []RescueInv
<1>1. RescueInit => RescueInv
  BY RescueStart
<1>2. RescueInv /\ [RescueNext]_rescueVars => RescueInv'
  BY RescueStep
<1> QED BY <1>1, <1>2, PTL DEF RescueSpec

\* The table on the overlay is sound at every write of a simulation, and the one
\* on the image at every write of a call on it and when a commit has ended.
THEOREM SoundUnlessTornAlways == RescueSpec => []SoundUnlessTorn
BY SafeOfInv, RescueInvariant, PTL

\* With commands that write through an overlay, too, what a program has in
\* memory between calls is the table that it reads and writes.
THEOREM RescueMemoryIsTheTable == RescueSpec => []MemoryIsTheTable
BY SafeOfInv, RescueInvariant, PTL

\* As long as nothing was overwritten, killed or cut off, a scan finds no
\* partition that was deleted, part-del included.
THEOREM RescueScanFindsOnlyTheTable == RescueSpec => []ScanFindsOnlyTheTable
BY SafeOfInv, RescueInvariant, PTL

\* What a reader of the image sees changes as the abstract table does: a
\* simulation shows in nothing, a deletion that is committed takes one partition
\* out, and a rescue brings disjoint partitions to an empty table.
THEOREM ImageImplementsTableAlways == RescueSpec => ImageImplementsTable
<1>1. RescueInit => ImageTable!Init
  BY RescueStart DEF ImageTable!Init, ShownParts, ShownDrivers
<1>2. RescueInv /\ [RescueNext]_rescueVars => [ImageTable!Next]_(ImageTable!table)
  BY RescueStep DEF ImageStep
<1> QED BY <1>1, <1>2, RescueInvariant, PTL
       DEF RescueSpec, ImageImplementsTable, ImageTable!Spec

\* A deletion, or a rescue that adds partitions, whose commit ends leaves every
\* partition in the table that had its PART block, also when the table was lost
\* in the commit of a deletion.
THEOREM RescueRestoresAlways == RescueSpec => RescueRestores
<1>1. RescueInv => [Committed => lost \subseteq ToSet(PartsOn(disk))]_rescueVars
  BY CommitEnds
<1> QED BY <1>1, RescueInvariant, PTL DEF RescueRestores
=============================================================================
