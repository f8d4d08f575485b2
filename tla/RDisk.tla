-------------------------------- MODULE RDisk --------------------------------
(* The partition table of rdb/rdisk.py: class RDisk with its chains of PART,  *)
(* FSHD and LSEG blocks behind the RDSK block.                                *)
(* A call computes its block writes from the table in memory; `pending` holds *)
(* the writes still to be made, in the order of the code, and DeviceWrite     *)
(* makes one. A crash, or a device error (it ends the program), drops the     *)
(* rest, and the next program opens what is on the disk.                      *)
EXTENDS Integers, FiniteSets, SequencesExt

CONSTANTS
    Names, DosTypes, DriverSizes, LoCyl, HiCyl,
    RdbHi,        \* rdb_blocks_hi: the area of the table is 0..RdbHi
    MaxUpsets     \* bound: crashes, losses and calls of create in a behaviour

ASSUME AreaAssumption ==
    /\ RdbHi \in Nat \ {0}
    /\ LoCyl \in Nat \ {0} /\ HiCyl \in Nat /\ LoCyl <= HiCyl
    /\ DriverSizes \subseteq Nat
    /\ MaxUpsets \in Nat

VARIABLES
    disk,         \* content of each block of the area
    rdb,          \* self.rdb: the RDSK block in memory
    parts,        \* self.parts: the PART blocks in memory, in chain order
    fs,           \* self.fs: the FSHD blocks in memory, in chain order
    opened,       \* whether a program has the table in memory
    pending,      \* block writes of the call in progress
    reread,       \* what the call does when they are made, or "commit"
    crashes, inits

mem == <<rdb, parts, fs, opened>>
vars == <<disk, rdb, parts, fs, opened, pending, reread, crashes, inits>>

-----------------------------------------------------------------------------
(* Blocks                                                                     *)

Blocks == 0..RdbHi
END == RdbHi + 1           \* the value that ends a chain: no block has it
RDSK == 0                  \* blk_num of the RDSK block

Blank == [magic |-> "none"]
RDBlock(partition_list, fs_header_list, high) ==
    [magic |-> "RDSK", partition_list |-> partition_list,
     fs_header_list |-> fs_header_list, high_rdsk_block |-> high]
PartitionBlock(n, lo, hi) ==
    [magic |-> "PART", next |-> END, name |-> n, lo |-> lo, hi |-> hi]
FSHeaderBlock(t, seg_list) ==
    [magic |-> "FSHD", next |-> END, dos_type |-> t, seg_list |-> seg_list]
LoadSegBlock(next, t, i) ==
    [magic |-> "LSEG", next |-> next, of |-> t, chunk |-> i]

FreshRDB == RDBlock(END, END, 0)

BlockNums == Blocks \cup {END}
Content ==
    {Blank}
    \cup [magic : {"RDSK"}, partition_list : BlockNums,
          fs_header_list : BlockNums, high_rdsk_block : Blocks]
    \cup {c \in [magic : {"PART"}, next : BlockNums, name : Names,
                lo : LoCyl..(HiCyl + 1), hi : (LoCyl - 1)..HiCyl] : c.lo <= c.hi + 1}
    \cup [magic : {"FSHD"}, next : BlockNums, dos_type : DosTypes,
          seg_list : BlockNums]
    \cup [magic : {"LSEG"}, next : BlockNums, of : DosTypes, chunk : Nat]

\* A block that the program holds: its number and its content.
InMemory(d, bs) == [i \in DOMAIN bs |-> [blk |-> bs[i], data |-> d[bs[i]]]]
BlkNums(held) == {h.blk : h \in ToSet(held)}

\* The blocks of type `magic` met from `first` along `next` on d.
Walk(d, first, magic) ==
    LET from[n \in 0..(RdbHi + 1)] ==
          IF n = 0 THEN [b \in BlockNums |-> <<>>]
          ELSE [b \in BlockNums |->
                  IF b = END \/ d[b].magic # magic THEN <<>>
                  ELSE <<b>> \o from[n - 1][d[b].next]]
    IN from[RdbHi + 1][first]

\* _walk_chain returns: it ends at END, not at a bad block or in a cycle.
Ends(d, first, magic) ==
    LET w == Walk(d, first, magic)
    IN END = (IF w = <<>> THEN first ELSE d[Last(w)].next)

HasTable(d) == d[RDSK].magic = "RDSK"
PartChain(d) == IF HasTable(d) THEN Walk(d, d[RDSK].partition_list, "PART") ELSE <<>>
FsChain(d) == IF HasTable(d) THEN Walk(d, d[RDSK].fs_header_list, "FSHD") ELSE <<>>
SegChain(d, fshd) == Walk(d, fshd.seg_list, "LSEG")

\* open does not raise.
Readable(d) ==
    /\ HasTable(d)
    /\ Ends(d, d[RDSK].partition_list, "PART")
    /\ Ends(d, d[RDSK].fs_header_list, "FSHD")

-----------------------------------------------------------------------------
(* Allocation                                                                 *)

UsedWithoutCode ==      \* mutant
    {RDSK} \cup BlkNums(parts) \cup BlkNums(fs)
used_rdb_blocks ==
    {RDSK} \cup BlkNums(parts) \cup BlkNums(fs)
      \cup UNION {ToSet(SegChain(disk, f.data)) : f \in ToSet(fs)}

FreeBlocks ==
    LET used == used_rdb_blocks
    IN {b \in 1..RdbHi : b \notin used}

\* The first n free blocks, ascending, if there are as many.
FirstFree(n) ==
    {s \in [1..n -> FreeBlocks] :
       \A i \in 1..n : {b \in FreeBlocks : b < s[i]} = {s[j] : j \in 1..i-1}}

FitsTouching(lo, hi) == \A p \in ToSet(parts) : hi <= p.data.lo \/ lo > p.data.hi      \* mutant
\* The cylinders lo..hi meet no partition (an empty partition is a barrier
\* where it stands).
Fits(lo, hi) == \A p \in ToSet(parts) : hi < p.data.lo \/ lo > p.data.hi

\* The cylinders are a range of the area, and free.
Placeable(lo, hi) == LoCyl <= lo /\ lo <= hi /\ hi <= HiCyl /\ Fits(lo, hi)

\* Where a gap can begin: at the start of the area and after a partition.
GapStarts == {LoCyl} \cup {p.data.hi + 1 : p \in ToSet(parts)}


\* free_cyl_range: where the first gap of num cylinders begins, if any.
FreeCylStarts(num) ==
    LET fit == {c \in GapStarts :
                  c + num - 1 <= HiCyl /\ Fits(c, c + num - 1)}
    IN {c \in fit : \A e \in fit : c <= e}

\* Size "all that is left": the first of the largest gaps.
LargestGaps ==
    LET gaps == {g \in GapStarts \X (LoCyl..HiCyl) :
                   g[1] <= g[2] /\ Fits(g[1], g[2])}
        Beats(g, h) == \/ g[2] - g[1] > h[2] - h[1]
                       \/ g[2] - g[1] = h[2] - h[1] /\ g[1] < h[1]
    IN {g \in gaps : \A h \in gaps \ {g} : Beats(g, h)}

-----------------------------------------------------------------------------
(* Calls                                                                      *)

Write(b, c) == [blk |-> b, data |-> c]
Idle == pending = <<>>
MaxOf(a, b) == IF a >= b THEN a ELSE b


\* The writes that append block b to a chain which starts at `head` and whose
\* blocks are held: the link in the last one, if any, then the RDSK block.
AppendToChain(head, held, b, new_rdb) ==
    IF head = END THEN <<Write(RDSK, new_rdb)>>
    ELSE <<Write(Last(held).blk, [Last(held).data EXCEPT !.next = b]),
           Write(RDSK, new_rdb)>>

Begin(writes, what) ==
    /\ pending' = writes
    /\ reread' = what
    /\ UNCHANGED <<disk, parts, fs, opened, crashes, inits>>

Nameable(n) == \A p \in ToSet(parts) : p.data.name # n

\* add_partition once its cylinders are chosen.
add_partition(n, lo, hi) ==
    /\ Idle /\ opened
    /\ Nameable(n)
    /\ \E blocks \in FirstFree(1) :
       LET blk == blocks[1]
           new == [rdb EXCEPT
                     !.partition_list = IF @ = END THEN blk ELSE @,
                     !.high_rdsk_block = MaxOf(@, blk)]
       IN /\ rdb' = new
          /\ Begin(<<Write(blk, PartitionBlock(n, lo, hi))>>
                     \o AppendToChain(rdb.partition_list, parts, blk, new),
                   "parts")

AddPartitionAt(n, lo, hi) ==
    /\ Placeable(lo, hi)
    /\ add_partition(n, lo, hi)

AddPartitionSized(n, num) ==
    \E c \in FreeCylStarts(num) : add_partition(n, c, c + num - 1)

AddPartitionRest(n) ==
    \E g \in LargestGaps : add_partition(n, g[1], g[2])

add_filesystem(t, nseg) ==
    /\ Idle /\ opened
    /\ \A f \in ToSet(fs) : f.data.dos_type # t
    /\ \E blocks \in FirstFree(nseg + 1) :
       LET fshd == blocks[1]
           seg == Tail(blocks)
           lseg(i) == LoadSegBlock(IF i < nseg THEN seg[i + 1] ELSE END, t, i)
           top == IF nseg = 0 THEN fshd ELSE Last(seg)
           new == [rdb EXCEPT
                     !.fs_header_list = IF @ = END THEN fshd ELSE @,
                     !.high_rdsk_block = MaxOf(@, top)]
       IN /\ rdb' = new
          /\ Begin([i \in 1..nseg |-> Write(seg[i], lseg(i))]
                     \o <<Write(fshd, FSHeaderBlock(
                            t, IF nseg = 0 THEN END ELSE seg[1]))>>
                     \o AppendToChain(rdb.fs_header_list, fs, fshd, new),
                   "fs")

\* What the block before the i-th partition becomes, and where it is.
Unlink(i) ==
    LET skip == parts[i].data.next
    IN IF i = 1
       THEN Write(RDSK, [rdb EXCEPT !.partition_list = skip])
       ELSE Write(parts[i - 1].blk, [parts[i - 1].data EXCEPT !.next = skip])

UnlinkOnly(i) == <<Unlink(i)>>      \* mutant
\* The writes of delete_partition for the i-th partition: the block before it
\* in the chain skips it, then it is scrubbed.
DeleteWrites(i) == <<Unlink(i), Write(parts[i].blk, Blank)>>

delete_partition(i) ==
    /\ Idle /\ opened
    /\ rdb' = IF i = 1 THEN [rdb EXCEPT !.partition_list = parts[1].data.next]
              ELSE rdb
    /\ Begin(DeleteWrites(i), "parts")

\* The program ends, and its memory with it.
Exit == rdb' = FreshRDB /\ parts' = <<>> /\ fs' = <<>> /\ opened' = FALSE

Load(d) ==
    /\ rdb' = d[RDSK]
    /\ parts' = InMemory(d, PartChain(d))
    /\ fs' = InMemory(d, FsChain(d))
    /\ opened' = TRUE

NoReread(what, d) == UNCHANGED mem      \* mutant

\* The last write of a call returns to what the call rereads.
Reread(what, d) ==
    CASE what = "parts" ->
           parts' = InMemory(d, PartChain(d)) /\ UNCHANGED <<rdb, fs, opened>>
      [] what = "fs" ->
           fs' = InMemory(d, FsChain(d)) /\ UNCHANGED <<rdb, parts, opened>>
      [] what = "all" -> Load(d)

DeviceWrite ==
    /\ ~Idle
    /\ disk' = [disk EXCEPT ![Head(pending).blk] = Head(pending).data]
    /\ pending' = Tail(pending)
    /\ IF Tail(pending) = <<>>
       THEN Reread(reread, disk') /\ reread' = "none"
       ELSE UNCHANGED <<mem, reread>>
    /\ UNCHANGED <<crashes, inits>>

Crash ==
    /\ ~Idle /\ crashes + inits < MaxUpsets
    /\ crashes' = crashes + 1
    /\ pending' = <<>> /\ reread' = "none" /\ Exit
    /\ UNCHANGED <<disk, inits>>

open ==
    /\ ~opened /\ Readable(disk)
    /\ Load(disk)
    /\ UNCHANGED <<disk, pending, reread, crashes, inits>>

\* create writes the RDSK block and nothing else, and opens the result.
create ==
    /\ Idle /\ crashes + inits < MaxUpsets
    /\ inits' = inits + 1
    /\ disk' = [disk EXCEPT ![RDSK] = FreshRDB]
    /\ Load(disk')
    /\ UNCHANGED <<pending, reread, crashes>>

-----------------------------------------------------------------------------

Init ==
    /\ disk = [b \in Blocks |-> IF b = RDSK THEN FreshRDB ELSE Blank]
    /\ rdb = FreshRDB /\ parts = <<>> /\ fs = <<>> /\ opened = TRUE
    /\ pending = <<>> /\ reread = "none"
    /\ crashes = 0 /\ inits = 0

Adds ==
    \/ \E n \in Names, lo, hi \in LoCyl..HiCyl : AddPartitionAt(n, lo, hi)
    \/ \E n \in Names, num \in 0..(HiCyl - LoCyl + 1) : AddPartitionSized(n, num)
    \/ \E n \in Names : AddPartitionRest(n)
    \/ \E t \in DosTypes, nseg \in DriverSizes : add_filesystem(t, nseg)

Calls == Adds \/ (\E i \in DOMAIN parts : delete_partition(i)) \/ create

Next == Calls \/ DeviceWrite \/ Crash \/ open

Spec == Init /\ [][Next]_vars

-----------------------------------------------------------------------------
(* Properties                                                                 *)

\* Every block on the disk and in memory has the form its magic announces, and
\* the cylinders of every partition are a range, or none, of the partitionable
\* area.
TypeOK ==
    /\ DOMAIN disk = Blocks
    /\ \A b \in Blocks : disk[b] \in Content
    /\ rdb \in Content /\ rdb.magic = "RDSK"
    /\ \A h \in ToSet(parts) \cup ToSet(fs) \cup ToSet(pending) :
          h.blk \in Blocks /\ h.data \in Content
    /\ opened \in BOOLEAN
    /\ reread \in {"none", "parts", "fs", "all", "commit"}
    /\ crashes \in 0..MaxUpsets /\ inits \in 0..MaxUpsets

\* The table a reader of the disk finds.
PartsOn(d) ==
    LET c == PartChain(d)
    IN [i \in DOMAIN c |->
          [name |-> d[c[i]].name, lo |-> d[c[i]].lo, hi |-> d[c[i]].hi]]
DriversOn(d) ==
    LET c == FsChain(d)
    IN [i \in DOMAIN c |->
          [dos_type |-> d[c[i]].dos_type, segs |-> Len(SegChain(d, d[c[i]]))]]

\* At every instant, and so after a crash anywhere in a call, the chains can be
\* walked to their ends: the disk opens, if it has a table at all.
AlwaysReadable == HasTable(disk) => Readable(disk)

\* A driver on the disk is whole: its chunks are its own, in order, to the end
\* of the chain, whatever was allocated and released around it.
DriversWhole ==
    \A b \in ToSet(FsChain(disk)) :
       LET segs == SegChain(disk, disk[b])
       IN /\ Ends(disk, disk[b].seg_list, "LSEG")
          /\ \A i \in DOMAIN segs :
                disk[segs[i]].of = disk[b].dos_type /\ disk[segs[i]].chunk = i

\* Between calls, what the object holds is what a fresh open of the disk would
\* read, although each call rereads one of its lists only.
MemoryIsTheTable ==
    Idle /\ opened =>
        /\ rdb = disk[RDSK]
        /\ parts = InMemory(disk, PartChain(disk))
        /\ fs = InMemory(disk, FsChain(disk))

\* high_rdsk_block bounds the blocks in use, so that a boot ROM which reads up
\* to it reads the whole table (a crash between link and RDSK excepted).
HighCovers ==
    Idle /\ HasTable(disk) /\ crashes = 0 =>
        \A b \in ToSet(PartChain(disk)) \cup ToSet(FsChain(disk))
              \cup UNION {ToSet(SegChain(disk, disk[f])) : f \in ToSet(FsChain(disk))} :
           b <= disk[RDSK].high_rdsk_block

\* What rdisk.py reads back at every instant: chains that end, drivers that are
\* whole, and a high_rdsk_block that covers them.
TableSound == TypeOK /\ AlwaysReadable /\ DriversWhole /\ HighCovers

\* A scan for lost partitions meets the PART blocks of the table and no other:
\* nothing deleted can be resurrected, unless a crash or a new table over the
\* old one came between.
ScanFindsOnlyTheTable ==
    Idle /\ crashes = 0 /\ inits = 0 =>
        {b \in Blocks : disk[b].magic = "PART"} = ToSet(PartChain(disk))
=============================================================================
