# TLA+ models of amidisk

This directory holds TLA+ specifications of amidisk's storage core, the TLC
configurations that check them on small instances, and TLAPS proofs about them.
The models follow the Python engine (`amidisk_python/src/amidisk`), which the
repository's README calls the reference implementation. Paths below are relative
to that package; `PROJECT.json` maps every definition to the lines it models.

## 1. The system

amidisk is a single-process program. A command opens an image file, finds the
volumes in it, mounts one or two of them and runs calls on them, one after the
other. What can go wrong is therefore seldom an interleaving of threads: it is
the order in which blocks reach the image when the process dies half-way, the
state that a call which raises leaves behind, and in-memory copies (bitmaps,
counters, dirty directories, name caches) that must follow the medium over a
long sequence of calls.

| Component | State | Operations | What is hard | What makes it correct |
|---|---|---|---|---|
| FFS bitmap (`fs/ffs.py`, `Bitmap`) | pages, cached count, dirty pages, cursor | alloc, alloc_runs, free, flush, load | shortcuts over words and pages, wrap-around, failed writes | the next free blocks, never short, count exact, clean pages on disk |
| FFS volume (`fs/ffs.py`, `FFSVolume`) | blocks of the volume, dirty directories, bulk mode, path caches | mkdir, makedirs, write_file, delete, rename, bulk, repair, check, format | order of writes, crashes, deferred writes, stale chain pointers, full volumes | calls change the tree as asked; no block lost or owned twice; a crash leaves a tree that repair accepts |
| PFS3 volume (`fs/pfs3.py`) | anodes, reserved and main bitmaps, counters, directory blocks, caches | mkdir, makedirs, write_file, delete, rename, bulk, format | a transaction of which the directory blocks are written at once; failed operations | counters equal bitmaps, no leak, no entry lost |
| SFS volume (`fs/sfs.py`) | bitmap and free counter, extent B-tree, node tree, object containers, hash chains, caches of names and tails | the same | B-tree splits and collapses, containers that shift and vanish, reused node numbers, no journal | tree holds exactly the files' extents; nodes, containers and hash chain agree; no leak |
| Block devices (`blkdev.py`) | file, overlay dictionaries, pending write segments | read, write, flush, commit, verify | pending writes that overlap, flush order, crash in a commit | a read returns the last write |
| RDB (`rdb/rdisk.py`, `rdb/blocks.py`) | chains of partition, driver and code blocks | init, add/delete partition, add driver | several writes per change, block allocation | partitions disjoint, no block in two chains, a crash keeps the old table |
| RDB rescue (`rdb/rescue.py`) | candidates found by a scan | scan, rebuild | evidence that contradicts itself, a kill in the rebuild | what a rescue adds is disjoint and has the partitions whose PART blocks survived |
| Images (`image.py`) | kind, volumes | detect, mount | precedence of signatures | |
| Commands (`cli.py`) | an overlay over the image | part-del, rdb-rebuild, repair: simulate, inspect, commit | a commit is not atomic, and its order is not that of the calls | what was simulated is what is written, and a kill in the commit of a deletion leaves the PART blocks of the others |
| Sync (`sync.py`) | two listings, three work lists | plan, delete, create, copy | failure between steps, kinds that conflict, times of different grain | a run that returns 0 has brought everything over; nothing else is lost; the second run has nothing to do |
| Archives (`archives/`, `tarreader.py`) | one pass over an archive | stream_to_volume | parsing of tool output | |
| C++ port (`amidisk_cpp/`) | as above | as above | as above | parity with Python |

Interactions: `cli` and `sync` call `image`, which mounts an engine on a
`PartBlockDevice` over a block device; an engine calls its allocator and the
block device; rescue and repair put an `OverlayBlockDevice` between engine and
image and copy it over when the outcome was checked. There are no callbacks and
no shared state between processes.

## 2. Modules

| Module | Models |
|---|---|
| `BlockAllocator` | what a caller of an allocator is promised: the next free blocks from a cursor, all or none |
| `FFSBitmap` | `Bitmap`: the two scans block by block and word by word, refining `BlockAllocator` |
| `FFSBitmapProofs` | theorems about `FFSBitmap` for every geometry: types, counts, no request comes back short, the refinement of `BlockAllocator`, next fit, clean pages |
| `MCFFSBitmap` | model constants and the bounded specification of the bitmap |
| `FileTree` | what a caller of a volume engine is promised: a tree of directories and files |
| `FFSVolume` | `FFSVolume`: the mutating calls block write by block write, bulk mode, crashes, repair and the command `repair --write`; refining `FileTree` |
| `FFSVolumeProofs` | durability, the bulk mark and repair, for every size, names, flavors and kills |
| `MCFFSVolume` | the ways a volume is run: sessions, crashes, bulk sessions |
| `BlockDevice` | what an engine expects of the device below it |
| `BulkWriteCache` | the write-back cache of `blkdev.py`, refining `BlockDevice` |
| `BulkWriteCacheProofs` | the refinement of `BlockDevice` for every device and threshold |
| `MCBulkWriteCache` | its model-checking view |
| `FileExtents` | what the extent records of SFS are for: files as disjoint sequences of runs |
| `SFSExtentTree` | the extent B-tree of `fs/sfs.py` with the callers that add and remove a file's runs, refining `FileExtents` |
| `SFSExtentTreeProofs` | soundness of the tree and the refinement of `FileExtents`, for all keys, node sizes and levels |
| `MCSFSExtentTree` | the tree with the constants of its run |
| `SFSVolume` | `SFSVolume`: containers, node tree, hash chain, admin spaces, bitmap and caches, block write by block write; refining `FileTree` |
| `MCSFSVolume` | the calls and paths of its run |
| `PFS3Volume` | `PFS3Volume`: transactions, anodes, reserved and main bitmap, directory blocks and caches, block write by block write; refining `FileTree` |
| `MCPFS3Volume` | the ways it is run |
| `PartitionTable` | what a caller of `RDisk` is promised: disjoint partitions and whole drivers, each call at one instant |
| `RDisk` | the chains of PART, FSHD and LSEG blocks of `rdb/rdisk.py` write by write |
| `RDiskProofs` | every call on the table takes effect at one write, for every area, names, drivers and crashes |
| `RescueScanProofs` | what the scan keeps and what the rebuild adds, for every disk and all evidence |
| `RDBRescueProofs` | the properties of the rescue and of commits that are killed, for every area and every loss |
| `RDBRescue` | the commands `part-del` and `rdb-rebuild`: the scan and the rebuild of `rdb/rescue.py` over `RDisk`, simulated on an overlay and committed; refining `PartitionTable` |
| `MCRDisk` | table and rescue with interchangeable drives and drivers |
| `Sync` | one command `sync`: listings, plan, execution item by item, failures |
| `SyncProofs` | all properties of `Sync` for all trees and options |
| `MCSync` | the trees it starts from |

### FFSBitmap

`free` is the set of free bits of all pages in memory, `disk` the set on the
medium, `dirty` the dirty pages, `cached` the memoised popcount (`_free_count`,
with a value for "not counted"), `cursor` the rover. `alloc` and `alloc_runs`
are one scan with a program counter `pc`: `Call` tests the count and picks the
start, `GrabPage`, `GrabWord`, `SkipWord`, `TakeBlock`, `PassBlock` are the
branches of the loop, `Return` the exit. `Flush`, `WriteRun`, `WriteError` and
`FlushDone` write the dirty pages in coalesced runs and may fail half-way;
`Remount` reads the map again. `PagesBits` and `Word` shrink the 4064-bit page
and the 32-bit word; the run lengths at which `alloc_runs` aligns its start and
the length of a request are constants too.

### FFSVolume

A handler is a function from a mounted volume (a record) to a mounted volume
whose field `out` lists the block writes in the order of the code. The action
of a call (`CallMkdir`, `CallWrite`, ...) is the whole handler; `DeviceWrite`
then puts one block after the other on the medium and `Crash` may come between
any two, so every prefix of a call's writes is a state the medium can be left
in. Because the program is sequential, the next call starts only when the
writes of the last one are out.

* `v.disk` is what a read of the device returns, `v.dirs` the dirty directories
  of a bulk session (`_dirty_dirs`), `v.free` the bitmap in memory and `v.bits`
  the one on the medium.
* `Read`, `Write` and `Rewrite` keep the difference between a fresh buffer and
  one that `read_buf` returned: the latter *is* the dirty directory, so a change
  to it changes the dirty copy too.
* `Unlink` uses the chain pointer of the Entry its caller parsed, however long
  ago, as the code does.
* a file has one data block (FFS allocates it apart from the header, OFS in one
  request), a directory at most one dircache block, the bitmap is one page that
  takes no block of the volume. Names are numbers whose residue is their hash
  bucket. Dates are left out, and so are the writes that change only a date.
* `v.names` is the cache of names that every lookup in a directory consults first,
  `v.paths` the one from paths to blocks, `v.made` the last path given to makedirs.
  `Scanned`, `ResolvedDir` and `Makedirs` fill them, `Link` adds to them, `Unlink`,
  `Delete` and `Rename` clear them. The one-element cache in front of `v.paths` is
  filled and cleared with it and left out. `CachesCoherent`, a part of
  `SessionSound`, says that they agree with a walk of the directories.
* `Delete` is a stack of frames, one for each directory on the way down, as the
  recursion of the code is; a frame keeps the entries that were parsed when its
  directory was listed. Walks (`Chain`, `CacheChain`, `Nodes`) are recursive
  functions of the number of steps, so that theorems can be stated about them.
* `mishap` is "failed" when a call of the process stopped half-way (no space, a
  chain that does not end), so that memory is ahead of the medium in ways that
  the code does not roll back, and "killed" once the process was; a mount starts
  from the medium again.
* `CallRepair` is the library call `repair`, whose writes go out in the order of
  the code. `CallRepairCommand` is the command `repair --write`: it repairs on an
  overlay, asks `check` (`Sound`), and commits in ascending order of blocks, if a
  bit was wrong.

### BulkWriteCache

`small` and `big` are `_small` and `_big`; `base` is the device below. A call
that has to flush (`Write` at the threshold, a long read, `read_into`, `flush`)
sets `out` to the kept items; `WriteItem` writes the first of them in the order of
the code's sort (by start, small ones before large ones: `Earlier`), `EndFlush`
clears the cache and completes the call, and `Crash` may come at any point. The
code merges neighbouring items into one write; item by item is the finer order.
The abstract device is seen through `Lookup`, the search that `read` makes for
each block.

The class says that allocators hand out distinct blocks. They do until a delete
frees a block whose large write is still kept; `Distinct` is that assumption (see
what was met while modelling, below).

### SFSExtentTree

`nodes` maps the blocks of the tree to their entries. Handlers are functions of a
record, as in `FFSVolume`: `Insert` is `_insert_bnode`, with a `Round` of its loop for
each node of the path and the root that `Grown` makes when it was split,
`Collapse` the loop of `_remove_extent` with its count, `Patch` the neighbour
links. Loops are recursive functions over the number of their rounds; a search
makes as many as there are blocks and stays at the leaf that it has reached. A search that reaches an index without entries raises. `used` is the
bitmap at the grain of runs, `heads` the first run each file records, `contents`
what a reader of the chains finds after each call. Calls are atomic: SFS is
written without transactions and nothing is promised for a crash inside a call,
only between calls (the docstring of `bulk()`, sfs.py:1346: structures are written
at once, the free counter may be stale), and this module has no counter.
Files without data have no extents and are left out; a replaced file is a delete
followed by a write.

### RDisk

`disk` is the content of each block of the RDB area: a record whose `magic` is
that of the block, with the links and the fields a property can tell apart
(names, cylinders, the place of a chunk in its driver). `rdb`, `parts` and `fs`
are the fields of the object. A call (`add_partition`, `add_filesystem`,
`delete_partition`) computes its writes into `pending` in the order of the code;
`DeviceWrite` makes one, and the last one rereads the list that the call rereads
(`Reread`). The three ways to choose cylinders are actions of their own
(`AddPartitionAt`, `AddPartitionSized`, `AddPartitionRest`); the loops over the
sorted ranges are stated as the first, or the first largest, gap that no
partition meets, where a partition of no cylinders (a size of 0 makes one) is a
barrier at its place. An error of the device ends the program, so it is a
`Crash`: memory goes, and the next program opens what is on the disk.
`RDBRescue` runs these actions on the image or on an overlay, and states the
refinement of `PartitionTable` for both. Left
out: the chains of bad blocks and init code, which amidisk never writes, the
geometry, and the terminator 0, which it reads but never writes.

### RDBRescue

`part-del` and `rdb-rebuild` run on an overlay over the image, look at the
outcome, and commit the blocks that differ. While they simulate, `disk` is what a
read of the overlay returns and `base` the image below it (`Image` is what a
reader of the image sees); the calls of `RDisk` are the same as on the image, and
so are their writes, which only the overlay takes. `Commit`
turns the blocks that changed into writes in ascending order, as
`dirty_blocks` sorts them, and `CommitWrite` makes one; `Abandon` is every end of
a simulation that writes nothing. `KilledInCommit` may come before any write, in
a rescue any number of times, and sets `torn`: then nothing is promised until a
rescue or `rdb-init` went through (`Library` waits for it). `part-add`, `fs-add`
and `rdb-init` work on the image itself, where the actions of `RDisk` crash at
any write.

`Overwrite` is the loss: another program writes over the first blocks of the
area. `lost` holds the partitions that PART blocks still describe, after an
overwrite as well as during a `part-del`. `scan` gives the candidates: the
orphaned PART blocks, then the roots of file systems (`Anchors`), each unless it
begins in a candidate there already is (`Merge`), all sorted (`InOrder`: by where
they begin, PART blocks of one place by their number, as the stable sort leaves
them) and pruned (`Prune`). `rdb_rebuild` writes a fresh RDSK block on the overlay. When
PART blocks are all the evidence it comes to link them, which raises: they are
objects bound to the image that was opened to be read, and the command ends
there (`Relink`, which drops the overlay as `Abandon` does). Otherwise it adds a
partition for each candidate through `AddPartitionAt` of `RDisk` (`AddNext`);
when one is refused, nothing is left to do but `Abandon`.

The abstract table is read off the image, so `ImageImplementsTable` says of every
write of a direct call that it changes nothing or is the whole call, of a
simulation that nobody sees it, and of a commit that it is one call for whoever
waits for its end; `PartitionTable` has a call `Recover` for the rescue.
Abstractions: positions are cylinders and the geometry is that of the lost table
(the code estimates it from the candidates; `_pick_geometry`, rescue.py:232,
prefers more heads, so that what it adds may end at a coarser cylinder); what an anchor looks like on the
disk is left out, and so is the file that a large overlay spills into; drivers
are not recovered, as in the code.

### SFSVolume

A handler is again a function from a volume to a volume with a list `out` of
block writes. `disk` has the free set (the bitmap), the counter of the root
container, the admin spaces, the containers (`cont`), the nodes, the index above
them with its full bits (`tree`), the head of the hash chain, the extents and the
data. `names` and `tail` are `_dir_index` and `_dir_tail`, which are keyed by
node number; `cursor` is `_alloc_cursor`; `bulk` and `ops` are `_bulk_depth` and
`_bulk_ops`.

* An entry carries the container and the position at which it was parsed, as the
  code's `objc_block` and `objc_offset`; `Rename` therefore resolves the new
  parent again after it removed the object (`NewParent`).
* `InsertObject` tries the remembered container, the first with room, a new one;
  `RemoveObject` compacts, and takes an empty container out of the chain.
* `GrowTree` is the part of `_alloc_objectnode` that allocates, before anything
  else is taken; `NextNode` the number it finds, which stays free until
  `Register`.
* `mishap` is set when a call fails in a way that the code does not roll back
  (no admin block, a refused name): blocks may be lost from then on.
* Abstractions: the extent tree is a map that takes no admin blocks
  (`SFSExtentTree` is about the tree); all names share one hash chain; there is
  one administration container; an index has one level; an object takes one unit
  of a container or, if its name is long, two; `.recycled`, links, dates and
  comments are left out.

### PFS3Volume

Directory blocks, new anode blocks and the anode index are written at once;
`FlushMeta` writes the dirty bitmap and anode blocks and then the root block, at
the end of a call or every `BulkEvery` calls of a bulk session. `Begin` is
`_begin`, which drops the anodes and the bitmap that a failed call left in memory
but not the reserved bitmap and the counters. `names`, `tail` and `split` are the
caches of names, tails and of the last parent. `kept` is what no call has named
since the medium was last complete, and `made` the path last given to makedirs. Abstractions: one bitmap block and one index
block, entries of one size, two system anodes instead of six; dates, comments,
links and the deldir are left out.

### Sync

`src` and `dst` are the two sides as functions from paths to files and
directories; a volume is seen through the calls that `FileTree` describes. `Start`
lists both and makes the plan (`Plan`), of which the items are taken in the order
of the code's lists: extraneous items first, each before the directory it lies in
(`DeletedBefore`), then what clashes with its kind, then directories, then files.
`DeleteItem`, `MakeDir`, `CopyItem` and `Finish` are the loops of `run_sync`, and
`DeleteStops`, `CopyStops` and `Killed` the ways in which an item fails: a
recursive delete half-way, a copy that tears, an image that has no room after the
old file is gone. Times are in half ticks, so that a volume, which keeps ticks,
rounds the host's times. A kill of a `--bulk` run may lose on a volume what the
run had copied and not linked yet (`Killed`); it loses nothing that was there
before, for which the volume must be repaired before the next run lists it, as
in `RepairFirst`.

## 3. Runs

| Run | Question | Bounds |
|---|---|---|
| `bitmap` | counts, dirty pages and the abstract allocator under every interleaving of requests, frees, flushes, failures and remounts | 5 blocks, 2 pages |
| `bitmap_scan` | do the page, word and skip shortcuts ever change which blocks a request gets, or keep it from returning? | 9 blocks, 3 pages, every map and cursor that calls can produce |
| `volume` | do four calls in any order, in bulk mode or not, keep the volume sound and do what they promise? | 7 blocks, 3 names in one bucket, one of them in the root only, depth 2, batches of 2; DOS\1, DOS\4 and DOS\7 |
| `volume_crash` | a kill before any block write, in bulk mode or not; repair afterwards, by the library call or by `repair --write`, which are killed in turn | 6 blocks, 2 names, 5 calls and any number of crashes |
| `bulk_cache` | is the cache a block device, crashes included, while large writes are distinct? | 4 blocks, 2 values, threshold of 5 blocks |
| `sfs_extents` | does the tree keep every file's runs through splits and collapses, without losing a node? | 6 runs, files of 1 or 2, leaves of 2 and indexes of 3 entries |
| `sfs_volume` | do four calls in any order, in bulk mode or not, keep containers, nodes and caches in step and do what they promise, and does a kill before any write harm what the call does not name? | 9 blocks of which 3 are admin space at first, 4 names, depth 2, containers of 2 units, leaves of 3 nodes, batches of 2 |
| `pfs3` | the same for PFS3, with its deferred metadata | 6 reserved and 3 data blocks, 3 names, depth 2, blocks of 2 entries and 4 anodes, batches of 2, 4 calls |
| `rdb_table` | does every call on the table take effect at one write, whatever was added and deleted before and wherever it crashes; does nothing of a simulation show, and is what was simulated what is there after the commit; does a rescue that adds bring back what an overwrite or a killed deletion spared? | 4 blocks, 3 partitions, 2 cylinders after those of the table, 2 drivers of at most one LSEG block, one crash, re-initialisation, overwrite or killed `part-del`, at most 2 roots of file systems, any number of kills in the rescue |
| `sync` | does a run that returns 0 bring everything over, and one that fails lose nothing else? | 2 names, depth 2, 2 versions of one size, 2 runs, every set of options |

What the properties say:

| Property | Of | Says |
|---|---|---|
| `Sound`, `SessionSound`, `TreeSound`, `SoundUnlessTorn`, `PlanFits` | each module | types, and the structure that the next call relies on: chains acyclic, nothing owned twice, back pointers and full bits right, items of a plan still there |
| `SpaceExact` | FFS, SFS, PFS3 | what the tree does not use is free and the counters are exact |
| `CachesCoherent` | SFS, PFS3, FFS (in `SessionSound`) | the caches of names, paths, tails and parents agree with the directories on the medium |
| `DurableOnReturn` | FFS, PFS3 | when a call outside bulk mode returns, the medium alone has its result |
| `Unharmed` | SFS, PFS3 | a kill before any write leaves what the call does not name as it was |
| `DataBeforeMetadata`, `AtomicCreateAndRemove`, `MarkedInBulk`, `RepairRestores` | FFS | no metadata for data that is not out; a create or a remove is there or not; `bm_flag` is cleared before anything else of a bulk session is on the medium and set when all the rest is; a repair keeps the tree and brings the bitmap back |
| `MemoryIsTheTable`, `ScanFindsOnlyTheTable`, `RescueRestores` | RDB | the object's fields follow the disk; a scan sees no block that is not linked; a rescue that adds brings back what survived, a deletion keeps the others |
| `BroughtOver`, `KeepsTheRest`, `SecondRunIdle`, `NothingUndone` | sync | a run that returns 0 has done everything; one that fails has lost nothing else; the next finds nothing to do |
| `Implements...` | all | every step of the detailed module is a step of the abstract one or changes nothing of it |

Why the bounds are enough: one bucket puts every entry of a directory on one
chain, so with three names an entry can be the first, a middle and the last of
its chain; depth 2 has a directory within the root with entries of its own,
which recursive deletes and renames across directories need; six blocks are
fewer than four calls can use, so the volume fills up, blocks are reused and
the cursor wraps. A batch of 2 has both a flush in the middle of a session and
calls after it. Replacement needs one data version: a lost or torn file shows as
version 0.

For the cache, two large items and a small block fit below the threshold, so that
every order of small, large and rewritten blocks occurs. For the tree, five runs
in ascending order make three levels, six leave room to split an index and to
delete in every order; the admin blocks suffice for every tree of six runs.

For the table, three partitions give a first, a middle and a last in a chain,
and after deletions a chain whose blocks do not ascend; four blocks run out, so
that a driver's blocks lie between those of partitions; a third partition of no
cylinders fits where two have taken all. A driver has one LSEG block or
none; runs with two chunks, and with five blocks, were made by hand and pass. One crash suffices:
what it leaves (an unlinked block, an unset `high_rdsk_block`) is then met by
every later sequence of calls, and by the rescue. The table is rescued when it
does not open or a commit was killed (`Rescuable`); rebuilding a table that is
whole is left out. A root of a file system is one with an estimated size, one that
knows its size, a smaller one, or one that knows of more than the disk has
(`Roots`).

For `sfs_volume`, containers of two units hold two objects or one with a long
name, so that positions shift within a container, and a directory has up to three
containers with a middle one to unlink; the third node beside the root makes
the index grow, the fourth admin block a new admin space of three of the nine
blocks, after which files no longer fit; files of one and two blocks are written
in pieces after deletes. What has a long name has nothing in it, and one name is
that of a directory in the root only (`FewPaths`, `FewUses`). Empty files were checked with three calls.
For `pfs3`, six reserved blocks are fewer than three directories of two blocks
need next to the anode blocks, and three data blocks fewer than two files.
For `sync`, the trees are those of up to five paths (`Shapes`), which have every
conflict of kinds at the base, below it and in a directory; two versions of one
size and times half a tick apart are what the comparisons can tell apart.

Two runs end in a violation. They record disagreements between the code and
what its documents say, under "findings" in `PROJECT.json`:

| Run | What TLC shows |
|---|---|
| `bulk_delete_directory` | a directory deleted in a bulk session stays in `_dirty_dirs` and is flushed over the file that got its block |
| `pfs3_failed_replace` | a write that replaces a file fails for want of space after it freed a directory block in the reserved bitmap and unchained it in anodes that the next call drops: the block gets a second owner |

More was met while modelling and has no run of its own; TLC showed each as a
counterexample before the passing run was restricted in the place named:

* A recursive delete on a dircache volume follows a hash chain pointer that it
  parsed before the children went, ffs.py:1557, and raises half-way (`volume`
  asks for deletes of directories with children without a dircache).
* Two large pending writes of the bulk cache overlap when a delete frees a block
  and it is written again in a run that starts elsewhere: reads miss the newer
  segment or the older one's rest, and the flush can leave the older data,
  blkdev.py:497 and 563 (`Distinct`).
* Overlays are committed in ascending order of blocks, blkdev.py:385, and the
  RDSK block comes first: a kill in the commit of `rdb-rebuild` leaves it pointing
  to blocks that are not written yet, one in that of `part-del` a scrubbed block
  that is still linked, and no volume of the image opens any more.
  doc/amiga-disk-tool-architecture.md:347 has the base device remain valid in this
  case. A rescue then brings back what PART blocks describe, if it finds the root
  of a file system beside them (`torn`).
* `rdb-rebuild` fails when all it finds are PART blocks. It opens the image to be
  read, cli.py:1142, the scan binds each `PartitionBlock` to it, rescue.py:106, and
  `rebuild` writes these objects, rescue.py:280 by way of blocks.py:97, after it
  has put the RDSK block on the overlay: "device is read-only", blkdev.py:144. So
  nothing is simulated and nothing committed, though rescue.py:17 has the rebuild
  "reusing intact PART blocks when found" and README.md:236 has `--write` commit.
  The command, run on an image of two formatted partitions whose RDSK block was
  overwritten, lists both and ends with that error; tests/smoke.py:226 wipes the PART
  blocks too and so tests only the other branch. In the model this is `Relink`, and
  `RescueRestores` promises nothing of such a rescue.
* The order of a commit puts the root of an FFS volume before its bitmap: a kill in the
  commit of `repair --write` can leave the volume marked valid with a stale
  bitmap, which the library call never does. And the command writes nothing when
  only `bm_flag` is wrong, cli.py:1216, although README.md:46 says that it
  reconstructs it (`RepairRestores` asks for the mark after the library call only).
* After a delete empties the first leaf of an index of SFS extents, sfs.py:777, a
  later split puts its separator before an older child, and files become
  unreadable (`Spares`).
* A rename on PFS3 or SFS takes the entry out before the new name is validated
  and before the new directory has room: the object is lost when that fails
  (`RenamesWhole`). A mkdir or write with a refused name keeps the anodes, nodes
  and blocks it took (`mishap`).
* An exact root of a file system that begins before the partition of an orphaned
  PART block and covers where that begins drops it from the rescue, though a
  comment of rescue.py:197 ranks PART blocks first (`lost` excepts it). A root's
  name `DHi` may be that of a PART block, and then the rescue fails half-way.

* In a bulk session unlinks reach the medium at once and links later, so a crash
  loses an entry that was renamed or replaced (`volume_crash` asks that repair
  restores what is in the tree, not that the session rolls back).
  doc/filesystem-performance.md:294 has such a crash roll back cleanly.
* `open()` ignores `bm_flag`, and the end of the next bulk session sets it: after
  a crash the mark is wiped while the bitmap is stale (`RepairFirst`).
* Outside bulk mode the entry is linked before the bitmap is flushed, and the
  flag stays valid in between (`RepairFirst`).
* A mkdir on a dircache volume, or a rename that moves a comment to a block of
  its own, runs out of space after it linked or unlinked the entry (`Roomy`).
* makedirs of FFS and PFS3 notes its path before it has made it, ffs.py:1263 and
  pfs3.py:1110: called again after it failed, it returns and has made nothing
  (`RetriesNothing`).
* The loop that takes empty SFS nodes out tests a count that is one too small
  above the leaves: an index with one child left is taken out with that child's
  whole subtree (`Spares`).
* When the last leaf under the SFS root is emptied, the root stays an index
  without entries, and every later write of data raises (`Spares`).

## 4. Fairness

Only `bitmap_scan` assumes any: weak fairness of the step of the allocation
loop, which runs in the caller's thread and is never waiting for anything; a
kill (`Remount`) may still end it. Under it `ScanReturns` says that every request
the popcount test lets through comes back. The other components have no liveness
of their own: a call is one run through a handler whose loops follow chains that
the handlers keep acyclic, and no component waits for another.

## 5. Proofs

`FFSBitmapProofs` proves for every number of blocks, page size, word size,
alignment and request bound that satisfies `GeometryAssumption`:

* `TypeCorrect` - `Spec => []TypeOK`;
* `CountAlwaysExact` - `Spec => []CountExact`: the memoised count is the
  popcount, in the middle of a scan too;
* `ScanNeverShort` - `Spec => []NeverShort`: once the popcount test has passed,
  neither scan can come back with fewer blocks than asked.

They rest on one inductive invariant `IInv` (theorem `Invariant`), which adds to
the three what makes them inductive: while a scan runs, the blocks taken so far
and those still free add up to the count that the request was tested against,
every free block not yet visited lies ahead of the scan, and what was visited
before the wrap lies behind the start. `NeverShort` follows because a scan that
is back at its start has nothing ahead of it, so that everything free was taken.
Cardinality facts come from the library's `FiniteSetTheorems`.

From there it goes on, under the same assumption:

* `CleanAlwaysOnDisk` - `Spec => []CleanPagesOnDisk`;
* `AlwaysNextFit` - `Spec => []TakesNextFit`: the blocks of a request are the next
  free ones from where it started, whatever was jumped over;
* `BitmapImplementsAllocator` - `Spec => ImplementsAllocator`, the refinement of
  `BlockAllocator`.

The argument is about one iteration of either loop: it takes n free blocks of one
page or passes n blocks that are in use (`Taken`, `PassedBy`), and always begins
at the position of the walk. What lies behind the walk is therefore in use or
taken (`WalkInv`, `FitInv`). For the refinement a request takes effect when it
returns; until then the blocks it has taken count as free in the abstract state,
so that every step before is a stutter. `CleanInv` says of the pages that no
flush has still to write that memory and medium agree.

`BulkWriteCacheProofs` proves for every device, block limit and threshold, and
for the behaviours in which large writes are distinct (`DistinctSpec`):

* `CacheTypeCorrect` - `DistinctSpec => []TypeOK`;
* `CacheImplementsDevice` - `DistinctSpec => ImplementsDevice`, the refinement of
  `BlockDevice`, crashes included.

Its invariant `CInv` says that the large items are sorted and apart from each
other and from the small ones (`ApartInv`). Then the one large item that a read
looks at is the only one that can hold the block (`Found`), a write of an item
puts on the device below what a read finds anyway, and the image does not change
while a flush goes on; `FlushInv` says that what is no longer to be written is on
the device, so that it has everything at the end. `DistinctSpec` is where
the proof needs its assumption: without it TLC shows the refinement to fail.

`SyncProofs` proves for every two trees, every set of options and any number of
runs that stop anywhere, from `SyncAssumption`, all that the run `sync` checks:
`PlanAlwaysFits`, `AlwaysKeepsTheRest`, `AlwaysBroughtOver`,
`AlwaysSecondRunIdle` and `AlwaysNothingUndone`. Its invariant `SInv` follows a run
through its three loops. A planned deletion either clashes with an item of the
source of the other kind, or has nothing of the source below it; every item of the
source is still to come or in place (`DirsInv`, `FilesInv`), and what is to go
is still to be deleted or gone (`SurplusInv`). That a deletion finds its item
needs the order of the deletions: what lies below goes first, and of two planned
deletions that are not extraneous neither lies below the other.

`RDiskProofs` proves for every size of the area, range of cylinders, set of names
and drivers and number of crashes that satisfies `AreaAssumption`:

* `TableIsSound` - `Spec => []TableSound`: the disk opens at every instant, drivers
  are whole, `high_rdsk_block` covers what is in use unless a call was cut off;
* `NothingTwiceAlways` - `Spec => []NothingTwice`: partitions are disjoint, and no
  block is at two places of the chains;
* `MemoryIsTheTableAlways`, `ScanFindsOnlyTheTableAlways` - the two invariants of
  `rdb_table` of those names;
* `ImplementsTable` - `Spec => Table!Spec`, the refinement of `PartitionTable`: each
  call takes effect at one of its writes, crashes included.

`Spec` is that of `RDisk`, calls on the image itself with a crash before any write.
`RDBRescueProofs` has what holds when calls also run on an overlay that is
committed, which is what the run `rdb_table` checks.

A walk is a recursive function, which says little about a chain. The proof gives
the chains as sequences of blocks instead (`Chain`), and `ChainWalk` shows that the
walk of a disk with such a chain finds just that sequence. It is by induction over
a set of lengths (`Induction`, which follows from the well-foundedness of < on the
numbers and needs no operator as a parameter). Then three facts about a write
carry the rest: one to a block that no chain has changes nothing that a reader sees
(`Frame`); one that links or unlinks a block gives the chains with one block more
or less (`AppendPart`, `RemovePart`, `AppendDriver`); and each call makes just one of
these. Chains of different kinds have no block in common since each block has one
magic, and those of two drivers none since each chunk names its driver. The
invariant `RInv` says that the disk has such chains and that `pending` is what one
of the eight stages of a call has still to write (`Stage`). That a call can be cut
off between two stages is why it does not mention the calls: a crash clears
`pending` and leaves a disk of which everything else in `RInv` still holds.

`RDBRescueProofs` proves all that `rdb_table` checks of `RescueSpec`, under
`AreaAssumption` and `AnchorAssumption` (roots lie in the area, and end after they
begin), so for every area, all names, drivers and roots, and any number of losses
and kills:

* `SoundUnlessTornAlways` - `RescueSpec => []SoundUnlessTorn`;
* `RescueMemoryIsTheTable`, `RescueScanFindsOnlyTheTable` - the two invariants of
  `RDiskProofs`, with simulations and commits;
* `ImageImplementsTableAlways` - `RescueSpec => ImageImplementsTable`, the
  refinement of `PartitionTable` by what a reader of the image sees;
* `RescueRestoresAlways` - `RescueSpec => RescueRestores`: a rescue that ends has
  brought back each partition whose PART block was there. A rescue from PART blocks
  alone never ends (`Relink`), and the theorem says nothing of it.

The invariant `RescueInv` tells six instants apart: a table with, perhaps, a call on
it (`Settled`, where `RInv` holds), a lost table, the simulations of a deletion and of a
rescue that adds, the empty table of a rescue that is about to fail (`Relinking`),
and a commit (`Writing`). A simulation is
a run of `RDisk` on the overlay, so the lemmas of `RDiskProofs` about stages give its
steps; `DeleteStage` and `AddStage` say besides how far the
command has come from the image below. That is why there are lemmas for single
stages rather than one about `Next`: the rescue needs to know at which write the
row of its candidate appears. A commit knows the table `t` that it leads to:
every block has its content in `t` or is still to be written (`Reaches`), and each
is as it was or as it will be (`Between`). What a killed deletion leaves
follows from `SubParts`: the PART blocks of `t` are PART blocks of the old image
and tell of the same partitions, so a lost partition has its block whichever of
the two a block of the disk comes from. This is false for a rescue that adds,
which writes its PART blocks anew; there nothing is promised after a kill (`lost`).

For the next rescue to find what is there, no block may stand in the way of
another: `Clear` says that the PART blocks on the disk are apart, which holds
because they come from one table, and stays true of fewer of them
(`SubPartsApart`). `RescueScanProofs` has the rest, for every disk and all evidence:
recursive functions over a list are defined and follow their steps (`Recursion`);
`Sorted` orders a finite set by any strict total order (`SortedOrder`); a PART block
whose range overlaps no other and that no exact root covers is among what `scan`
returns (`Scanned`); its ranges are disjoint and ascend; and the ranges that the rebuild
adds are disjoint too (`AddList`).

`FFSVolumeProofs` proves for every number of blocks, set of names, number of hash
buckets, flavor and batch that satisfies `VolumeAssumption`, and any number of kills
before any block write:

* `VolumeKept` - `Spec => []VolumeInvariant`;
* `DurableOnReturnAlways` - `Spec => []DurableOnReturn`;
* `MarkedInBulkAlways` - `Spec => []MarkedInBulk`;
* `RepairRestoresAlways` - `Spec => []RepairRestores`.

None of the three needs the tree to be sound, and the proof does not say that it
is: chains may be cut, cyclic or shared. The heart of `VolumeInvariant` is `Sane`: the
list of pending writes, carried out on the medium, gives what a read of the device
returns (`Arrives`), and what the volume keeps in memory has the right form (`Kept`).
Every operator of `FFSVolume`, from `Write` to `Delete`, is shown to lead from a sane
volume to a sane one that only adds writes (`Leads`), by the steps in which it does
it; a recursive function by induction over its steps (`Steps`, `BuiltUp`), the stack
of a delete frame by frame. The rest of the invariant relates instants:
`BitsWritten` has the bitmap of the medium agree with that of memory once the
writes of a call that changed something are out (unless a call stopped half-way);
`FlagCleared` and `FlagSetLast` put the write of `bm_flag` first in the list that
enters a bulk session and last in the one that leaves it; `RepairUnderWay` has the
tree on the medium be that of the instant before the repair, with each of its
writes a root that differs in `bm_flag` only, or bits. Two disks that differ in
`bm_flag` only have one tree and are sound or not together (`Twins`). A process that
stopped half-way in an earlier call repairs from the bitmap in its memory, which may
agree with the tree while the medium does not; there `RepairRestores` asks for what is
in memory only. TLC checked the invariant on the constants of `volume_crash` before
it was proved.

`SFSExtentTreeProofs` proves for all keys, node sizes of two entries or more, run
counts and admin blocks that satisfy `ExtentTreeAssumption`, and so for any number of
levels, of the calls that `sfs_extents` checks (`SparingSpec`, see section 3):

* `ExtentTreeKept` - `SparingSpec => []ExtentInv`;
* `TreeSoundAlways` - `SparingSpec => []TreeSound`;
* `ExtentsImplementFiles` - `SparingSpec => ImplementsFileExtents`, the refinement of
  `FileExtents`.

`ExtentInv` says that the nodes are a search tree (`Tree`) whose leaves hold just the
extents that link the runs of the files (`LinksOf`), and that the bitmap and the first
runs are those of the same files. The tree is first seen as sets (`Shape`): the entries
of a block, its level above the leaves, and its span, the keys it is responsible for.
The root's span is every number, a child's is the part of its parent's between its
separator and the next (`Part`), and blocks of one level have no key in common
(`Apart`). Three changes of such sets keep the shape: the root moves down
(`GrowShape`), a block is split under its parent (`SplitShape`), and a leaf other
than the first of its parent is taken out, so that the leaf before it gets its span
(`PruneShape`). That the first one has no such sibling is the reason for
the guard `Spares`: without it the theorem is false, and TLC shows how. Then comes what the code
does with sequences of entries (`PlaceSorted`, `Divided`, `RemoveSorted`): a round of an
insertion is one of these changes, or a split of which the parent has still to hear
(`Inserting`), and the first round of a collapse the last of them (`TakenOutIs`). A search
goes down one level at a time, keeps the key in the span (`Leads`) and ends in a leaf,
since there are more blocks than levels (`LevelsFewer`). On files, `AddRunsIs`,
`RemoveRunsIs` and `ChainFromIs` say what the loops over the runs do: a write adds the
links of its file, a delete leaves after n extents the links of the rest (`Removing`),
and a reader finds the file.

Model-checked only:

* `ScanReturns`, the liveness of the scan, which rests on fairness;
* of `FFSVolume`, what needs the tree to be sound: `SessionSound`, `SpaceExact`,
  `DataBeforeMetadata`, `AtomicCreateAndRemove` and the refinement of `FileTree`. They
  hold of the sessions that `MCFFSVolume` admits (see section 3), and their inductive
  invariant is the whole of `Sound` between any two steps of a handler;
* `SFSVolume` and `PFS3Volume`, which have recursive operators (a delete of a directory
  deletes its children). These keep them outside the prover's reach;
* what the extent tree does where `Spares` does not hold: it is not sound there (section 3).

## 6. Plan

1. `SessionSound` of `FFSVolume` for every size, from an invariant that holds between
   any two steps of a handler.
2. makedirs of SFS, which remembers nothing.
3. The composition of `SFSVolume` with `SFSExtentTree`: the tree takes its blocks
   from the admin spaces.
4. Image detection: the precedence of signatures.

## 7. Not modelled

* Image detection and mounting (`image.py`): a decision list over signatures,
  planned.
* The command line (`cli.py`): argument parsing and printing, but for the flows of
  `part-del`, `rdb-rebuild`, `repair` and `sync`.
* Archives and the installer script: one pass over the output of other tools.
* Dates, protection bits and name hashing: pure conversions; the models abstract
  names to values and hashes to residues or to one chain.
* The C++ port, which follows the Python engine.
* Of the engines: OFS data chains and extension blocks, links, the deldir of PFS3,
  `.recycled` of SFS, and the read paths beyond what a reader of the tree sees.
