----------------------------- MODULE FFSVolume -----------------------------
(***************************************************************************)
(* A mounted OFS/FFS volume, class FFSVolume of fs/ffs.py: directories     *)
(* with hash chains, file headers, data blocks, the dircache of DOS\4 and  *)
(* DOS\5, comment blocks of DOS\6 and DOS\7, the allocation bitmap and the *)
(* bulk mode that defers directory and bitmap writes.                      *)
(*                                                                         *)
(* A handler (mkdir, write_file, delete, rename, repair, bulk) runs in one *)
(* process without interleaving.  It is a function from a mounted volume   *)
(* to a mounted volume, whose field `out` collects the block writes it     *)
(* issues, in order; DeviceWrite puts them on the medium one at a time.    *)
(* Between any two of them the process may be killed.                      *)
(*                                                                         *)
(* Abstractions: every file has one data block; a directory's dircache is  *)
(* one block; the bitmap is one page that is not itself a block of the     *)
(* volume (FFSBitmap has pages and the allocation scan); dates are left    *)
(* out, and with them the writes that change only a date.                  *)
(***************************************************************************)
EXTENDS Naturals, Sequences, FiniteSets, SequencesExt

CONSTANTS NBlocks,      \* blocks 1..NBlocks; 0 is the null pointer
          Root,         \* root_blk
          Names,        \* numbers; their order is that of name.lower()
          Versions,     \* what a file may hold
          NBuckets,     \* tsz: the length of the hash table
          MaxDepth,     \* bound: the longest path called with
          Flavors,      \* dos_type & 0xFF: the DOS types volumes may have
          BulkEvery,    \* bulk(flush_every)
          MaxCalls      \* bound: the calls of a behaviour

ASSUME VolumeAssumption ==
  /\ NBlocks \in Nat /\ Root \in 1..NBlocks-1
  /\ Names \subseteq Nat \ {0} /\ Versions \subseteq Nat \ {0}
  /\ NBuckets \in Nat \ {0} /\ BulkEvery \in Nat \ {0} /\ MaxDepth \in Nat \ {0}
  /\ Flavors \subseteq 0..7

Blk == 1..NBlocks
Hash(n) == n % NBuckets
Buckets == 0..NBuckets-1

VARIABLES
  vol,      \* the volume as the process knows it
  media,    \* the medium: its blocks and its bitmap
  call,     \* the last call, and what it raised
  before,   \* the tree before that call
  mishap,   \* "killed" once the process was, "failed" if a call of it stopped half-way
  calls     \* how many calls were made

vars == <<vol, media, call, before, mishap, calls>>

-----------------------------------------------------------------------------
\* Blocks.  ptr is a file's data block or a directory's dircache block, note
\* a comment block, ver the data of a data block, recs dircache records, and
\* valid the root's bm_flag.
Blank == [kind |-> "none", name |-> 0, parent |-> 0, next |-> 0,
          heads |-> [h \in Buckets |-> 0], ptr |-> 0, note |-> 0, ver |-> 0,
          recs |-> {}, valid |-> FALSE]
Header(kind, parent, name) ==
  [Blank EXCEPT !.kind = kind, !.parent = parent, !.name = name]
DataBlock(v) == [Blank EXCEPT !.kind = "data", !.ver = v]
CacheBlock(d, recs) == [Blank EXCEPT !.kind = "cache", !.parent = d, !.recs = recs]

IsDirectory(buf) == buf.kind \in {"root", "dir"}

FFS(v) == v.flavor % 2 = 1
DirCache(v) == v.flavor \in {4, 5}
LongNames(v) == v.flavor \in {6, 7}

\* open(): the bitmap is read as it is, whatever bm_flag says.  `names` is
\* _dir_names_cache, `paths` is _dircache (of which _last_resolved_* holds the
\* last entry a second time), `made` is _last_makedirs_path.
Mounted(m) == [flavor |-> m.flavor, disk |-> m.disk, bits |-> m.bits, free |-> m.bits,
               cursor |-> Root + 1, bulk |-> FALSE, dirs |-> <<>>, ops |-> 0,
               names |-> <<>>, paths |-> <<>>, made |-> <<>>,
               out |-> <<>>, err |-> "none"]

-----------------------------------------------------------------------------
\* Block I/O.  v.dirs is _dirty_dirs: directory blocks of a bulk session that
\* are newer than the medium, in the order they became dirty.
DirtyAt(v, b) == {i \in DOMAIN v.dirs : v.dirs[i].blk = b}
ReadDevice(v, b) == v.disk[b]                           \* mutant of Read
Read(v, b) == IF DirtyAt(v, b) = {} THEN v.disk[b]
              ELSE v.dirs[CHOOSE i \in DirtyAt(v, b) : TRUE].buf
View(v) == IF v.dirs = <<>> THEN v.disk ELSE [b \in Blk |-> Read(v, b)]

MakeDirty(v, b, buf) ==
  IF DirtyAt(v, b) = {} THEN [v EXCEPT !.dirs = Append(@, [blk |-> b, buf |-> buf])]
  ELSE [v EXCEPT !.dirs[CHOOSE i \in DirtyAt(v, b) : TRUE].buf = buf]

\* A fresh buffer is written past the dirty ones; a buffer that read_buf
\* returned is the dirty one itself.
Write(v, b, buf) == [v EXCEPT !.disk[b] = buf,
                              !.out = Append(@, [blk |-> b, buf |-> buf])]
Rewrite(v, b, buf) ==
  Write(IF DirtyAt(v, b) = {} THEN v ELSE MakeDirty(v, b, buf), b, buf)

WriteBits(v) ==
  IF v.free = v.bits THEN v
  ELSE [v EXCEPT !.bits = v.free,
                 !.out = Append(@, [blk |-> 0, buf |-> v.free])]

FlushDirs(v) ==
  [v EXCEPT !.disk = View(v), !.out = @ \o v.dirs, !.dirs = <<>>]

Raise(v, why) == [v EXCEPT !.err = why]
\* The rest of a handler runs unless an exception is on its way.
Then(v, w) == IF v.err = "none" THEN w ELSE v

CommitCounts(v) == [v EXCEPT !.ops = (@ + 1) % BulkEvery] \* mutant of Commit

\* _commit_meta
Commit(v) ==
  IF ~v.bulk THEN WriteBits(v)
  ELSE LET w == [v EXCEPT !.ops = (@ + 1) % BulkEvery]
       IN  IF w.ops = 0 THEN WriteBits(FlushDirs(w)) ELSE w

-----------------------------------------------------------------------------
\* Allocation: a walk from the cursor, which wraps, takes the free blocks as it
\* meets them.  NextFree is the first that is not among those in `got`.
Away(c, b) == IF c > NBlocks THEN b ELSE IF b < c THEN b + NBlocks - c ELSE b - c
NextFree(v, got) ==
  CHOOSE b \in v.free \ got : \A c \in v.free \ got : Away(v.cursor, b) <= Away(v.cursor, c)
Fits(v, n) == n <= Cardinality(v.free)
Taken(v, b) == [v EXCEPT !.free = @ \ {b}, !.cursor = b + 1]
Freed(v, S) == [v EXCEPT !.free = @ \cup S]

-----------------------------------------------------------------------------
\* Hash chains.  A chain longer than the volume is cyclic (MAX_CHAIN).
Chain(bufs, first) ==
  LET f[n \in 0..NBlocks+1] ==
        [b \in 0..NBlocks |-> IF b = 0 \/ n = 0 THEN <<>> ELSE <<b>> \o f[n-1][bufs[b].next]]
  IN  f[NBlocks + 1][first]
Cyclic(chain) == Len(chain) > NBlocks

Entry(buf, b) == [blk |-> b, kind |-> buf.kind, name |-> buf.name,
                  parent |-> buf.parent, next |-> buf.next, note |-> buf.note]

\* A dict with one more key, or another value of one.
Put(dict, key, value) ==
  [k \in DOMAIN dict \cup {key} |-> IF k = key THEN value ELSE dict[k]]

\* _dir_name_set: the names on a directory's chains, which are followed on the
\* device, are kept for the next lookup.
NamesOnDisk(v, d) ==
  LET bucket(h) == Range(Chain(v.disk, Read(v, d).heads[h]))
  IN  {v.disk[b].name : b \in UNION {bucket(h) : h \in Buckets}}
Scanned(v, d) ==
  IF d \in DOMAIN v.names THEN v ELSE [v EXCEPT !.names = Put(@, d, NamesOnDisk(v, d))]

\* _find_in_dir, in a directory that was scanned.
Find(v, d, n) ==
  LET chain == Chain(v.disk, Read(v, d).heads[Hash(n)])
      hits == {i \in DOMAIN chain : v.disk[chain[i]].name = n}
  IN  IF n \notin v.names[d] \/ hits = {} THEN 0
      ELSE chain[CHOOSE i \in hits : \A j \in hits : i <= j]

\* resolve: what it finds, and the volume with what it scanned.
Lookup(r, n) ==
  IF r.blk = 0 \/ ~IsDirectory(Read(r.vol, r.blk)) THEN [r EXCEPT !.blk = 0]
  ELSE LET w == Scanned(r.vol, r.blk) IN [vol |-> w, blk |-> Find(w, r.blk, n)]
Resolved(v, p) ==
  LET r[k \in 0..Len(p)] == IF k = 0 THEN [vol |-> v, blk |-> Root] ELSE Lookup(r[k-1], p[k])
  IN  r[Len(p)]

\* _resolve_dir_cached: a path that is remembered is trusted if a directory is
\* at its block.
Remembered(v, p) == p \in DOMAIN v.paths /\ IsDirectory(Read(v, v.paths[p]))
RememberPath(v, p, b) == [v EXCEPT !.paths = Put(@, p, b)]
ForgetPath(v, p) == [v EXCEPT !.paths = [q \in DOMAIN @ \ {p} |-> @[q]]]
Noted(v, p, b) ==
  IF b = 0 \/ ~IsDirectory(Read(v, b)) THEN [vol |-> v, blk |-> 0]
  ELSE [vol |-> IF p = <<>> THEN v ELSE RememberPath(v, p, b), blk |-> b]
NotedDir(r, p) == Noted(ForgetPath(r.vol, p), p, r.blk)
ResolvedDir(v, p) ==
  IF Remembered(v, p) THEN [vol |-> v, blk |-> v.paths[p]] ELSE NotedDir(Resolved(v, p), p)
ForgetNames(v) == [v EXCEPT !.names = <<>>]
ForgetPaths(v) == [v EXCEPT !.paths = <<>>, !.made = <<>>]

\* _list_entries, and the entry that its sorting by name puts first.
Members(bufs, d) ==
  UNION {Range(Chain(bufs, bufs[d].heads[h])) : h \in Buckets}
Listed(v, d) == {Entry(Read(v, b), b) : b \in Members(View(v), d)}
First(entries) ==
  CHOOSE e \in entries :
    \A f \in entries : e.name < f.name \/ (e.name = f.name /\ e.blk <= f.blk)
Unreadable(v, d) == \E h \in Buckets : Cyclic(Chain(View(v), Read(v, d).heads[h]))

\* _link_entry: a head insert.  `buf` is the new header: a fresh one, or the
\* one read_buf returns.
WriteHeader(v, b, buf, fresh) == IF fresh THEN Write(v, b, buf) ELSE Rewrite(v, b, buf)
WriteHead(v, d, buf) == IF v.bulk THEN MakeDirty(v, d, buf) ELSE Write(v, d, buf)
Named(v, d, n) == IF d \in DOMAIN v.names THEN [v EXCEPT !.names[d] = @ \cup {n}] ELSE v
LinkHeadFirst(v, d, b, n, buf, fresh) ==                \* mutant of Link
  LET w == Named(WriteHead(v, d, [Read(v, d) EXCEPT !.heads[Hash(n)] = b]), d, n)
  IN  WriteHeader(w, b, [buf EXCEPT !.next = Read(v, d).heads[Hash(n)]], fresh)
Link(v, d, b, n, buf, fresh) ==
  LET w == WriteHeader(v, b, [buf EXCEPT !.next = Read(v, d).heads[Hash(n)]], fresh)
  IN  Named(WriteHead(w, d, [Read(v, d) EXCEPT !.heads[Hash(n)] = b]), d, n)

\* _unlink_entry: the predecessor takes over the chain pointer that the
\* caller's Entry was parsed with.  No block 0 can be read.
Unlink(known, e) ==
  LET v == ForgetNames(known)
      h == Hash(e.name)
      d == Read(v, e.parent)
      chain == Chain(View(v), d.heads[h])
      at == {i \in DOMAIN chain : chain[i] = e.blk}
      i == CHOOSE j \in at : \A k \in at : j <= k
  IN  IF e.parent = 0 \/ at = {} THEN Raise(v, "chain")
      ELSE IF i = 1 THEN Rewrite(v, e.parent, [d EXCEPT !.heads[h] = e.next])
      ELSE LET p == chain[i-1]
               w == Rewrite(v, p, [Read(v, p) EXCEPT !.next = e.next])
           IN  Rewrite(w, e.parent, Read(w, e.parent))

-----------------------------------------------------------------------------
\* The dircache of one directory: the chain of cache blocks, and the rebuild
\* that frees it first and then takes new blocks.
CacheChain(v, buf) ==
  IF DirCache(v) /\ buf.ptr # 0 /\ Read(v, buf.ptr).kind = "cache" THEN {buf.ptr} ELSE {}
Records(bufs, d) == {<<b, bufs[b].name>> : b \in Members(bufs, d)}

NewCache(v, d, recs) ==
  IF ~Fits(v, 1) THEN Raise(v, "full")
  ELSE LET b == NextFree(v, {})
           w == Write(Taken(v, b), b, CacheBlock(d, recs))
       IN  Rewrite(w, d, [Read(w, d) EXCEPT !.ptr = b])

UpdateDircache(v, d) ==
  IF ~DirCache(v) THEN v
  ELSE LET w == Freed(v, CacheChain(v, Read(v, d)))
       IN  IF Unreadable(w, d) THEN Raise(w, "chain") ELSE NewCache(w, d, Records(View(w), d))

\* _entry_blocks
EntryBlocks(v, e) ==
  LET buf == Read(v, e.blk)
  IN  ({e.blk, e.note} \cup
       IF e.kind = "dir" THEN CacheChain(v, buf) ELSE {buf.ptr}) \ {0}

-----------------------------------------------------------------------------
\* The handlers.  A path is given as its directory's block and a name; a call
\* that is refused before it changes anything is left out.
Mkdir(v, d, n) ==
  LET b == NextFree(v, {})
      v1 == Write(Taken(v, b), b, Header("dir", d, n))
      v2 == Link(v1, d, b, n, Read(v1, b), FALSE)
      v3 == IF DirCache(v) THEN NewCache(v2, b, {}) ELSE v2
      v4 == Then(v3, UpdateDircache(v3, d))
  IN  Then(v4, Commit(v4))

\* The directory of a path, and the volume with what the lookups left: the
\* directory scanned, too, for the name that is looked up next.
ScannedDir(r) == IF r.blk = 0 THEN r ELSE [r EXCEPT !.vol = Scanned(@, r.blk)]
InDir(v, p) == ScannedDir(ResolvedDir(v, Front(p)))

\* makedirs goes from one block to the next, over what is remembered, what the
\* scan finds and what it makes.  The path counts as made before it is.
MakeSegment(r, p) ==
  LET n == Last(p)
      w == Scanned(r.vol, r.blk)
      child == Find(w, r.blk, n)
      at == InDir(w, p)
  IN  IF r.vol.err # "none" THEN r
      ELSE IF p \in DOMAIN r.vol.paths THEN [r EXCEPT !.blk = r.vol.paths[p]]
      ELSE IF n \in w.names[r.blk]
      THEN IF child = 0 \/ ~IsDirectory(Read(w, child)) THEN [r EXCEPT !.vol = Raise(w, "exists")]
           ELSE [vol |-> RememberPath(w, p, child), blk |-> child]
      ELSE IF at.blk = 0 \/ Find(at.vol, at.blk, n) # 0
      THEN [r EXCEPT !.vol = Raise(at.vol, "exists")]
      ELSE IF ~Fits(w, 1) THEN [r EXCEPT !.vol = Raise(at.vol, "full")]
      ELSE LET b == NextFree(w, {})
               v == Mkdir(at.vol, at.blk, n)
           IN  [vol |-> Then(v, RememberPath(v, p, b)), blk |-> b]
Makedirs(v, p) ==
  LET r[k \in 0..Len(p)] == IF k = 0 THEN [vol |-> [v EXCEPT !.made = p], blk |-> Root]
                            ELSE MakeSegment(r[k-1], SubSeq(p, 1, k))
  IN  IF v.made = p THEN v ELSE r[Len(p)].vol

\* delete, of an entry with nothing below it.
RemoveEntry(v, e) ==
  LET v1 == Unlink(v, e)
      v2 == UpdateDircache(Freed(ForgetPaths(v1), EntryBlocks(v1, e)), e.parent)
  IN  Then(v1, Then(v2, Commit(v2)))

\* delete(recursive=True): the Entries of all children are parsed before the
\* first of them is deleted.  The innermost directory being deleted comes first
\* in `frames`, each with the children that are left; a directory that is
\* through with them is parsed anew.
Opened(s, e) ==
  IF e.kind = "dir" /\ Unreadable(s.vol, e.blk) THEN [s EXCEPT !.vol = Raise(@, "chain")]
  ELSE [s EXCEPT !.frames =
          <<[entry |-> e,
             kids |-> IF e.kind = "dir" THEN Listed(s.vol, e.blk) ELSE {}]>> \o @]
Reparsed(v, e) == IF e.kind = "dir" THEN Entry(Read(v, e.blk), e.blk) ELSE e
DeleteStep(s) ==
  LET frame == s.frames[1]
      kid == First(frame.kids)
  IN  IF s.vol.err # "none" THEN s
      ELSE IF frame.kids # {}
      THEN Opened([s EXCEPT !.frames[1].kids = @ \ {kid}], kid)
      ELSE IF Len(s.frames) = 1 THEN s
      ELSE [vol |-> RemoveEntry(s.vol, Reparsed(s.vol, frame.entry)), frames |-> Tail(s.frames)]
\* Every block below is opened and removed once.
Delete(v, e) ==
  LET s[k \in 0..2*NBlocks] == IF k = 0 THEN Opened([vol |-> v, frames |-> <<>>], e)
                               ELSE DeleteStep(s[k-1])
      v1 == s[2*NBlocks].vol
  IN  Then(v1, RemoveEntry(v1, Reparsed(v1, e)))

\* write_file, once a file it replaces is gone.  The data goes out before
\* the header that _link_entry writes.  On DOS\1,3,5,7 header and data are
\* allocated apart, and outside the try block.
LinkFile(v, d, n, got, ver) ==
  Link(v, d, got[1], n, [Header("file", d, n) EXCEPT !.ptr = got[2], !.ver = ver], TRUE)
MetadataFirst(v, d, n, got, ver) ==                     \* mutant of DataFirst
  Write(LinkFile(v, d, n, got, ver), got[2], DataBlock(ver))
DataFirst(v, d, n, got, ver) ==
  LinkFile(Write(v, got[2], DataBlock(ver)), d, n, got, ver)
AbandonHeader(v, got) == WriteBits(Freed(v, {got[1]}))  \* mutant of Abandon
Abandon(v, got) == WriteBits(Freed(v, {got[1], got[2]}))

Store(v, d, n, ver, sourceFails) ==
  LET b == NextFree(v, {})
      got == <<b, NextFree(v, {b})>>
      v1 == Taken(Taken(v, got[1]), got[2])
      v2 == UpdateDircache(DataFirst(v1, d, n, got, ver), d)
  IN  IF ~Fits(v, 2)
      THEN Raise(IF FFS(v) /\ Fits(v, 1) THEN Taken(v, b) ELSE v, "full")
      ELSE IF sourceFails THEN Raise(Abandon(v1, got), "source")
      ELSE Then(v2, Commit(v2))

WriteFile(v, d, n, ver, sourceFails) ==
  LET old == Find(v, d, n)
      v1 == IF old = 0 THEN v ELSE Delete(v, Entry(v.disk[old], old))
  IN  Then(v1, Store(v1, d, n, ver, sourceFails))

\* rename.  On DOS\6,7 a longer name may push the comment into a block of
\* its own (`spill`), which is allocated after the entry was unlinked.
Note == [Blank EXCEPT !.kind = "note"]
Spill(v, c) == WriteBits(Write(Taken(v, c), c, Note))
Renamed(buf, d, n, note) ==
  [buf EXCEPT !.name = n, !.parent = d, !.note = note]
UpdateSource(v, from, to) == UpdateDircache(v, from)    \* mutant of UpdateBoth
UpdateBoth(v, from, to) ==
  LET w == UpdateDircache(v, from)
  IN  Then(w, IF to = from THEN w ELSE UpdateDircache(w, to))

Rename(v, e, d, n, spill) ==
  LET v1 == Unlink(v, e)
      c == IF spill THEN NextFree(v1, {}) ELSE e.note
      v2 == IF spill THEN Spill(v1, c) ELSE v1
      v3 == Rewrite(v2, e.blk, Renamed(Read(v2, e.blk), d, n, c))
      v4 == UpdateBoth(Link(v3, d, e.blk, n, Read(v3, e.blk), FALSE), e.parent, d)
  IN  Then(v1, IF spill /\ ~Fits(v1, 1) THEN Raise(v1, "full") ELSE Then(v4, Commit(v4)))

SetValid(v, flag) == Rewrite(v, Root, [Read(v, Root) EXCEPT !.valid = flag])

EnterBulk(v) == [SetValid(v, FALSE) EXCEPT !.bulk = TRUE, !.ops = 0]
LeaveValidEarly(v) ==                                   \* mutant of LeaveBulk
  WriteBits(SetValid([FlushDirs(v) EXCEPT !.bulk = FALSE], TRUE))
LeaveBulk(v) == SetValid(WriteBits([FlushDirs(v) EXCEPT !.bulk = FALSE]), TRUE)

-----------------------------------------------------------------------------
\* What a walk from the root meets: <<path, block>> pairs.
Nodes(bufs) ==
  LET T[k \in 0..MaxDepth] ==
        IF k = 0 THEN {<< <<>>, Root >>}
        ELSE LET above == T[k-1]
                 below(x) == {<<Append(x[1], bufs[b].name), b>> : b \in Members(bufs, x[2])}
             IN  above \cup UNION {below(x) : x \in {y \in above : IsDirectory(bufs[y[2]])}}
  IN  T[MaxDepth]
Reached(bufs) == {x[2] : x \in Nodes(bufs)}

\* The tree a reader of the volume sees.
Content(disk, buf) ==
  IF IsDirectory(buf) THEN 0 ELSE IF buf.ptr = 0 THEN 0 ELSE disk[buf.ptr].ver
TreeOf(disk, bufs) ==
  {<<x[1], Content(disk, bufs[x[2]])>> : x \in {y \in Nodes(bufs) : y[1] # <<>>}}
Tree == TreeOf(vol.disk, View(vol))

\* collect_used_blocks
Owned(bufs, b) ==
  {b, bufs[b].note, bufs[b].ptr} \ {0}
UsedBlocks(bufs) == UNION {Owned(bufs, b) : b \in Reached(bufs)}

(* What check() accepts of a volume: chains end, every entry hangs in the  *)
(* directory and the bucket it names, no block has two owners, dircache    *)
(* records are the directory's entries, and no block in use is free.       *)
Chained(bufs, d) ==
  \A h \in Buckets :
    LET chain == Chain(bufs, bufs[d].heads[h])
    IN  /\ ~Cyclic(chain)
        /\ \A b \in Range(chain) : /\ bufs[b].kind \in {"dir", "file"}
                                   /\ bufs[b].parent = d
                                   /\ Hash(bufs[b].name) = h
Disjoint(bufs) ==
  \A b, c \in Reached(bufs) : b # c => Owned(bufs, b) \cap Owned(bufs, c) = {}
Cached(v, bufs, d) ==
  DirCache(v) => IF bufs[d].ptr = 0 THEN Records(bufs, d) = {}
            ELSE LET cache == bufs[bufs[d].ptr]
                 IN  cache.kind = "cache" /\ cache.parent = d /\ cache.recs = Records(bufs, d)
Sound(v, bufs, free) ==
  LET dirs == {b \in Reached(bufs) : IsDirectory(bufs[b])}
  IN  /\ \A d \in dirs : Chained(bufs, d)
      /\ Disjoint(bufs)
      /\ \A d \in dirs : Cached(v, bufs, d)
      /\ UsedBlocks(bufs) \cap free = {}

RepairBits(v) ==                                        \* mutant of Repair
  LET w == [v EXCEPT !.free = Blk \ UsedBlocks(View(v))]
  IN  IF w.free = v.free THEN v ELSE SetValid(WriteBits(w), TRUE)
\* repair(apply=True)
Repair(v) ==
  LET w == [v EXCEPT !.free = Blk \ UsedBlocks(View(v))]
  IN  IF w.free = v.free /\ Read(v, Root).valid THEN v
      ELSE SetValid(WriteBits(w), TRUE)

\* The command repair --write mounts the volume anew on an overlay, repairs it
\* there and checks the outcome.  If a bit was wrong, and nothing is now, the
\* overlay is committed in the order of its blocks: of bitmap and root block
\* the other way round, because format() puts the bitmap behind the root.
Ascending(out) == Reverse(out)
RepairCommand(v) ==
  LET w == Repair(v)
  IN  IF w.free # v.free /\ Sound(w, View(w), w.free)
      THEN [w EXCEPT !.out = Ascending(@)] ELSE v

-----------------------------------------------------------------------------
\* What format() leaves.
Formatted(flavor) ==
  LET cache == IF flavor \in {4, 5} THEN Root + 1 ELSE 0
      root == [Blank EXCEPT !.kind = "root", !.ptr = cache, !.valid = TRUE]
  IN  [flavor |-> flavor,
       disk |-> [b \in Blk |-> IF b = Root THEN root
                               ELSE IF b = cache THEN CacheBlock(Root, {})
                               ELSE Blank],
       bits |-> Blk \ {Root, cache}]

Called(op, p, q, err) == [op |-> op, path |-> p, to |-> q, err |-> err]

Init ==
  /\ media \in {Formatted(flavor) : flavor \in Flavors}
  /\ vol = Mounted(media)
  /\ call = Called("none", <<>>, <<>>, "none")
  /\ before = {}
  /\ mishap = "none"
  /\ calls = 0

Paths == UNION {[1..k -> Names] : k \in 1..MaxDepth}

\* A call is made when the writes of the last one are out.
Ready == vol.out = <<>> /\ calls < MaxCalls
Return(w, op, p, q) ==
  /\ vol' = [w EXCEPT !.err = "none"]
  /\ call' = Called(op, p, q, w.err)
  /\ before' = Tree
  /\ mishap' = IF w.err \in {"full", "chain"} THEN "failed" ELSE mishap
  /\ calls' = IF calls < MaxCalls THEN calls + 1 ELSE calls
  /\ UNCHANGED media

\* What the caller of delete and rename resolves, and the Entry it gets.
Target(p) == Resolved(vol, p)
EntryOf(r) == Entry(r.vol.disk[r.blk], r.blk)

CallMkdir(p) ==
  LET at == InDir(vol, p)
  IN  /\ Ready /\ at.blk # 0 /\ Find(at.vol, at.blk, Last(p)) = 0 /\ Fits(vol, 1)
      /\ Return(Mkdir(at.vol, at.blk, Last(p)), "mkdir", p, <<>>)

CallMakedirs(p) == Ready /\ Return(Makedirs(vol, p), "makedirs", p, <<>>)

CallWrite(p, ver, sourceFails) ==
  LET at == InDir(vol, p)
      old == Find(at.vol, at.blk, Last(p))
  IN  /\ Ready /\ at.blk # 0
      /\ old # 0 => vol.disk[old].kind = "file"
      /\ Return(WriteFile(at.vol, at.blk, Last(p), ver, sourceFails), "write", p, <<>>)

CallDelete(p) ==
  /\ Ready /\ Target(p).blk # 0
  /\ Return(Delete(Target(p).vol, EntryOf(Target(p))), "delete", p, <<>>)

CallRename(p, q, spill) ==
  LET e == EntryOf(Target(p))
      at == InDir(ForgetPaths(ForgetNames(vol)), q)
  IN  /\ Ready /\ (spill => LongNames(vol))
      /\ Target(p).blk # 0 /\ at.blk # 0
      /\ Find(at.vol, at.blk, Last(q)) \in {0, e.blk}
      /\ e.kind = "dir" => ~IsPrefix(p, Front(q)) /\ Len(q) <= Len(p)
      /\ spill => e.kind = "file" /\ e.note = 0
      /\ Return(Rename(at.vol, e, at.blk, Last(q), spill), "rename", p, q)

CallEnterBulk == /\ Ready /\ ~vol.bulk
                 /\ Return(EnterBulk(vol), "bulk", <<>>, <<>>)
CallLeaveBulk == /\ vol.out = <<>> /\ vol.bulk
                 /\ Return(LeaveBulk(vol), "bulk", <<>>, <<>>)
CallRepair == /\ vol.out = <<>> /\ ~vol.bulk
              /\ Return(Repair(vol), "repair", <<>>, <<>>)
CallRepairCommand ==
  /\ vol.out = <<>> /\ ~vol.bulk
  /\ Return(RepairCommand(Mounted(media)), "repair --write", <<>>, <<>>)

\* The next block write reaches the medium.
DeviceWrite ==
  /\ vol.out # <<>>
  /\ LET o == Head(vol.out)
     IN  media' = IF o.blk = 0 THEN [media EXCEPT !.bits = o.buf]
                  ELSE [media EXCEPT !.disk[o.blk] = o.buf]
  /\ vol' = [vol EXCEPT !.out = Tail(@)]
  /\ UNCHANGED <<call, before, mishap, calls>>

\* The process is killed, and the volume is mounted again.
Crash ==
  /\ vol.out # <<>> \/ vol.bulk
  /\ vol' = Mounted(media)
  /\ call' = Called("crash", <<>>, <<>>, "none")
  /\ before' = TreeOf(media.disk, media.disk)
  /\ mishap' = "killed"
  /\ UNCHANGED <<media, calls>>

Calls(P) ==
  \E p \in P :
    \/ CallMkdir(p) \/ CallDelete(p)
    \/ \E ver \in Versions, fails \in BOOLEAN : CallWrite(p, ver, fails)
    \/ \E q \in P, spill \in BOOLEAN : CallRename(p, q, spill)

Next == \/ Calls(Paths) \/ (\E p \in Paths : CallMakedirs(p))
        \/ CallEnterBulk \/ CallLeaveBulk \/ CallRepair \/ CallRepairCommand \/ DeviceWrite \/ Crash

Spec == Init /\ [][Next]_vars

-----------------------------------------------------------------------------
\* Only a parent pointer leads to the root.
Ptr == (0..NBlocks) \ {Root}
BufType == [kind : {"none", "root", "dir", "file", "data", "cache", "note"},
            name : Names \cup {0}, parent : 0..NBlocks, next : Ptr,
            heads : [Buckets -> Ptr], ptr : Ptr, note : Ptr, ver : Versions \cup {0},
            recs : SUBSET (Blk \X (Names \cup {0})), valid : BOOLEAN]

TypeOK ==
  /\ \A b \in Blk : media.disk[b] \in BufType /\ vol.disk[b] \in BufType
  /\ media.bits \subseteq Blk /\ vol.bits \subseteq Blk /\ vol.free \subseteq Blk \ {Root}
  /\ vol.cursor \in 1..NBlocks+1
  /\ \A i \in DOMAIN vol.dirs : vol.dirs[i].blk \in Blk /\ vol.dirs[i].buf \in BufType
  /\ vol.dirs # <<>> => vol.bulk
  /\ DOMAIN vol.names \subseteq Blk /\ DOMAIN vol.paths \subseteq Paths
  /\ vol.made \in Paths \cup {<<>>}
  /\ vol.err = "none" /\ calls \in 0..MaxCalls

(* The caches of names and of paths say what a walk of the directories      *)
(* would find.                                                              *)
CachesCoherent ==
  LET nodes == Nodes(View(vol))
  IN  /\ \A d \in DOMAIN vol.names :
           vol.names[d] = {Read(vol, b).name : b \in Members(View(vol), d)}
      /\ \A p \in DOMAIN vol.paths :
           <<p, vol.paths[p]>> \in nodes /\ IsDirectory(Read(vol, vol.paths[p]))

(* However the calls follow one another, the volume the process works on   *)
(* would pass check() after every one of them, and no lookup is misled by  *)
(* what an earlier one left.                                               *)
SessionSound == TypeOK /\ Sound(vol, View(vol), vol.free) /\ CachesCoherent

(* Blocks are neither lost nor handed out twice over a session: what is    *)
(* not free is exactly what the tree reaches, unless a call ran out of     *)
(* space half-way or the process was killed.                               *)
SpaceExact == mishap = "none" => vol.free = Blk \ UsedBlocks(View(vol))

(* Outside bulk mode a call that returned has left nothing in memory only: *)
(* every block is on the medium, and after a change the bitmap is too.  It  *)
(* is after any other call, unless one of this process stopped half-way.    *)
Changed == call.err = "none" /\ call.op \in {"mkdir", "write", "delete", "rename", "bulk"}
DurableOnReturn ==
  vol.out = <<>> /\ ~vol.bulk =>
    /\ media.disk = View(vol)
    /\ Changed \/ mishap # "failed" => media.bits = vol.free

(* Each call does to the tree what its caller asked for, in bulk mode too. *)
FileTree == INSTANCE FileTree WITH
              tree <- Tree,
              call <- [op |-> call.op, path |-> call.path, to |-> call.to,
                       ok |-> call.err = "none"]
ImplementsFileTree == FileTree!Spec

(* What a file of the tree holds is what was written to it: no later call  *)
(* and no deferred write reuses its data block ("the same blocks are       *)
(* allocated in the same order with identical contents",                   *)
(* doc/filesystem-performance.md).                                         *)
ContentsKept ==
  \A b \in Reached(View(vol)) :
    LET f == Read(vol, b)
    IN  f.kind = "file" => vol.disk[f.ptr] = DataBlock(f.ver)

(* Wherever a crash falls, the medium's tree is a tree: its chains end, its *)
(* blocks have one owner, and a file it reaches has all of its data, for    *)
(* data blocks go out before any metadata that references them              *)
(* (doc/filesystem-performance.md, "Failure granularity").                 *)
DataBeforeMetadata ==
  /\ Disjoint(media.disk)
  /\ \A b \in Reached(media.disk) :
       LET f == media.disk[b]
       IN  IF IsDirectory(f) THEN Chained(media.disk, b)
           ELSE media.disk[f.ptr] = DataBlock(f.ver)

(* Creating an entry and removing one file are atomic: wherever a crash    *)
(* falls, the medium's tree is the one before the call or the one after.   *)
Created == call.op \in {"mkdir", "write"} /\ \A x \in before : x[1] # call.path
Removed == call.op = "delete" /\ <<call.path, 0>> \notin before
AtomicCreateAndRemove ==
  (Created \/ Removed) /\ ~vol.bulk =>
    TreeOf(media.disk, media.disk) \in {before, Tree}

(* In bulk mode the medium's directories and its bitmap lag behind, and    *)
(* from its first write on bm_flag says so: bulk() clears the flag before   *)
(* anything else is written, and it is set again only when all the rest is  *)
(* on the medium.                                                           *)
MarkedInBulk ==
  /\ vol.bulk /\ ~(call.op = "bulk" /\ vol.out # <<>>) => ~media.disk[Root].valid
  /\ call.op = "bulk" /\ ~vol.bulk /\ media.disk[Root].valid =>
       media.disk = View(vol) /\ media.bits = vol.free

(* repair, wherever it is killed in turn, loses nothing of the tree it      *)
(* finds, and leaves a valid bitmap with exactly the blocks of that tree.   *)
(* So does the command repair --write, of a tree that check() accepts then, *)
(* but for bm_flag, which it leaves alone when the bits were right.  Only   *)
(* a repair by a process that stopped half-way in a call before may trust   *)
(* a bitmap that it has in memory alone.                                    *)
RepairRestores ==
  /\ call.op \in {"repair", "repair --write"} => TreeOf(media.disk, media.disk) = before
  /\ vol.out = <<>> /\ call.op = "repair" =>
       /\ media.disk[Root].valid /\ vol.free = Blk \ UsedBlocks(media.disk)
       /\ mishap # "failed" => media.bits = vol.free
  /\ vol.out = <<>> /\ call.op = "repair --write" =>
       \/ media.bits = Blk \ UsedBlocks(media.disk)
       \/ ~Sound(vol, media.disk, Blk \ UsedBlocks(media.disk))
=============================================================================
