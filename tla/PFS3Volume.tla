----------------------------- MODULE PFS3Volume -----------------------------
(***************************************************************************)
(* A mounted PFS3 volume, class PFS3Volume of fs/pfs3.py.  Directory       *)
(* blocks, new anode blocks and the anode index are written at once; the   *)
(* bitmap, the anodes and the root block with the reserved bitmap and the  *)
(* two counters stay in memory until _flush_meta, which in bulk mode comes *)
(* every few calls.  _begin drops the bitmap and the anodes that a failed  *)
(* call left in memory, but not the reserved bitmap and the counters.      *)
(*                                                                         *)
(* As in FFSVolume a handler is a function from a volume to a volume whose *)
(* field `out` lists the block writes in order, and DeviceWrite makes one  *)
(* of them.  Every state is one the process may be killed in.              *)
(*                                                                         *)
(* Abstractions: one bitmap block and one block of the anode index, both   *)
(* before the blocks of Res; a block of Main holds one unit of data;       *)
(* directory entries are of one size; the two system anodes stand for six; *)
(* dates, comments, links and the deldir are left out.  The cache of       *)
(* single anodes is left out: _save_anode takes out what it changes.       *)
(***************************************************************************)
EXTENDS Integers, Sequences, FiniteSets, SequencesExt

CONSTANTS NRes,         \* reserved blocks 1..NRes: directories and anodes
          NMain,        \* data blocks NRes+1..NRes+NMain
          Names,
          Refused,      \* names that _build_direntry refuses
          Versions,     \* what a file may hold: version v is v-1 blocks long
          NSlots,       \* anodes_per_block
          Cap,          \* entries that fit in a directory block
          BulkEvery,    \* bulk(flush_every)
          MaxDepth,     \* bound: the longest path called with
          MaxCalls      \* bound: the calls of a behaviour

ASSUME PFS3Assumption ==
  /\ {NRes, NMain, NSlots, Cap, BulkEvery, MaxDepth} \subseteq Nat \ {0}
  /\ NRes > 1 /\ NSlots > 2
  /\ Refused \subseteq Names /\ Versions \subseteq Nat \ {0}

Res == 1..NRes
Main == NRes+1..NRes+NMain
Seqs == 0..NRes-1               \* anode blocks: each takes a reserved block
Slots == 0..NSlots-1
Anodes == 0..NRes*NSlots-1
RootDir == 1                    \* ANODE_ROOTDIR
Size(ver) == ver - 1

VARIABLES
  vol,      \* the volume as the process knows it
  media,    \* the medium
  tree,     \* what a reader saw when the last call had returned
  call,     \* the last call, and what it raised
  kept,     \* what no call has named since the medium was last complete
  mishap,   \* a call failed in a way that the code does not roll back
  calls     \* how many calls were made

vars == <<vol, media, tree, call, kept, mishap, calls>>

-----------------------------------------------------------------------------
\* An anode is a run of cs blocks from bn and the next anode of its file or
\* directory.  One that holds nothing but is taken has the null block.
NoBlock == -1
FreeAnode == [cs |-> 0, bn |-> 0, nxt |-> 0]
NewAnode == [cs |-> 0, bn |-> NoBlock, nxt |-> 0]
NoSlots == [k \in Slots |-> FreeAnode]

Blank == [kind |-> "none", slots |-> NoSlots, self |-> 0, parent |-> 0, entries |-> <<>>]
AnodeBlock(slots) == [Blank EXCEPT !.kind = "anodes", !.slots = slots]
DirBlock(self, parent, entries) ==
  [Blank EXCEPT !.kind = "dir", !.self = self, !.parent = parent, !.entries = entries]

FileEntry(name, anode, size) == [name |-> name, dir |-> FALSE, anode |-> anode, size |-> size]
DirEntry(name, anode) == [name |-> name, dir |-> TRUE, anode |-> anode, size |-> 0]

\* Caches that know nothing.
NoNames == {0}
NoTail == [bn |-> 0, end |-> 0]
NoSplit == [key |-> <<0>>, dir |-> 0]

\* What _get_anode finds on the medium.
Stored(disk) ==
  [s \in Seqs |-> IF disk.index[s] = 0 THEN NoSlots ELSE disk.blk[disk.index[s]].slots]

\* open()
Mounted(disk) ==
  [disk |-> disk, root |-> disk.root, bits |-> disk.bits, ab |-> Stored(disk),
   rove |-> NRes + 1, bulk |-> FALSE, ops |-> 0,
   names |-> [a \in Anodes |-> NoNames], tail |-> [a \in Anodes |-> NoTail],
   split |-> NoSplit, made |-> <<>>, out |-> <<>>, err |-> "none"]

Put(disk, w) ==
  IF w.to \in {"root", "bits", "index"} THEN [disk EXCEPT ![w.to] = w.buf]
  ELSE [disk EXCEPT ![w.to][w.at] = w.buf]
Write(v, to, at, buf) ==
  LET w == [to |-> to, at |-> at, buf |-> buf]
  IN  [v EXCEPT !.disk = Put(@, w), !.out = Append(@, w)]

Raise(v, why) == [v EXCEPT !.err = why]
Then(v, w) == IF v.err = "none" THEN w ELSE v

-----------------------------------------------------------------------------
\* Transactions.
Begin(v) ==
  IF v.bulk THEN v ELSE [v EXCEPT !.bits = v.disk.bits, !.ab = Stored(v.disk)]

WriteBits(v) == IF v.bits = v.disk.bits THEN v ELSE Write(v, "bits", 0, v.bits)

\* Dirty anode blocks go out in the order of their block numbers.
WriteAnodes(v) ==
  LET seqAt(b) == CHOOSE s \in Seqs : v.disk.index[s] = b
      dirty == {b \in Range(v.disk.index) \ {0} : v.disk.blk[b].slots # v.ab[seqAt(b)]}
  IN  FoldLeft(LAMBDA w, b : Write(w, "blk", b, AnodeBlock(v.ab[seqAt(b)])), v,
               SetToSortSeq(dirty, <))
FlushBitsOnly(v) == Write(WriteBits(v), "root", 0, v.root)    \* mutant
FlushMeta(v) == Write(WriteAnodes(WriteBits(v)), "root", 0, v.root)

Commit(v) ==
  IF ~v.bulk THEN FlushMeta(v)
  ELSE LET w == [v EXCEPT !.ops = (@ + 1) % BulkEvery]
       IN  IF w.ops = 0 THEN FlushMeta(w) ELSE w

-----------------------------------------------------------------------------
\* The reserved area: the lowest free block.
LowestReserved(v) == CHOOSE b \in v.root.res : \A c \in v.root.res : b <= c
TakeReserved(v) ==
  IF v.root.res = {} THEN Raise(v, "reserved")
  ELSE [v EXCEPT !.root.res = @ \ {LowestReserved(v)}, !.root.nres = @ - 1]
FreeReserved(v, b) == [v EXCEPT !.root.res = @ \cup {b}, !.root.nres = @ + 1]

\* The main area: the free blocks met first from the roving pointer, as runs.
\* The counter is asked first, and the bits have the last word.
Walk(rove) == LET s == IF rove \in Main THEN rove ELSE NRes + 1
              IN  [i \in 1..NMain |-> NRes + 1 + ((s - NRes - 2 + i) % NMain)]
FreeAhead(v) == SelectSeq(Walk(v.rove), LAMBDA b : b \in v.bits)
Fits(v, n) == n <= v.root.nfree /\ n <= Cardinality(v.bits)
Runs(blks) ==
  FoldLeft(LAMBDA runs, b :
             IF runs # <<>> /\ Last(runs).bn + Last(runs).cs = b
             THEN Append(Front(runs), [Last(runs) EXCEPT !.cs = @ + 1])
             ELSE Append(runs, [bn |-> b, cs |-> 1]),
           <<>>, blks)
CountMain(v, blks) ==                                         \* mutant
  [v EXCEPT !.root.nfree = @ - Len(blks), !.rove = Last(blks) + 1]
TakeMain(v, blks) ==
  [v EXCEPT !.bits = @ \ Range(blks), !.root.nfree = @ - Len(blks), !.rove = Last(blks) + 1]
FreeRun(v, run) ==
  [v EXCEPT !.bits = @ \cup (run.bn .. run.bn + run.cs - 1), !.root.nfree = @ + run.cs]

-----------------------------------------------------------------------------
\* Anodes.
Anode(v, nr) == v.ab[nr \div NSlots][nr % NSlots]
Save(v, nr, a) == [v EXCEPT !.ab[nr \div NSlots][nr % NSlots] = a]
FreeSlots(v, s) == {k \in Slots : v.ab[s][k] = FreeAnode /\ (s = 0 => k > RootDir)}

\* _alloc_anode: the block of a neighbour first, then the first with room,
\* which a block that does not exist yet always has.
BlockWithRoom(v, near) ==
  LET room == {s \in Seqs : FreeSlots(v, s) # {}}
  IN  IF near \in room THEN near ELSE CHOOSE s \in room : \A t \in room : s <= t
NextAnode(v, near) ==
  LET s == BlockWithRoom(v, near)
  IN  s * NSlots + CHOOSE k \in FreeSlots(v, s) : \A j \in FreeSlots(v, s) : k <= j

MakeAnodeBlock(v, s) ==
  LET b == LowestReserved(v)
      w == Write(TakeReserved(v), "blk", b, AnodeBlock(NoSlots))
  IN  IF v.disk.index[s] # 0 THEN v
      ELSE IF v.root.res = {} THEN Raise(v, "reserved")
      ELSE Write(w, "index", 0, [v.disk.index EXCEPT ![s] = b])
TakeAnode(v, near) ==
  LET w == MakeAnodeBlock(v, BlockWithRoom(v, near))
  IN  Then(w, Save(w, NextAnode(v, near), NewAnode))

\* The numbers of a chain of anodes.
Chain(v, nr) ==
  LET f[a \in Anodes, n \in 0..NRes*NSlots] ==
        IF a = 0 \/ n = 0 THEN <<>> ELSE <<a>> \o f[Anode(v, a).nxt, n-1]
  IN  f[nr, NRes * NSlots]
DataRuns(v, nr) ==
  LET c == Chain(v, nr)
  IN  SelectSeq([i \in DOMAIN c |-> Anode(v, c[i])], LAMBDA a : a.cs > 0 /\ a.bn # NoBlock)
DataBlocks(v, nr) ==
  FoldLeft(LAMBDA blks, a : blks \o [i \in 1..a.cs |-> a.bn + i - 1], <<>>, DataRuns(v, nr))

FreeChain(v, nr) ==
  FoldLeft(LAMBDA w, a : Save(w, a, FreeAnode),
           FoldLeft(FreeRun, v, DataRuns(v, nr)), Chain(v, nr))

-----------------------------------------------------------------------------
\* Directories.  The anodes of a directory hold one block each.
DirAnodes(v, d) == SelectSeq(Chain(v, d), LAMBDA a : Anode(v, a).bn \notin {0, NoBlock})
DirBlocks(v, d) == LET c == DirAnodes(v, d) IN [i \in DOMAIN c |-> Anode(v, c[i]).bn]
Readable(v, d) == \A b \in Range(DirBlocks(v, d)) : b \in Res /\ v.disk.blk[b].kind = "dir"
Entries(v, d) ==
  IF ~Readable(v, d) THEN <<>>
  ELSE FoldLeft(LAMBDA es, b : es \o v.disk.blk[b].entries, <<>>, DirBlocks(v, d))
NamesIn(v, d) == {e.name : e \in Range(Entries(v, d))}
Entry(v, d, n) == CHOOSE e \in Range(Entries(v, d)) : e.name = n
ParentOf(v, d) == IF d = RootDir THEN 0 ELSE v.disk.blk[DirBlocks(v, d)[1]].parent

\* _dir_names and _dir_tail: the names of a directory and the end of its
\* last block, remembered across calls.
Known(v, d) == IF v.names[d] = NoNames THEN NamesIn(v, d) ELSE v.names[d]
Forget(v, d) == [v EXCEPT !.names[d] = NoNames, !.tail[d] = NoTail]

\* _split_parent: the directory of the last path, remembered.
Resolve(v, p) ==
  FoldLeft(LAMBDA d, n : IF d # 0 /\ \E e \in Range(Entries(v, d)) : e.dir /\ e.name = n
                         THEN Entry(v, d, n).anode ELSE 0, RootDir, p)
Split(v, p) == IF v.split.key = Front(p) THEN v.split.dir ELSE Resolve(v, Front(p))
Remember(v, p) == [v EXCEPT !.split = [key |-> Front(p), dir |-> Split(v, p)]]
KeepSplit(v) == v                                             \* mutant
ForgetSplit(v) == [v EXCEPT !.split = NoSplit, !.made = <<>>]

\* _locate_entry asks the names first, and so fills their cache.
Lookup(v, d) == [v EXCEPT !.names[d] = Known(v, d)]
Exists(v, d, n) == n \in Known(v, d) /\ n \in NamesIn(v, d)

PutEntry(v, d, b, buf, e) ==
  [Write(v, "blk", b, [buf EXCEPT !.entries = Append(@, e)])
     EXCEPT !.tail[d] = [bn |-> b, end |-> Len(buf.entries) + 1],
            !.names[d] = Known(v, d) \cup {e.name}]

\* A directory without room gets a block and an anode more.
Extend(v, d, e) ==
  LET last == Last(DirAnodes(v, d))
      b == LowestReserved(v)
      v1 == TakeReserved(v)
      nr == NextAnode(v1, last \div NSlots)
      v2 == Then(v1, TakeAnode(v1, last \div NSlots))
      v3 == Save(Save(v2, last, [Anode(v2, last) EXCEPT !.nxt = nr]),
                 nr, [cs |-> 1, bn |-> b, nxt |-> 0])
  IN  Then(v2, PutEntry(v3, d, b, DirBlock(d, ParentOf(v, d), <<>>), e))

HasRoom(v, b) == Len(v.disk.blk[b].entries) < Cap
TailFits(v, d) ==
  LET t == v.tail[d]
  IN  t # NoTail /\ HasRoom(v, t.bn) /\ Len(v.disk.blk[t.bn].entries) = t.end
AddEntry(v, d, e) ==
  LET roomy == SelectSeq(DirBlocks(v, d), LAMBDA b : HasRoom(v, b))
  IN  IF TailFits(v, d) THEN PutEntry(v, d, v.tail[d].bn, v.disk.blk[v.tail[d].bn], e)
      ELSE IF roomy # <<>> THEN PutEntry(v, d, roomy[1], v.disk.blk[roomy[1]], e)
      ELSE Extend(v, d, e)

\* A block that becomes empty leaves the chain unless it is the first.
RemoveEntry(v, d, n) ==
  LET i == CHOOSE j \in DOMAIN DirBlocks(v, d) :
             \E e \in Range(v.disk.blk[DirBlocks(v, d)[j]].entries) : e.name = n
      b == DirBlocks(v, d)[i]
      left == SelectSeq(v.disk.blk[b].entries, LAMBDA e : e.name # n)
      v1 == Write([v EXCEPT !.names[d] = Known(v, d) \ {n}, !.tail[d] = NoTail],
                  "blk", b, [v.disk.blk[b] EXCEPT !.entries = left])
      nr == DirAnodes(v, d)[i]
      prev == DirAnodes(v, d)[i-1]
      v2 == Save(v1, prev, [Anode(v1, prev) EXCEPT !.nxt = Anode(v1, nr).nxt])
  IN  IF left # <<>> \/ i = 1 THEN v1
      ELSE FreeReserved(Save(v2, nr, FreeAnode), b)

-----------------------------------------------------------------------------
\* The handlers, from a volume that has begun.  _build_direntry comes last
\* but for the entry itself.
Enter(v, d, e) == IF e.name \in Refused THEN Raise(v, "name") ELSE AddEntry(v, d, e)

Mkdir(v, d, n) ==
  LET nr == NextAnode(v, 0)
      v1 == TakeAnode(v, 0)
      b == LowestReserved(v1)
      v2 == Then(v1, TakeReserved(v1))
      v3 == Save(Write(v2, "blk", b, DirBlock(nr, d, <<>>)), nr, [cs |-> 1, bn |-> b, nxt |-> 0])
      v4 == Then(v2, Enter(Forget(v3, nr), d, DirEntry(n, nr)))
  IN  Then(v4, Commit(v4))
MkdirAt(v, p) ==
  LET d == Split(v, p)
  IN  Mkdir(Lookup(Remember(v, p), d), d, Last(p))

\* makedirs: a mkdir for every directory of the path that is not found, each
\* with a begin of its own.  The path counts as made before it is.
MakeSegment(v, p) ==
  LET d == Resolve(v, Front(p))
  IN  CASE v.err # "none" -> v
        [] Last(p) \notin NamesIn(v, d) -> MkdirAt(Begin(v), p)
        [] OTHER -> IF Entry(v, d, Last(p)).dir THEN v ELSE Raise(v, "exists")
Makedirs(v, p) ==
  IF v.made = p THEN v
  ELSE FoldLeft(LAMBDA w, k : MakeSegment(w, SubSeq(p, 1, k)), [v EXCEPT !.made = p],
                [k \in DOMAIN p |-> k])

\* One anode per run, each in the block of the one before if that has room.
RECURSIVE SaveRuns(_, _, _)
SaveRuns(v, nr, runs) ==
  LET more == Len(runs) > 1
      w == IF more THEN TakeAnode(v, nr \div NSlots) ELSE v
      next == IF more THEN NextAnode(v, nr \div NSlots) ELSE 0
      saved == Save(w, nr, [cs |-> runs[1].cs, bn |-> runs[1].bn, nxt |-> next])
  IN  Then(w, IF more THEN SaveRuns(saved, next, Tail(runs)) ELSE saved)

WriteData(v, blks, ver) == FoldLeft(LAMBDA w, b : Write(w, "data", b, ver), v, blks)

\* The except clause of write_file: blocks and the first anode go back.
AbandonAnode(v, nr, runs) == Save(v, nr, FreeAnode)           \* mutant
Abandon(v, nr, runs) == Save(FoldLeft(FreeRun, v, runs), nr, FreeAnode)

Store(v, d, n, ver, sourceFails) ==
  LET nr == NextAnode(v, 0)
      v1 == TakeAnode(v, 0)
      blks == SubSeq(FreeAhead(v), 1, Size(ver))
      runs == Runs(blks)
      v2 == TakeMain(v1, blks)
      v3 == SaveRuns(WriteData(v2, blks, ver), nr, runs)
      stored == IF Size(ver) = 0 THEN v1
                ELSE IF ~Fits(v, Size(ver)) THEN Raise(Abandon(v1, nr, <<>>), "full")
                ELSE IF sourceFails THEN Raise(Abandon(v2, nr, runs), "source")
                ELSE IF v3.err # "none" THEN Abandon(v3, nr, runs)
                ELSE v3
      v4 == Then(v1, stored)
      v5 == Then(v4, Enter(v4, d, FileEntry(n, nr, Size(ver))))
  IN  Then(v5, Commit(v5))

\* A file that is replaced is deleted first.
WriteOver(v, d, n, ver, sourceFails) ==                       \* mutant
  Store(IF Exists(v, d, n) THEN FreeChain(v, Entry(v, d, n).anode) ELSE v,
        d, n, ver, sourceFails)
WriteFile(v, d, n, ver, sourceFails) ==
  Store(IF Exists(v, d, n) THEN RemoveEntry(FreeChain(v, Entry(v, d, n).anode), d, n) ELSE v,
        d, n, ver, sourceFails)

\* delete(recursive=True): every child is a call of its own.
RECURSIVE Delete(_, _, _)
Delete(v, d, e) ==
  LET v1 == FoldLeft(LAMBDA w, c : Delete(w, e.anode, c), Begin(v), Entries(v, e.anode))
      v2 == Forget(Begin(v1), e.anode)
      v3 == FoldLeft(FreeReserved, v2, DirBlocks(v2, e.anode))
      v4 == FoldLeft(LAMBDA w, a : Save(w, a, FreeAnode), v3, Chain(v2, e.anode))
  IN  Commit(RemoveEntry(IF e.dir THEN v4 ELSE FreeChain(Begin(v), e.anode), d, e.name))

\* rename.  The blocks of a directory that moves name its new parent.
KeepParent(v, a, d) == v                                      \* mutant
Reparent(v, a, d) ==
  FoldLeft(LAMBDA w, b : Write(w, "blk", b, [w.disk.blk[b] EXCEPT !.parent = d]),
           v, DirBlocks(v, a))
Rename(v, d, e, to, n) ==
  LET v1 == RemoveEntry(v, d, e.name)
      v2 == Enter(v1, to, [e EXCEPT !.name = n])
      v3 == Then(v2, IF e.dir /\ to # d THEN Reparent(v2, e.anode, to) ELSE v2)
  IN  Then(v3, Commit(v3))

EnterBulk(v) == [v EXCEPT !.bulk = TRUE, !.ops = 0]
LeaveBulk(v) == FlushMeta([v EXCEPT !.bulk = FALSE])

-----------------------------------------------------------------------------
\* What a walk from the root meets: <<path, entry>> pairs.
Nodes(v) ==
  LET T[k \in 0..MaxDepth] ==
        IF k = 0 THEN {<< <<>>, DirEntry(0, RootDir) >>}
        ELSE T[k-1] \cup UNION {{<<Append(x[1], e.name), e>> : e \in Range(Entries(v, x[2].anode))} :
                                x \in {y \in T[k-1] : y[2].dir}}
  IN  T[MaxDepth]

\* What a reader of the volume sees.
Torn == -1
Content(v, e) ==
  LET blks == DataBlocks(v, e.anode)
      read == {w \in Versions : Size(w) = e.size /\ Len(blks) >= e.size /\
                                \A i \in 1..e.size : blks[i] \in Main /\ v.disk.data[blks[i]] = w}
  IN  IF e.dir THEN 0 ELSE IF read = {} THEN Torn ELSE CHOOSE w \in read : TRUE
TreeOf(v) == {<<x[1], Content(v, x[2])>> : x \in {y \in Nodes(v) : y[1] # <<>>}}

\* What the next call will find.
Now == Begin(vol)

-----------------------------------------------------------------------------
\* What format() leaves: an anode block and the block of the root directory.
Formatted ==
  [root |-> [res |-> Res \ {1, 2}, nres |-> NRes - 2, nfree |-> NMain],
   bits |-> Main, index |-> [s \in Seqs |-> IF s = 0 THEN 1 ELSE 0],
   blk |-> [b \in Res |->
              IF b = 1 THEN AnodeBlock([NoSlots EXCEPT ![0] = NewAnode,
                                          ![RootDir] = [cs |-> 1, bn |-> 2, nxt |-> 0]])
              ELSE IF b = 2 THEN DirBlock(RootDir, 0, <<>>) ELSE Blank],
   data |-> [b \in Main |-> 0]]

Called(op, p, q, err) == [op |-> op, path |-> p, to |-> q, err |-> err]

Init ==
  /\ media = Formatted
  /\ vol = Mounted(Formatted)
  /\ tree = {}
  /\ call = Called("none", <<>>, <<>>, "none")
  /\ kept = {}
  /\ mishap = FALSE
  /\ calls = 0

Paths == UNION {[1..k -> Names] : k \in 1..MaxDepth}

Ready == vol.out = <<>> /\ calls < MaxCalls
Touches(x, p) == IsPrefix(p, x[1]) \/ IsPrefix(x[1], p)
Untouched(t, ps) == {x \in t : \A p \in ps : p # <<>> => ~Touches(x, p)}

\* A write that finds no space or whose source fails is rolled back, one that
\* gets no reserved block or whose name is refused is not.
RolledBack(w) == w.err \in {"none", "full", "source", "exists"}

Return(w, op, p, q) ==
  /\ vol' = [w EXCEPT !.err = "none"]
  /\ tree' = TreeOf(Begin(w))
  /\ call' = Called(op, p, q, w.err)
  /\ kept' = Untouched(IF vol.bulk THEN kept ELSE tree, {p, q})
  /\ mishap' = (mishap \/ ~RolledBack(w))
  /\ calls' = IF calls < MaxCalls THEN calls + 1 ELSE calls
  /\ UNCHANGED media

HasParent(p) == Resolve(Now, Front(p)) # 0
EntryAt(p) == Entry(Now, Resolve(Now, Front(p)), Last(p))
Target(p) == HasParent(p) /\ Last(p) \in NamesIn(Now, Resolve(Now, Front(p)))

CallMkdir(p) ==
  LET d == Split(Now, p)
  IN  /\ Ready /\ HasParent(p) /\ ~Exists(Now, d, Last(p))
      /\ Return(MkdirAt(Now, p), "mkdir", p, <<>>)

CallMakedirs(p) == Ready /\ Return(Makedirs(vol, p), "makedirs", p, <<>>)

CallWrite(p, ver, sourceFails) ==
  LET d == Split(Now, p)
      old == Exists(Now, d, Last(p))
  IN  /\ Ready /\ HasParent(p) /\ (old => ~Entry(Now, d, Last(p)).dir)
      /\ sourceFails => Size(ver) > 0
      /\ Return(WriteFile(Lookup(Remember(Now, p), d), d, Last(p), ver, sourceFails),
                "write", p, <<>>)

CallDelete(p) ==
  LET d == Resolve(Now, Front(p))
  IN  /\ Ready /\ Target(p)
      /\ Return(Delete(ForgetSplit(Now), d, EntryAt(p)), "delete", p, <<>>)

CallRename(p, q) ==
  LET d == Resolve(Now, Front(p))
      v == ForgetSplit(Now)
      to == Split(v, q)
  IN  /\ Ready /\ Target(p) /\ HasParent(q)
      /\ Exists(v, to, Last(q)) => Entry(v, to, Last(q)).anode = EntryAt(p).anode
      /\ EntryAt(p).dir => ~IsPrefix(p, Front(q)) /\ Len(q) <= Len(p)
      /\ Return(Rename(Lookup(Remember(v, q), to), d, EntryAt(p), to, Last(q)),
                "rename", p, q)

CallEnterBulk == /\ Ready /\ ~vol.bulk
                 /\ Return(EnterBulk(vol), "bulk", <<>>, <<>>)
CallLeaveBulk == /\ vol.out = <<>> /\ vol.bulk
                 /\ Return(LeaveBulk(vol), "bulk", <<>>, <<>>)

DeviceWrite ==
  /\ vol.out # <<>>
  /\ media' = Put(media, Head(vol.out))
  /\ vol' = [vol EXCEPT !.out = Tail(@)]
  /\ UNCHANGED <<tree, call, kept, mishap, calls>>

Calls ==
  \E p \in Paths :
    \/ CallMkdir(p) \/ CallDelete(p)
    \/ \E ver \in Versions, fails \in BOOLEAN : CallWrite(p, ver, fails)
    \/ \E q \in Paths : CallRename(p, q)

Next == Calls \/ (\E p \in Paths : CallMakedirs(p)) \/ CallEnterBulk \/ CallLeaveBulk \/ DeviceWrite

Spec == Init /\ [][Next]_vars

-----------------------------------------------------------------------------
TypeOK ==
  /\ vol.bits \subseteq Main /\ media.bits \subseteq Main
  /\ \A r \in {vol.root, media.root} :
       r.res \subseteq Res /\ r.nres \in 0..NRes /\ r.nfree \in 0..NMain
  /\ \A a \in Anodes : Anode(vol, a) \in [cs : 0..NMain, bn : Res \cup Main \cup {0, NoBlock}, nxt : Anodes]
  /\ \A b \in Res : /\ media.blk[b].kind \in {"none", "dir", "anodes"}
                     /\ Len(media.blk[b].entries) <= Cap
  /\ vol.err = "none" /\ calls \in 0..MaxCalls

(* However the calls follow one another, what the next one works on is     *)
(* well formed: no anode, no directory block and no data block has two     *)
(* owners ("anode reused" is what check() looks for), none of them is      *)
(* free, and each directory block names its directory and its parent.      *)
UsedReserved(v) ==
  UNION {Range(DirBlocks(v, x[2].anode)) : x \in {y \in Nodes(v) : y[2].dir}}
    \cup (Range(v.disk.index) \ {0})
UsedMain(v) ==
  UNION {Range(DataBlocks(v, x[2].anode)) : x \in {y \in Nodes(v) : ~y[2].dir}}
UsedAnodes(v) == UNION {Range(Chain(v, x[2].anode)) : x \in Nodes(v)}
Apart(v) ==
  \A x, y \in Nodes(v) : x # y =>
    /\ Range(Chain(v, x[2].anode)) \cap Range(Chain(v, y[2].anode)) = {}
    /\ Range(DirBlocks(v, x[2].anode)) \cap Range(DirBlocks(v, y[2].anode)) = {}
Sound ==
  LET v == Now
  IN  /\ TypeOK
      /\ vol.out = <<>> =>
           /\ Apart(v)
           /\ UsedReserved(v) \cap v.root.res = {} /\ UsedMain(v) \cap v.bits = {}
           /\ \A a \in UsedAnodes(v) : Anode(v, a) # FreeAnode
           /\ \A x \in Nodes(v) : x[2].dir =>
                /\ Readable(v, x[2].anode)
                /\ \A b \in Range(DirBlocks(v, x[2].anode)) :
                     /\ v.disk.blk[b].self = x[2].anode
                     /\ v.disk.blk[b].parent =
                          IF x[1] = <<>> THEN 0 ELSE Resolve(v, Front(x[1]))

(* Nothing leaks: what the tree does not use is free, and both counters    *)
(* are exact, unless a call failed in one of the ways that the code does   *)
(* not roll back (tests/pfs3/test_write.py: "failed alloc must roll back   *)
(* cleanly"; README.md: "zero space leak").                                *)
SpaceExact ==
  LET v == Now
  IN  vol.out = <<>> /\ ~mishap =>
        /\ v.bits = Main \ UsedMain(v) /\ v.root.nfree = Cardinality(v.bits)
        /\ v.root.res = Res \ UsedReserved(v) /\ v.root.nres = Cardinality(v.root.res)
        /\ {a \in Anodes : Anode(v, a) # FreeAnode} = UsedAnodes(v) \cup {0}

(* The names, the tail and the parent remembered from earlier calls are    *)
(* those of directories that exist, and they are right: anode numbers are  *)
(* reused, "so caches must drop on directory delete/create"                *)
(* (doc/filesystem-performance.md).                                        *)
CachesCoherent ==
  LET v == Now
      dirs == {x[2].anode : x \in {y \in Nodes(v) : y[2].dir}}
  IN  vol.out = <<>> =>
      /\ \A d \in Anodes : v.names[d] # NoNames => d \in dirs /\ v.names[d] = NamesIn(v, d)
      /\ \A d \in Anodes : v.tail[d] # NoTail =>
           /\ d \in dirs /\ v.tail[d].bn \in Range(DirBlocks(v, d))
           /\ v.tail[d].end = Len(v.disk.blk[v.tail[d].bn].entries)
      /\ v.split # NoSplit => Resolve(v, v.split.key) = v.split.dir

(* Outside bulk mode a call that returned has left nothing in memory only, *)
(* but for a makedirs that had nothing to make: it does not begin, and so  *)
(* keeps what a call that failed had left there.                           *)
DurableOnReturn ==
  vol.out = <<>> /\ ~vol.bulk /\ call.err = "none" /\ call.op # "makedirs" =>
    media.root = vol.root /\ media.bits = vol.bits /\ Stored(media) = vol.ab

(* Wherever the process is killed, in bulk mode or not, every file and     *)
(* directory that no call has named since the medium was last complete is  *)
(* still found on it, with its data.                                       *)
Unharmed == kept \subseteq TreeOf(Mounted(media))

(* Each call does to the tree what its caller asked for, in bulk mode too. *)
FileTree == INSTANCE FileTree WITH
              call <- [op |-> call.op, path |-> call.path, to |-> call.to,
                       ok |-> call.err = "none"]
ImplementsFileTree == FileTree!Spec
=============================================================================
