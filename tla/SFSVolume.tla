------------------------------ MODULE SFSVolume ------------------------------
(***************************************************************************)
(* A mounted SFS volume, class SFSVolume of fs/sfs.py.  An object lies in  *)
(* a container of its directory and has a node, which names the container; *)
(* the nodes of the objects in the root directory are chained from its     *)
(* hash table.  Every structure is written as soon as it changes; only the *)
(* free counter stays in memory in a bulk session.                         *)
(*                                                                         *)
(* As in PFS3Volume a handler is a function from a volume to a volume      *)
(* whose field `out` lists the block writes in order, and DeviceWrite      *)
(* makes one of them.  Every state is one the process may be killed in.    *)
(*                                                                         *)
(* Abstractions: the extent tree is a map (SFSExtentTree is about the      *)
(* tree) and takes no admin blocks; one administration container; one      *)
(* chain in the hash table, as if all names collided; a block of data      *)
(* holds one unit; an object takes one unit of a container or two; the     *)
(* .recycled directory, dates, comments and links are left out.            *)
(***************************************************************************)
EXTENDS Integers, Sequences, FiniteSets, SequencesExt

CONSTANTS NBlocks,      \* blocks 1..NBlocks after the fixed structures
          Region,       \* blocks of an admin space: 32
          MapBlocks,    \* blocks that one bitmap block covers
          Names,
          Long,         \* names that make an object of two units
          Refused,      \* names that _build_object refuses
          Versions,     \* what a file may hold: version v is v-1 blocks long
          LeafCap,      \* nodes of a leaf of the node tree
          IndexCap,     \* leaves of an index of the node tree
          Cap,          \* units of a container
          BulkEvery,    \* bulk(flush_every)
          CallPaths,    \* bound: the paths called with
          MaxDepth,     \* bound: the longest of them
          MaxCalls      \* bound: the calls of a behaviour

ASSUME SFSAssumption ==
  /\ {NBlocks, Region, MapBlocks, LeafCap, IndexCap, BulkEvery, MaxDepth} \subseteq Nat \ {0}
  /\ Cap \in Nat \ {0, 1} /\ Region < NBlocks
  /\ CallPaths \subseteq UNION {[1..k -> Names] : k \in 1..MaxDepth}
  /\ Long \subseteq Names /\ Refused \subseteq Names /\ Versions \subseteq Nat \ {0}

Blocks == 1..NBlocks            \* the first Region of them are admin space
RootCont == 1                   \* the first container of the root directory
RootNode == 1                   \* ROOTNODE
Nodes == 1..LeafCap*IndexCap
Size(ver) == ver - 1

VARIABLES
  vol,      \* the volume as the process knows it
  media,    \* the medium
  tree,     \* what a reader saw when the last call had returned
  call,     \* the last call, and what it raised
  kept,     \* what the call in progress does not name
  mishap,   \* a call failed in a way that the code does not roll back
  calls     \* how many calls were made

vars == <<vol, media, tree, call, kept, mishap, calls>>

-----------------------------------------------------------------------------
\* `first` of a directory is its first container, of a file its first extent.
DirObject(name, node, first) ==
  [name |-> name, dir |-> TRUE, node |-> node, first |-> first, size |-> 0]
FileObject(name, node, first, size) ==
  [name |-> name, dir |-> FALSE, node |-> node, first |-> first, size |-> size]

Blank == [kind |-> "none", parent |-> 0, next |-> 0, prev |-> 0, objs |-> <<>>]
Container(parent, prev, objs) ==
  [kind |-> "objc", parent |-> parent, next |-> 0, prev |-> prev, objs |-> objs]

NoHash == 0
FreeNode == [data |-> 0, next |-> 0, hash |-> NoHash]
Node(data, next, hash) == [data |-> data, next |-> next, hash |-> hash]

\* What a call knows of an object: its content and where it lies.
Entry(o, b, i) == [obj |-> o, blk |-> b, pos |-> i]
Root == Entry(DirObject(0, RootNode, RootCont), 0, 0)

\* Caches that know nothing.
NoNames == {0}
NoTail == [bn |-> 0, end |-> 0]

\* open()
Mounted(disk) ==
  [disk |-> disk, nfree |-> disk.count, cursor |-> 1, bulk |-> FALSE, ops |-> 0,
   names |-> [n \in Nodes |-> NoNames], tail |-> [n \in Nodes |-> NoTail],
   out |-> <<>>, err |-> "none"]

Put(disk, w) ==
  IF w.at = 0 THEN [disk EXCEPT ![w.to] = w.buf] ELSE [disk EXCEPT ![w.to][w.at] = w.buf]
Write(v, to, at, buf) ==
  LET w == [to |-> to, at |-> at, buf |-> buf]
  IN  [v EXCEPT !.disk = Put(@, w), !.out = Append(@, w)]

Raise(v, why) == [v EXCEPT !.err = why]
Then(v, w) == IF v.err = "none" THEN w ELSE v

-----------------------------------------------------------------------------
\* The bitmap and the free counter.
WriteCount(v) == Write(v, "count", 0, v.nfree)
Counted(v, n) ==
  LET w == [v EXCEPT !.nfree = n] IN IF v.bulk THEN w ELSE WriteCount(w)

MarkTwice(v, blks, free) == Counted(v, v.nfree)                     \* mutant
MarkSpace(v, blks, free) ==
  Counted(Write(v, "free", 0, IF free THEN v.disk.free \cup blks ELSE v.disk.free \ blks),
          IF free THEN v.nfree + Cardinality(blks) ELSE v.nfree - Cardinality(blks))

Run(start, n) == start .. start + n - 1

\* _alloc_blocks starts with the bitmap block in which it last ended and
\* takes the free blocks it meets.
ScanOrder(v) ==
  LET from == ((v.cursor - 1) \div MapBlocks) * MapBlocks
      start == IF from < NBlocks THEN from ELSE 0
  IN  [i \in 1..NBlocks |-> ((start + i - 1) % NBlocks) + 1]
FreeAhead(v) == SelectSeq(ScanOrder(v), LAMBDA b : b \in v.disk.free)
Runs(blks) ==
  FoldLeft(LAMBDA runs, b :
             IF runs # <<>> /\ Last(runs).start + Last(runs).n = b
             THEN Append(Front(runs), [Last(runs) EXCEPT !.n = @ + 1])
             ELSE Append(runs, [start |-> b, n |-> 1]),
           <<>>, blks)
TakeBlocks(v, runs) ==
  [FoldLeft(LAMBDA w, r : MarkSpace(w, Run(r.start, r.n), FALSE), v, runs)
     EXCEPT !.cursor = Last(runs).start + Last(runs).n]
ReleaseBlocks(v, runs) ==
  FoldLeft(LAMBDA w, r : MarkSpace(w, Run(r.start, r.n), TRUE), v, runs)

-----------------------------------------------------------------------------
\* Admin space: regions in the order they were added, the first free block of
\* the first that has one.  A new region is a run of free data blocks.
FreeIn(v, r) == Run(r, Region) \ v.disk.admin.taken
Roomy(v) == SelectSeq(v.disk.admin.regions, LAMBDA r : FreeIn(v, r) # {})
LowestIn(S) == CHOOSE b \in S : \A c \in S : b <= c
Stretches(v) == {b \in Blocks : Run(b, Region) \subseteq v.disk.free}

\* The block that TakeAdmin takes, if there is one.
HasAdmin(v) == Roomy(v) # <<>> \/ (Region <= v.nfree /\ Stretches(v) # {})
NextAdmin(v) ==
  IF Roomy(v) # <<>> THEN LowestIn(FreeIn(v, Roomy(v)[1])) ELSE LowestIn(Stretches(v))
AddRegion(v) ==
  LET r == LowestIn(Stretches(v))
      w == MarkSpace(v, Run(r, Region), FALSE)
  IN  Write(w, "admin", 0, [w.disk.admin EXCEPT !.regions = Append(@, r)])
TakeAdmin(v) ==
  LET b == NextAdmin(v)
      w == IF Roomy(v) = <<>> THEN AddRegion(v) ELSE v
  IN  IF ~HasAdmin(v) THEN Raise(v, "admin")
      ELSE Write(Write(w, "admin", 0, [w.disk.admin EXCEPT !.taken = @ \cup {b}]),
                 "cont", b, Blank)
FreeAdmin(v, b) == Write(v, "admin", 0, [v.disk.admin EXCEPT !.taken = @ \ {b}])

-----------------------------------------------------------------------------
\* The node tree: one leaf at first, then an index over leaves which notes
\* which of them are full.
LeafOf(n) == (n - 1) \div LeafCap + 1
InLeaf(i) == (i - 1) * LeafCap + 1 .. i * LeafCap
FreeNodes(v, i) == {n \in InLeaf(i) : v.disk.node[n].data = 0}
HasIndex(v) == v.disk.tree.leaves # <<>>
NLeaves(v) == IF HasIndex(v) THEN Len(v.disk.tree.leaves) ELSE 1
FullNoted(v, i) == HasIndex(v) /\ v.disk.tree.full[i]

FullNow(v, i) == FreeNodes(v, i) = {}
SetNode(v, n, node) ==
  LET w == Write(v, "node", n, node)
      i == LeafOf(n)
  IN  IF HasIndex(v) THEN Write(w, "tree", 0, [w.disk.tree EXCEPT !.full[i] = FullNow(w, i)])
      ELSE w

\* _alloc_objectnode finds a node and leaves it free.
Open(v) == {i \in 1..NLeaves(v) : ~FullNoted(v, i) /\ FreeNodes(v, i) # {}}
NextNode(v) ==
  IF Open(v) # {} THEN LowestIn(FreeNodes(v, LowestIn(Open(v))))
  ELSE NLeaves(v) * LeafCap + 1
AddIndex(v) ==
  LET w == TakeAdmin(v)
  IN  Then(w, Write(w, "tree", 0, [leaves |-> <<NextAdmin(v)>>, full |-> <<TRUE>>]))
AddLeaf(v) ==
  LET w == TakeAdmin(v)
      t == w.disk.tree
  IN  Then(w, Write(w, "tree", 0, [leaves |-> Append(t.leaves, NextAdmin(v)),
                                   full |-> Append(t.full, FALSE)]))
GrowTree(v) ==
  LET w == IF HasIndex(v) THEN v ELSE AddIndex(v)
  IN  IF Open(v) # {} THEN v ELSE Then(w, AddLeaf(w))

-----------------------------------------------------------------------------
\* Directories.
Chain(v, first) ==
  LET f[b \in Blocks \cup {0}, n \in 0..NBlocks] ==
        IF b = 0 \/ n = 0 THEN <<>> ELSE <<b>> \o f[v.disk.cont[b].next, n-1]
  IN  f[first, NBlocks]
EntriesOf(v, b) ==
  LET os == v.disk.cont[b].objs IN [i \in DOMAIN os |-> Entry(os[i], b, i)]
Containers(v, e) == Chain(v, e.obj.first)
Readable(v, e) == \A b \in Range(Containers(v, e)) : v.disk.cont[b].kind = "objc"
Entries(v, e) ==
  IF ~Readable(v, e) THEN <<>>
  ELSE FoldLeft(LAMBDA es, b : es \o EntriesOf(v, b), <<>>, Containers(v, e))
NamesIn(v, e) == {x.obj.name : x \in Range(Entries(v, e))}
Find(v, e, n) == SelectSeq(Entries(v, e), LAMBDA x : x.obj.name = n)[1]

\* resolve(), if there is what it looks for.
NoEntry == Entry(FileObject(0, 0, 0, 0), 0, 0)
Resolve(v, p) ==
  FoldLeft(LAMBDA e, n : IF e.obj.dir /\ n \in NamesIn(v, e) THEN Find(v, e, n) ELSE NoEntry, Root, p)

\* _find_parent_entry: by the node that the container names.
ParentOf(v, e) ==
  LET n == v.disk.cont[e.blk].parent
      data == v.disk.node[n].data
  IN  IF n = RootNode THEN Root
      ELSE SelectSeq(EntriesOf(v, data), LAMBDA x : x.obj.node = n)[1]

\* _dir_names and _dir_tail: the names of a directory, and a container of it
\* with the end of its objects, remembered by the node of the directory.
Known(v, e) == IF v.names[e.obj.node] = NoNames THEN NamesIn(v, e) ELSE v.names[e.obj.node]
Forget(v, n) == [v EXCEPT !.names[n] = NoNames, !.tail[n] = NoTail]
KeepNames(v, n) == v                                                \* mutant
ForgetDir(v, n) == Forget(v, n)

\* _locate asks the names first, and so fills their cache.
Lookup(v, e) == [v EXCEPT !.names[e.obj.node] = Known(v, e)]
Exists(v, e, n) == n \in Known(v, e) /\ n \in NamesIn(v, e)

Units(o) == IF o.name \in Long THEN 2 ELSE 1
Fill(objs) == FoldLeft(LAMBDA n, o : n + Units(o), 0, objs)
HasRoom(v, b, o) == Fill(v.disk.cont[b].objs) + Units(o) <= Cap
TailFits(v, e, o) ==
  LET t == v.tail[e.obj.node]
  IN  /\ t # NoTail /\ t.end + Units(o) <= Cap
      /\ v.disk.cont[t.bn].kind = "objc" /\ Fill(v.disk.cont[t.bn].objs) = t.end

\* The object is in container b: the caches follow.
Placed(v, e, b, o) ==
  [v EXCEPT !.tail[e.obj.node] = [bn |-> b, end |-> Fill(v.disk.cont[b].objs)],
            !.names[e.obj.node] = Known(v, e) \cup {o.name}]
PutObject(v, b, o) ==
  Write(v, "cont", b, [v.disk.cont[b] EXCEPT !.objs = Append(@, o)])

FirstContainer(v, e, o) ==
  LET b == NextAdmin(v)
      v1 == TakeAdmin(v)
      v2 == Write(v1, "cont", b, Container(e.obj.node, 0, <<o>>))
      v3 == Write(v2, "cont", e.blk, [v2.disk.cont[e.blk] EXCEPT !.objs[e.pos].first = b])
  IN  Then(v1, Placed(v3, [e EXCEPT !.obj.first = b], b, o))

LinkFirst(v, last, b, buf) ==                                       \* mutant
  LET w == Write(v, "cont", last, [v.disk.cont[last] EXCEPT !.next = b])
  IN  Write(w, "cont", b, buf)
LinkLast(v, last, b, buf) ==
  LET w == Write(v, "cont", b, buf)
  IN  Write(w, "cont", last, [w.disk.cont[last] EXCEPT !.next = b])
NextContainer(v, e, last, o) ==
  LET b == NextAdmin(v)
      v1 == TakeAdmin(v)
      buf == Container(v.disk.cont[last].parent, last, <<o>>)
  IN  Then(v1, Placed(LinkLast(v1, last, b, buf), e, b, o))

\* _insert_object: the remembered container, the first with room, a new one.
InsertObject(v, e, o) ==
  LET chain == Containers(v, e)
      roomy == SelectSeq(chain, LAMBDA b : HasRoom(v, b, o))
      t == v.tail[e.obj.node].bn
  IN  IF TailFits(v, e, o) THEN Placed(PutObject(v, t, o), e, t, o)
      ELSE IF chain = <<>> THEN FirstContainer(v, e, o)
      ELSE IF roomy # <<>> THEN Placed(PutObject(v, roomy[1], o), e, roomy[1], o)
      ELSE NextContainer(v, e, Last(chain), o)

\* A container that becomes empty leaves the chain unless it is the first.
UnlinkForward(v, b) ==                                              \* mutant
  LET c == v.disk.cont[b]
  IN  IF c.prev = 0 THEN v
      ELSE Write(v, "cont", c.prev, [v.disk.cont[c.prev] EXCEPT !.next = c.next])
UnlinkContainer(v, b) ==
  LET c == v.disk.cont[b]
      w == IF c.prev = 0 THEN v
           ELSE Write(v, "cont", c.prev, [v.disk.cont[c.prev] EXCEPT !.next = c.next])
  IN  IF c.next = 0 THEN w
      ELSE Write(w, "cont", c.next, [w.disk.cont[c.next] EXCEPT !.prev = c.prev])
RemoveObject(v, e, x) ==
  LET n == e.obj.node
      left == RemoveAt(v.disk.cont[x.blk].objs, x.pos)
      w == Write([v EXCEPT !.names[n] = IF @ = NoNames THEN @ ELSE @ \ {x.obj.name},
                           !.tail[n] = NoTail],
                 "cont", x.blk, [v.disk.cont[x.blk] EXCEPT !.objs = left])
  IN  IF left # <<>> \/ x.blk = e.obj.first THEN w
      ELSE FreeAdmin(UnlinkContainer(w, x.blk), x.blk)

-----------------------------------------------------------------------------
\* The hash table of the root directory; no other directory has one.
HashInsert(v, e, n, hash) ==
  LET w == SetNode(v, n, Node(v.disk.node[n].data, v.disk.htab, hash))
  IN  IF e.obj.node # RootNode THEN v ELSE Write(w, "htab", 0, n)

NodeChain(v) ==
  LET f[n \in Nodes \cup {0}, k \in 0..Cardinality(Nodes)] ==
        IF n = 0 \/ k = 0 THEN <<>> ELSE <<n>> \o f[v.disk.node[n].next, k-1]
  IN  f[v.disk.htab, Cardinality(Nodes)]

HashRemove(v, e, x) ==
  LET chain == NodeChain(v)
      n == x.obj.node
      i == CHOOSE k \in DOMAIN chain : chain[k] = n
      next == v.disk.node[n].next
      prev == chain[i-1]
  IN  IF e.obj.node # RootNode \/ n \notin Range(chain) THEN v
      ELSE IF i = 1 THEN Write(v, "htab", 0, next)
      ELSE SetNode(v, prev, [v.disk.node[prev] EXCEPT !.next = next])

-----------------------------------------------------------------------------
\* The extents of a file, in order: key and length.
ExtentChain(v, key) ==
  LET f[k \in Blocks \cup {0}, n \in 0..NBlocks] ==
        IF k = 0 \/ n = 0 THEN <<>>
        ELSE <<[start |-> k, n |-> v.disk.ext[k].n]>> \o f[v.disk.ext[k].next, n-1]
  IN  f[key, NBlocks]
NoExtent == [n |-> 0, next |-> 0]
AddExtents(v, runs) ==
  FoldLeft(LAMBDA w, i : Write(w, "ext", runs[i].start,
             [n |-> runs[i].n, next |-> IF i < Len(runs) THEN runs[i+1].start ELSE 0]),
           v, [i \in DOMAIN runs |-> i])
DeleteData(v, key) ==
  FoldLeft(LAMBDA w, r : MarkSpace(Write(w, "ext", r.start, NoExtent), Run(r.start, r.n), TRUE),
           v, ExtentChain(v, key))
WriteData(v, blks, ver) == FoldLeft(LAMBDA w, b : Write(w, "data", b, ver), v, blks)

-----------------------------------------------------------------------------
\* The handlers.  _build_object comes last but for the object itself.
Enter(v, e, o) == IF o.name \in Refused THEN Raise(v, "name") ELSE InsertObject(v, e, o)

\* The object that was entered into directory e last gets its node.
Register(v, e, n, name) ==
  HashInsert(SetNode(v, n, Node(v.tail[e.obj.node].bn, 0, name)), e, n, name)

\* _touch_volume
Touch(v) ==
  LET w == [v EXCEPT !.ops = (@ + 1) % BulkEvery]
  IN  IF ~v.bulk THEN v ELSE IF w.ops = 0 THEN WriteCount(w) ELSE w

Create(v, e, o) ==
  LET w == Enter(v, e, o) IN Then(w, Touch(Register(w, e, o.node, o.name)))

Mkdir(v, e, name) ==
  LET n == NextNode(v)
      w == GrowTree(v)
  IN  Then(w, Create(Forget(w, n), e, DirObject(name, n, 0)))

FreeContainers(v, x) == FoldLeft(FreeAdmin, v, Containers(v, x))

\* _delete_by_name; the children of a directory go one by one.
RECURSIVE DeleteByName(_, _, _)
DeleteByName(v, e, name) ==
  LET x == Find(v, e, name)
      v1 == Lookup(v, e)
      v2 == FoldLeft(LAMBDA w, c : DeleteByName(w, Find(w, e, name), c.obj.name), v1, Entries(v, x))
      v3 == IF x.obj.dir THEN FreeContainers(v2, x) ELSE DeleteData(v1, x.obj.first)
      v4 == SetNode(HashRemove(v3, e, x), x.obj.node, FreeNode)
  IN  RemoveObject(ForgetDir(v4, x.obj.node), e, x)

Delete(v, e, name) == Touch(DeleteByName(v, e, name))

\* The blocks of a file.  A source that fails has been written as far as it
\* went, into blocks that are given back.
Store(v, ver, sourceFails) ==
  LET blks == SubSeq(FreeAhead(v), 1, Size(ver))
      runs == Runs(blks)
      w == TakeBlocks(v, runs)
  IN  IF Size(ver) = 0 THEN v
      ELSE IF Size(ver) > v.nfree \/ Size(ver) > Cardinality(v.disk.free) THEN Raise(v, "full")
      ELSE IF sourceFails
           THEN Raise(ReleaseBlocks(WriteData(w, Front(blks), ver), runs), "source")
      ELSE AddExtents(WriteData(w, blks, ver), runs)

\* A file that is replaced is deleted first.
WriteFile(v, e, name, ver, sourceFails, p) ==
  LET old == Exists(v, e, name)
      v1 == IF old THEN Delete(v, ParentOf(v, Find(v, e, name)), name) ELSE v
      n == NextNode(v1)
      v2 == GrowTree(v1)
      first == IF Size(ver) = 0 THEN 0 ELSE FreeAhead(v2)[1]
      v3 == Then(v2, Store(v2, ver, sourceFails))
  IN  Then(v3, Create(v3, Resolve(v3, Front(p)), FileObject(name, n, first, Size(ver))))

\* rename: out of the old directory, into the new one, as it is found then.
ResolvedBefore(v, w, q) == Resolve(v, Front(q))                     \* mutant
NewParent(v, w, q) == Resolve(w, Front(q))
Rename(v, x, q) ==
  LET from == ParentOf(v, x)
      v1 == RemoveObject(HashRemove(v, from, x), from, x)
      v2 == Enter(v1, NewParent(v, v1, q), [x.obj EXCEPT !.name = Last(q)])
      v3 == Register(v2, NewParent(v, v1, q), x.obj.node, Last(q))
  IN  Then(v2, Touch(v3))

EnterBulk(v) == [v EXCEPT !.bulk = TRUE, !.ops = 0]
LeaveBulk(v) == WriteCount([v EXCEPT !.bulk = FALSE])

-----------------------------------------------------------------------------
\* What a walk from the root meets: <<path, entry>> pairs.
Walk(v) ==
  LET T[k \in 0..MaxDepth] ==
        IF k = 0 THEN {<< <<>>, Root >>}
        ELSE T[k-1] \cup UNION {{<<Append(x[1], c.obj.name), c>> : c \in Range(Entries(v, x[2]))} :
                                x \in {y \in T[k-1] : y[2].obj.dir}}
  IN  T[MaxDepth]

\* What a reader of the volume sees.
Torn == -1
DataBlocks(v, e) == UNION {Run(r.start, r.n) : r \in Range(ExtentChain(v, e.obj.first))}
Content(v, e) ==
  LET held == DataBlocks(v, e)
      read == {w \in Versions : Size(w) = e.obj.size /\ Cardinality(held) >= Size(w) /\
                                \A b \in held : v.disk.data[b] = w}
  IN  IF e.obj.dir THEN 0 ELSE IF read = {} THEN Torn ELSE CHOOSE w \in read : TRUE
TreeOf(v) == {<<x[1], Content(v, x[2])>> : x \in {y \in Walk(v) : y[1] # <<>>}}

-----------------------------------------------------------------------------
\* What format() leaves: a first admin space with the root directory in it.
Formatted ==
  [free |-> Region+1..NBlocks, count |-> NBlocks - Region,
   admin |-> [regions |-> <<1>>, taken |-> {RootCont}],
   cont |-> [b \in Blocks |-> IF b = RootCont THEN Container(RootNode, 0, <<>>) ELSE Blank],
   node |-> [n \in Nodes |-> IF n = RootNode THEN Node(RootCont, 0, NoHash) ELSE FreeNode],
   tree |-> [leaves |-> <<>>, full |-> <<>>], htab |-> 0,
   ext |-> [b \in Blocks |-> NoExtent], data |-> [b \in Blocks |-> 0]]

Called(op, p, q, err) == [op |-> op, path |-> p, to |-> q, err |-> err]

Init ==
  /\ media = Formatted
  /\ vol = Mounted(Formatted)
  /\ tree = {}
  /\ call = Called("none", <<>>, <<>>, "none")
  /\ kept = {}
  /\ mishap = FALSE
  /\ calls = 0

Ready == vol.out = <<>> /\ calls < MaxCalls
Touches(x, p) == IsPrefix(p, x[1]) \/ IsPrefix(x[1], p)
Untouched(t, ps) == {x \in t : \A p \in ps : p # <<>> => ~Touches(x, p)}

\* A write that finds no space or whose source fails is rolled back, a call
\* that gets no admin block or whose name is refused is not.
RolledBack(w) == w.err \in {"none", "full", "source"}

Return(w, op, p, q) ==
  /\ vol' = [w EXCEPT !.err = "none"]
  /\ tree' = TreeOf(w)
  /\ call' = Called(op, p, q, w.err)
  /\ kept' = Untouched(tree, {p, q})
  /\ mishap' = (mishap \/ ~RolledBack(w))
  /\ calls' = IF calls < MaxCalls THEN calls + 1 ELSE calls
  /\ UNCHANGED media

Parent(p) == Resolve(vol, Front(p))
HasParent(p) == Parent(p).obj.dir
Target(p) == HasParent(p) /\ Exists(vol, Parent(p), Last(p))

CallMkdir(p) ==
  /\ Ready /\ HasParent(p) /\ ~Exists(vol, Parent(p), Last(p))
  /\ Return(Mkdir(Lookup(vol, Parent(p)), Parent(p), Last(p)), "mkdir", p, <<>>)

CallWrite(p, ver, sourceFails) ==
  /\ Ready /\ HasParent(p)
  /\ Exists(vol, Parent(p), Last(p)) => ~Find(vol, Parent(p), Last(p)).obj.dir
  /\ sourceFails => Size(ver) > 0
  /\ Return(WriteFile(Lookup(vol, Parent(p)), Parent(p), Last(p), ver, sourceFails, p),
            "write", p, <<>>)

CallDelete(p) ==
  /\ Ready /\ Target(p)
  /\ Return(Delete(vol, Parent(p), Last(p)), "delete", p, <<>>)

CallRename(p, q) ==
  LET x == Resolve(vol, p)
  IN  /\ Ready /\ HasParent(p) /\ Last(p) \in NamesIn(vol, Parent(p)) /\ HasParent(q)
      /\ Exists(vol, Parent(q), Last(q)) =>
           Find(vol, Parent(q), Last(q)).obj.node = x.obj.node
      /\ x.obj.dir => ~IsPrefix(p, Front(q)) /\ Len(q) <= Len(p)
      /\ Return(Rename(Lookup(vol, Parent(q)), x, q), "rename", p, q)

CallEnterBulk == /\ Ready /\ ~vol.bulk
                 /\ Return(EnterBulk(vol), "bulk", <<>>, <<>>)
CallLeaveBulk == /\ vol.out = <<>> /\ vol.bulk
                 /\ Return(LeaveBulk(vol), "bulk", <<>>, <<>>)

DeviceWrite ==
  /\ vol.out # <<>>
  /\ media' = Put(media, Head(vol.out))
  /\ vol' = [vol EXCEPT !.out = Tail(@)]
  /\ UNCHANGED <<tree, call, kept, mishap, calls>>

Calls ==
  \E p \in CallPaths :
    \/ CallMkdir(p) \/ CallDelete(p)
    \/ \E ver \in Versions, fails \in BOOLEAN : CallWrite(p, ver, fails)
    \/ \E q \in CallPaths : CallRename(p, q)

Next == Calls \/ CallEnterBulk \/ CallLeaveBulk \/ DeviceWrite

Spec == Init /\ [][Next]_vars

-----------------------------------------------------------------------------
TypeOK ==
  /\ vol.disk.free \subseteq Blocks /\ media.free \subseteq Blocks
  /\ vol.nfree \in 0..NBlocks /\ media.count \in 0..NBlocks
  /\ \A b \in Blocks :
       LET c == media.cont[b]
       IN  c.kind \in {"none", "objc"} /\ c.parent \in Nodes \cup {0} /\ Fill(c.objs) <= Cap
  /\ \A n \in Nodes : media.node[n].data \in Blocks \cup {0} /\ media.node[n].next \in Nodes \cup {0}
  /\ vol.err = "none" /\ calls \in 0..MaxCalls

(* However the calls follow one another, in bulk mode too, what check()    *)
(* looks for holds on the volume when a call has returned: every object is *)
(* found through a node of its own, which names its container and its      *)
(* hash, and those of the root directory, and no other, are on its hash    *)
(* chain.  Besides, containers are chained both ways, name their directory *)
(* and are nobody else's, and the index knows which leaves are full.       *)
Sound ==
  LET v == vol
      dirs == {x[2] : x \in {y \in Walk(v) : y[2].obj.dir}}
  IN  /\ TypeOK
      /\ vol.out = <<>> =>
           /\ \A x, y \in Walk(v) : x # y => x[2].obj.node # y[2].obj.node
           /\ \A x \in Walk(v) : x[1] # <<>> =>
                /\ v.disk.node[x[2].obj.node].data = x[2].blk
                /\ v.disk.node[x[2].obj.node].hash = Last(x[1])
           /\ IsInjective(NodeChain(v))
           /\ Range(NodeChain(v)) = {x.obj.node : x \in Range(Entries(v, Root))}
           /\ \A d, e \in dirs : d # e => Range(Containers(v, d)) \cap Range(Containers(v, e)) = {}
           /\ \A d \in dirs :
                LET c == Containers(v, d)
                IN  /\ Readable(v, d)
                    /\ \A i \in DOMAIN c :
                         /\ v.disk.cont[c[i]].parent = d.obj.node
                         /\ v.disk.cont[c[i]].prev = IF i = 1 THEN 0 ELSE c[i-1]
                         /\ i > 1 => v.disk.cont[c[i]].objs # <<>>
           /\ \A i \in DOMAIN v.disk.tree.full : v.disk.tree.full[i] = (FreeNodes(v, i) = {})

(* Nothing leaks: the bitmap, the free counter, the admin spaces, the      *)
(* nodes and the extents in use are those of the tree, unless a call       *)
(* failed in one of the ways that the code does not roll back (README.md:  *)
(* "zero space leak").  In a bulk session only the counter on the disk is  *)
(* late, and not after it.                                                 *)
SpaceExact ==
  LET v == vol
      walk == Walk(v)
      regions == UNION {Run(r, Region) : r \in Range(v.disk.admin.regions)}
      files == {x \in walk : ~x[2].obj.dir}
  IN  vol.out = <<>> /\ ~mishap =>
      /\ v.disk.free = Blocks \ (regions \cup UNION {DataBlocks(v, x[2]) : x \in files})
      /\ v.nfree = Cardinality(v.disk.free)
      /\ ~v.bulk => v.disk.count = v.nfree
      /\ v.disk.admin.taken = Range(v.disk.tree.leaves) \cup
                              UNION {Range(Containers(v, x[2])) : x \in {y \in walk : y[2].obj.dir}}
      /\ {n \in Nodes : v.disk.node[n].data # 0} = {x[2].obj.node : x \in walk}
      /\ {b \in Blocks : v.disk.ext[b] # NoExtent} =
           UNION {{r.start : r \in Range(ExtentChain(v, x[2].obj.first))} : x \in files}

(* The names and the tails remembered from earlier calls are those of      *)
(* directories that exist, and they are right: node numbers are reused for *)
(* files and directories, admin blocks for containers of any of them.      *)
CachesCoherent ==
  LET v == vol
      dirs == {x[2] : x \in {y \in Walk(v) : y[2].obj.dir}}
  IN  vol.out = <<>> =>
      \A n \in Nodes :
        /\ v.names[n] # NoNames => \E d \in dirs : d.obj.node = n /\ v.names[n] = NamesIn(v, d)
        /\ v.tail[n] # NoTail =>
             \E d \in dirs : d.obj.node = n /\ v.tail[n].bn \in Range(Containers(v, d))

(* Wherever the process is killed, in bulk mode or not, every file and     *)
(* directory that the call in progress does not name is still found, with  *)
(* its data.                                                               *)
Unharmed == kept \subseteq TreeOf(Mounted(media))

(* Each call does to the tree what its caller asked for, in bulk mode too. *)
FileTree == INSTANCE FileTree WITH
              call <- [op |-> call.op, path |-> call.path, to |-> call.to,
                       ok |-> call.err = "none"]
ImplementsFileTree == FileTree!Spec
=============================================================================
