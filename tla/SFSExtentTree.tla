--------------------------- MODULE SFSExtentTree ---------------------------
(***************************************************************************)
(* The extent B-tree of an SFS volume, fs/sfs.py: _add_extent and          *)
(* _insert_bnode, _remove_extent, _find_extent, and the callers that add   *)
(* the runs of a file and remove them.  The tree maps the first block of a *)
(* run to the first blocks of the file's next and previous runs.           *)
(*                                                                         *)
(* The tree lives in admin blocks; its root never moves.  A node with more *)
(* entries than fit is split and the new half linked into its parent; a    *)
(* leaf that becomes empty is taken out of its parent and freed.           *)
(*                                                                         *)
(* Run lengths travel with their key and are left out.                     *)
(***************************************************************************)
EXTENDS Integers, Sequences, SequencesExt, FiniteSetsExt

CONSTANTS
  Keys,                \* first blocks of runs
  MaxRuns,             \* runs of one file
  Root,                \* extentbnoderoot
  AdminBlocks,         \* the blocks _alloc_adminspace hands out
  LeafMax, IndexMax    \* entries of a node: 35 and 62 in a block of 512 bytes

ASSUME ExtentTreeAssumption ==
  /\ Keys \subseteq Nat \ {0} /\ AdminBlocks \subseteq Nat \ {0} /\ Root \notin AdminBlocks
  /\ MaxRuns \in Nat \ {0}
  /\ LeafMax \in Nat \ {0, 1} /\ IndexMax \in Nat \ {0, 1}

VARIABLES
  nodes,               \* the blocks of the tree: block -> [leaf, entries]
  heads,               \* entry.data of every file: the key of its first run
  used,                \* the runs that the bitmap marks
  contents,            \* what a reader then finds: the runs of each file
  answer

vars == <<nodes, heads, used, contents, answer>>

Leaf(entries) == [leaf |-> TRUE, entries |-> entries]
Index(entries) == [leaf |-> FALSE, entries |-> entries]
Extent(key, next, prev) == [key |-> key, next |-> next, prev |-> prev]
Pointer(key, block) == [key |-> key, to |-> block]

Room(node) == IF node.leaf THEN LeafMax ELSE IndexMax

\* Handlers work on a volume in the middle of a call.
Volume == [nodes |-> nodes, used |-> used, raised |-> FALSE]
Raised(v) == [v EXCEPT !.raised = TRUE]
Put(v, block, node) ==
  [v EXCEPT !.nodes = [b \in DOMAIN v.nodes \cup {block} |-> IF b = block THEN node ELSE v.nodes[b]]]
Drop(v, block) == [v EXCEPT !.nodes = [b \in DOMAIN v.nodes \ {block} |-> v.nodes[b]]]
Same == -1                               \* None, for a field that is not patched

FreeAdmin(v) == AdminBlocks \ DOMAIN v.nodes
NewAdmin(v) == Min(FreeAdmin(v))

-----------------------------------------------------------------------------
\* Searching: the last entry whose key is not above, or the first.
ChildAbove(entries, key) == Max({1} \cup {n \in DOMAIN entries : key > entries[n].key})   \* mutant
Child(entries, key) == Max({1} \cup {n \in DOMAIN entries : key >= entries[n].key})

Further(v, path, key) ==
  LET n == v.nodes[Last(path)]
  IN  IF n.leaf \/ n.entries = <<>> THEN path
      ELSE Append(path, n.entries[Child(n.entries, key)].to)

\* The blocks of a search from the root down, which are fewer than there are.
Path(v, key) ==
  LET Search[n \in 0..Cardinality(DOMAIN v.nodes)] ==
        IF n = 0 THEN <<Root>> ELSE Further(v, Search[n - 1], key)
  IN  Search[Cardinality(DOMAIN v.nodes)]

\* The search ends in a leaf; in an index without entries the code raises.
LeafOf(v, key) == Last(Path(v, key))
EndsInLeaf(v, key) == v.nodes[LeafOf(v, key)].leaf
Places(v, key) ==
  LET n == v.nodes[LeafOf(v, key)]
  IN  {i \in DOMAIN n.entries : n.leaf /\ n.entries[i].key = key}
Known(v, key) == Places(v, key) # {}
Found(v, key) == v.nodes[LeafOf(v, key)].entries[Min(Places(v, key))]

-----------------------------------------------------------------------------
\* _insert_bnode, from the leaf upwards.
Place(entries, e) ==
  InsertAt(entries, 1 + Max({0} \cup {n \in DOMAIN entries : e.key > entries[n].key}), e)

\* Of an odd number of entries the old node keeps one more.
Kept(entries) == Len(entries) - Len(entries) \div 2

\* A round puts the item into a block, or splits the block: then a pointer to
\* the new half is what is to be put into the parent.
Round(w, block) ==
  LET v     == w.vol
      e     == w.item
      node  == v.nodes[block]
      all   == node.entries
      left  == SubSeq(all, 1, Kept(all))
      right == SubSeq(all, Kept(all) + 1, Len(all))
      lower == e.key < right[1].key
      upper == IF lower THEN right ELSE Place(right, e)
      half  == [node EXCEPT !.entries = IF lower THEN Place(left, e) ELSE left]
      new   == NewAdmin(v)
  IN  IF w.done THEN w
      ELSE IF Len(all) < Room(node)
        THEN [w EXCEPT !.vol = Put(v, block, [node EXCEPT !.entries = Place(all, e)]), !.done = TRUE]
      ELSE IF FreeAdmin(v) = {} THEN [w EXCEPT !.vol = Raised(v), !.done = TRUE]
      ELSE [w EXCEPT !.vol = Put(Put(v, block, half), new, [node EXCEPT !.entries = upper]),
                     !.item = Pointer(upper[1].key, new)]

\* When the root was split its lower half moves, for the root itself stays.
Grown(w) ==
  LET v     == w.vol
      moved == NewAdmin(v)
  IN  IF w.done THEN v
      ELSE IF FreeAdmin(v) = {} THEN Raised(v)
      ELSE Put(Put(v, moved, v.nodes[Root]), Root, Index(<<Pointer(0, moved), w.item>>))

Insert(v, path, e) ==
  LET Rounds[n \in 0..Len(path)] ==
        IF n = 0 THEN [vol |-> v, item |-> e, done |-> FALSE]
        ELSE Round(Rounds[n - 1], path[Len(path) - n + 1])
  IN  Grown(Rounds[Len(path)])

AddExtent(v, e) ==
  IF v.raised \/ ~EndsInLeaf(v, e.key) THEN Raised(v) ELSE Insert(v, Path(v, e.key), e)

-----------------------------------------------------------------------------
\* An empty child leaves its parent and is freed; the loop then goes on with
\* the parent if it has one child left.
CollapseEarly(count) == count <= 2                                       \* mutant
CollapseFurther(count) == count - 1 = 0

TakenOut(w, block, child) ==
  LET all  == w.vol.nodes[block].entries
      rest == RemoveAt(all, Min({n \in DOMAIN all : all[n].to = child}))
  IN  IF ~w.more THEN w
      ELSE [vol  |-> Drop(Put(w.vol, block, Index(rest)), child),
            more |-> CollapseFurther(Len(rest))]

Collapse(v, path) ==
  LET Rounds[n \in 0..Len(path)-1] ==
        IF n = 0 THEN [vol |-> v, more |-> v.nodes[Last(path)].entries = <<>>]
        ELSE TakenOut(Rounds[n - 1], path[Len(path) - n], path[Len(path) - n + 1])
  IN  Rounds[Len(path) - 1].vol

\* _patch_extent_field; key 0 is the end of a chain.
Patched(e, next, prev) ==
  Extent(e.key, IF next = Same THEN e.next ELSE next, IF prev = Same THEN e.prev ELSE prev)

Patch(v, key, next, prev) ==
  LET leaf == LeafOf(v, key)
      all  == v.nodes[leaf].entries
      i    == Min(Places(v, key))
  IN  IF key = 0 \/ v.raised THEN v
      ELSE IF ~Known(v, key) THEN Raised(v)
      ELSE Put(v, leaf, Leaf([all EXCEPT ![i] = Patched(all[i], next, prev)]))

RemoveExtent(v, key) ==
  LET leaf == LeafOf(v, key)
      e    == Found(v, key)
      out  == Put(v, leaf, Leaf(RemoveAt(v.nodes[leaf].entries, Min(Places(v, key)))))
      tree == Collapse(out, Path(v, key))
  IN  IF ~Known(v, key) THEN Raised(v)
      ELSE Patch(Patch(tree, e.prev, e.next, Same), e.next, Same, e.prev)

-----------------------------------------------------------------------------
\* write_file: one extent per run, linked both ways.
ExtentOf(runs, i) ==
  Extent(runs[i], IF i < Len(runs) THEN runs[i + 1] ELSE 0, IF i > 1 THEN runs[i - 1] ELSE 0)

AddRuns(v, runs) ==
  LET Added[i \in 0..Len(runs)] ==
        IF i = 0 THEN [v EXCEPT !.used = @ \cup Range(runs)]
        ELSE AddExtent(Added[i - 1], ExtentOf(runs, i))
  IN  Added[Len(runs)]

\* _delete_file_data follows the chain that it removes.
RemoveNext(r) ==
  LET out == RemoveExtent(r.vol, r.key)
  IN  IF r.key = 0 \/ r.vol.raised THEN r
      ELSE IF out.raised THEN [r EXCEPT !.vol = out]
      ELSE [vol |-> [out EXCEPT !.used = @ \ {r.key}], key |-> Found(r.vol, r.key).next]

\* What is left of the chain of h, and of the volume, after n extents.
RemoveRuns(v, h, count) ==
  LET Left[n \in 0..MaxRuns] ==
        IF n = 0 THEN [vol |-> v, key |-> h] ELSE RemoveNext(Left[n - 1])
  IN  Left[count]

\* read_file and check follow the chain from the first run by _find_extent.
Follow(v, r) ==
  IF r.key = 0 THEN r
  ELSE IF ~Known(v, r.key) THEN [runs |-> Append(r.runs, 0), key |-> 0]
  ELSE [runs |-> Append(r.runs, r.key), key |-> Found(v, r.key).next]

ChainFrom(v, h) ==
  LET Read[n \in 0..MaxRuns+1] ==
        IF n = 0 THEN [runs |-> <<>>, key |-> h] ELSE Follow(v, Read[n - 1])
  IN  Read[MaxRuns + 1].runs
ReadBack(v, hs) == {ChainFrom(v, h) : h \in hs}

Finish(v, hs) ==
  /\ nodes' = v.nodes /\ used' = v.used
  /\ heads' = hs
  /\ contents' = ReadBack(v, hs)
  /\ answer' = IF v.raised THEN "raised" ELSE "ok"

Init == /\ nodes = [b \in {Root} |-> Leaf(<<>>)]
        /\ heads = {} /\ used = {} /\ contents = {} /\ answer = "ok"

WriteFile(runs) ==
  LET v == AddRuns(Volume, runs)
  IN  /\ \A i, j \in DOMAIN runs : runs[i] \notin used /\ (runs[i] = runs[j] => i = j)
      /\ Finish(v, IF v.raised THEN heads ELSE heads \cup {runs[1]})

DeleteFile(h) ==
  LET v == RemoveRuns(Volume, h, MaxRuns).vol
  IN  /\ h \in heads
      /\ Finish(v, IF v.raised THEN heads ELSE heads \ {h})

Writing == \E n \in 1..MaxRuns : \E runs \in [1..n -> Keys] : WriteFile(runs)
Next == Writing \/ \E h \in heads : DeleteFile(h)
Spec == Init /\ [][Next]_vars

\* Bound: the admin space has a block for every node.  A write that finds none
\* in the middle of a split leaves halves to which nothing points.
Roomy == Writing /\ answer' = "ok"

\* Bound: a leaf is emptied only where it is not the first of its parent, and
\* the parent keeps the children that the loop of _remove_extent takes for
\* granted (one in the root, two elsewhere).
Spared(v, key) ==
  LET path   == Path(v, key)
      leaf   == Last(path)
      parent == v.nodes[path[Len(path) - 1]].entries
  IN  key # 0 /\ Known(v, key) /\ Len(path) > 1 /\ Len(v.nodes[leaf].entries) = 1 =>
        parent[1].to # leaf /\ Len(parent) >= (IF Len(path) = 2 THEN 2 ELSE 3)
Spares(h) ==
  \A n \in 0..MaxRuns-1 :
    LET r == RemoveRuns(Volume, h, n)
    IN  Spared(r.vol, r.key)
SparingNext == Roomy \/ \E h \in heads : Spares(h) /\ DeleteFile(h)
SparingSpec == Init /\ [][SparingNext]_vars
-----------------------------------------------------------------------------
\* Nodes hold no more entries than fit into a block.
TypeOK ==
  /\ Root \in DOMAIN nodes /\ DOMAIN nodes \subseteq {Root} \cup AdminBlocks
  /\ \A b \in DOMAIN nodes : Len(nodes[b].entries) <= IF nodes[b].leaf THEN LeafMax ELSE IndexMax
  /\ heads \subseteq used /\ used \subseteq Keys
  /\ answer \in {"ok", "raised"}

\* The blocks that a walk from the root reaches.
Below ==
  LET Children(B) == {p.to : p \in UNION {Range(nodes[b].entries) : b \in {c \in B : ~nodes[c].leaf}}}
      Reached[n \in 0..Cardinality(DOMAIN nodes)] ==
        IF n = 0 THEN {Root} ELSE Reached[n - 1] \cup Children(Reached[n - 1])
  IN  Reached[Cardinality(DOMAIN nodes)]
Stored == UNION {{e.key : e \in Range(nodes[b].entries)} : b \in {c \in Below : nodes[c].leaf}}

\* Whatever the splits and the collapses before, the search for a stored key
\* ends in the leaf that stores it (_find_extent, _extent_leaf_of).
EveryKeyFound ==
  \A b \in Below : nodes[b].leaf =>
    \A e \in Range(nodes[b].entries) : LeafOf(Volume, e.key) = b

\* No node is lost: what _alloc_adminspace handed out to the tree is in it.
NoNodeLost == DOMAIN nodes = Below

\* The bitmap marks exactly the runs whose extents are in the tree.
SpaceExact == Stored = used

\* A call changes the files as asked, and every other file keeps its runs in
\* order, as a reader of the chain finds them.
Files == INSTANCE FileExtents WITH files <- contents
ImplementsFileExtents == Files!Spec

\* What the searches and the allocator of the admin space rest on, after every
\* call: nodes that fit, keys that are found, and nothing lost.
TreeSound == TypeOK /\ EveryKeyFound /\ NoNodeLost /\ SpaceExact
=============================================================================
