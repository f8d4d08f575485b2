-------------------------- MODULE FFSVolumeProofs --------------------------
(***************************************************************************)
(* What an OFS/FFS volume keeps across every sequence of calls and kills,  *)
(* whatever its size, its names and its DOS type: the writes on their way  *)
(* to the medium are all that it lacks, bm_flag is cleared for as long as  *)
(* a bulk session lasts, and a repair loses nothing.                       *)
(*                                                                         *)
(* None of it depends on the tree being sound.  The argument goes through  *)
(* every operator of FFSVolume: each of them leads from a volume whose     *)
(* pending writes make up for what the medium lacks (Sane) to another one. *)
(***************************************************************************)
EXTENDS FFSVolume, FiniteSetTheorems, NaturalsInduction, WellFoundedInduction, TLAPS

-----------------------------------------------------------------------------
(* Induction, recursion and smallest elements *)

\* What holds of 0 and of each successor holds of every natural number.
LEMMA VolumeInduction ==
  ASSUME NEW T, 0 \in T, \A n \in Nat : n \in T => n + 1 \in T
  PROVE  \A n \in Nat : n \in T
<1> SUFFICES ASSUME NEW z \in Nat, z \notin T PROVE FALSE
  OBVIOUS
<1> DEFINE C == {n \in Nat : n \notin T}
<1>1. C \subseteq Nat /\ C # {}
  OBVIOUS
<1> HIDE DEF C
<1>2. PICK x \in C : \A y \in C : ~(<<y, x>> \in OpToRel(<, Nat))
  BY <1>1, NatLessThanWellFounded, WFMin
<1>3. \A y \in C : ~(y < x)
  BY <1>1, <1>2 DEF OpToRel
<1>4. x \in Nat /\ x \notin T /\ x # 0 /\ x - 1 \in Nat
  BY DEF C
<1>5. x - 1 \in T
  BY <1>3, <1>4 DEF C
<1>6. (x - 1) + 1 = x
  BY <1>4
<1> QED BY <1>4, <1>5, <1>6

\* There is a function that is built up from 0 to N by steps g.
LEMMA Built ==
  ASSUME NEW X, NEW x0 \in X, NEW N \in Nat, NEW g \in [1..N -> [X -> X]]
  PROVE  \E f \in [0..N -> X] : f[0] = x0 /\ \A n \in 1..N : f[n] = g[n][f[n - 1]]
<1> DEFINE T == {k \in Nat : k <= N =>
                   \E f \in [0..k -> X] :
                     f[0] = x0 /\ \A n \in 1..k : f[n] = g[n][f[n - 1]]}
<1>1. 0 \in T
  <2> DEFINE f == [n \in 0..0 |-> x0]
  <2>1. f \in [0..0 -> X] /\ f[0] = x0 /\ 1..0 = {}
    OBVIOUS
  <2> HIDE DEF f
  <2> QED BY <2>1
<1>2. ASSUME NEW k \in Nat, k \in T PROVE k + 1 \in T
  <2> SUFFICES ASSUME k + 1 <= N
               PROVE  \E f \in [0..k+1 -> X] :
                        f[0] = x0 /\ \A n \in 1..k+1 : f[n] = g[n][f[n - 1]]
    OBVIOUS
  <2>1. PICK f \in [0..k -> X] : f[0] = x0 /\ \A n \in 1..k : f[n] = g[n][f[n - 1]]
    BY <1>2
  <2> DEFINE h == [n \in 0..k+1 |-> IF n <= k THEN f[n] ELSE g[k + 1][f[k]]]
  <2>2. g[k + 1][f[k]] \in X
    <3>1. f[k] \in X /\ k + 1 \in 1..N
      OBVIOUS
    <3> QED BY <3>1
  <2>3. h \in [0..k+1 -> X]
    BY <2>2
  <2>4. h[0] = x0 /\ \A n \in 0..k : h[n] = f[n]
    BY <2>1
  <2>5. h[k + 1] = g[k + 1][f[k]]
    OBVIOUS
  <2> HIDE DEF h
  <2>6. ASSUME NEW n \in 1..k+1 PROVE h[n] = g[n][h[n - 1]]
    <3>1. CASE n <= k
      <4>1. n \in 1..k /\ n \in 0..k /\ n - 1 \in 0..k
        BY <3>1
      <4> QED BY <4>1, <2>1, <2>4
    <3>2. CASE n = k + 1
      <4>1. n - 1 = k /\ k \in 0..k
        BY <3>2
      <4> QED BY <3>2, <4>1, <2>4, <2>5
    <3> QED BY <3>1, <3>2
  <2> QED BY <2>3, <2>4, <2>6
<1> HIDE DEF T
<1>3. N \in T
  BY <1>1, <1>2, VolumeInduction
<1> QED BY <1>3 DEF T

\* The same, with names for what it takes and gives.
Steps(X, N) == [1..N -> [X -> X]]
BuiltUp(f, X, x0, N, g) ==
  f \in [0..N -> X] /\ f[0] = x0 /\ \A n \in 1..N : f[n] = g[n][f[n - 1]]

LEMMA BuiltUpExists ==
  ASSUME NEW X, NEW x0 \in X, NEW N \in Nat, NEW g \in Steps(X, N)
  PROVE  \E f : BuiltUp(f, X, x0, N, g)
<1>1. g \in [1..N -> [X -> X]]
  BY DEF Steps
<1>2. PICK f \in [0..N -> X] : f[0] = x0 /\ \A n \in 1..N : f[n] = g[n][f[n - 1]]
  BY <1>1, Built
<1> QED BY <1>2 DEF BuiltUp

\* Where every argument has a natural number, one argument has the least.
LEMMA Least ==
  ASSUME NEW S, S # {}, NEW f \in [S -> Nat]
  PROVE  \E b \in S : \A c \in S : f[b] <= f[c]
<1> DEFINE C == {f[b] : b \in S}
<1>1. C \subseteq Nat /\ C # {}
  OBVIOUS
<1> HIDE DEF C
<1>2. PICK x \in C : \A y \in C : ~(<<y, x>> \in OpToRel(<, Nat))
  BY <1>1, NatLessThanWellFounded, WFMin
<1>3. \A y \in C : ~(y < x)
  BY <1>1, <1>2 DEF OpToRel
<1>4. PICK b \in S : x = f[b]
  BY DEF C
<1>5. ASSUME NEW c \in S PROVE f[b] <= f[c]
  <2>1. f[c] \in C /\ f[c] \in Nat /\ f[b] \in Nat
    BY DEF C
  <2> QED BY <2>1, <1>3, <1>4
<1> QED BY <1>5

-----------------------------------------------------------------------------
(* What volumes are made of *)

Block == Blk \ {Root}
NoName == Names \cup {0}
NameCache == UNION {[D -> SUBSET NoName] : D \in SUBSET Blk}
PathCache == UNION {[D -> Blk] : D \in SUBSET Seq(Names)}
Dirty == [blk : Blk, buf : BufType]
Pending == Dirty \cup [blk : {0}, buf : SUBSET Block]
Errors == {"none", "full", "chain", "source", "exists"}
Bufs == [Blk -> BufType]
Volume ==
  [flavor : 0..7, disk : Bufs, bits : SUBSET Block, free : SUBSET Block,
   cursor : 1..NBlocks+1, bulk : BOOLEAN, dirs : Seq(Dirty), ops : Nat,
   names : NameCache, paths : PathCache, made : Seq(Names), out : Seq(Pending),
   err : Errors]
Entries == [blk : Block, kind : {"none", "root", "dir", "file", "data", "cache", "note"},
            name : NoName, parent : 0..NBlocks, next : Ptr, note : Ptr]

\* The constants are what the model takes them for.
LEMMA Sizes ==
  /\ NBlocks \in Nat /\ Root \in Blk /\ Root + 1 \in Block /\ 0 \notin Blk
  /\ Blk \subseteq 0..NBlocks /\ Ptr = Block \cup {0} /\ 0 \notin Block
  /\ \A n \in NoName : Hash(n) \in Buckets
  /\ BulkEvery \in Nat \ {0}
<1>1. NBlocks \in Nat /\ Root \in 1..NBlocks-1 /\ NBuckets \in Nat \ {0} /\ NoName \subseteq Nat
      /\ BulkEvery \in Nat \ {0}
  BY VolumeAssumption DEF NoName
<1>2. \A n \in NoName : Hash(n) \in Buckets
  BY <1>1 DEF Hash, Buckets
<1> QED BY <1>1, <1>2 DEF Blk, Block, Ptr

\* The blocks of a chain are blocks of the volume other than the root.
LEMMA ChainBlocks ==
  ASSUME NEW bufs \in Bufs, NEW first \in Ptr
  PROVE  Chain(bufs, first) \in Seq(Block)
<1> DEFINE X == {y \in [0..NBlocks -> Seq(Blk)] : \A b \in Ptr : y[b] \in Seq(Block)}
           N == NBlocks + 1
           Layer(g) == [b \in 0..NBlocks |->
                          IF b = 0 THEN <<>> ELSE <<b>> \o g[bufs[b].next]]
           Eqn(f) == f = [n \in 0..N |->
                            [b \in 0..NBlocks |-> IF b = 0 \/ n = 0 THEN <<>>
                                                  ELSE <<b>> \o f[n-1][bufs[b].next]]]
           h == CHOOSE f : Eqn(f)
           none == [b \in 0..NBlocks |-> <<>>]
<1>1. NBlocks \in Nat /\ N \in Nat /\ Ptr \subseteq 0..NBlocks /\ Block \subseteq Blk
      /\ 0..NBlocks = Blk \cup {0} /\ Ptr = Block \cup {0}
  BY Sizes DEF Ptr, Block, Blk
<1>2. \A b \in Blk : bufs[b].next \in Ptr
  BY DEF Bufs, BufType
<1>3. ASSUME NEW g \in X PROVE Layer(g) \in X
  <2>1. ASSUME NEW b \in 0..NBlocks
        PROVE  (IF b = 0 THEN <<>> ELSE <<b>> \o g[bufs[b].next]) \in Seq(Blk)
    <3>1. CASE b = 0
      BY <3>1
    <3>2. CASE b # 0
      <4>1. b \in Blk /\ bufs[b].next \in 0..NBlocks
        BY <3>2, <1>1, <1>2
      <4>2. g[bufs[b].next] \in Seq(Blk) /\ <<b>> \in Seq(Blk)
        BY <4>1
      <4> QED BY <3>2, <4>2
    <3> QED BY <3>1, <3>2
  <2>2. ASSUME NEW b \in Ptr
        PROVE  (IF b = 0 THEN <<>> ELSE <<b>> \o g[bufs[b].next]) \in Seq(Block)
    <3>1. CASE b = 0
      BY <3>1
    <3>2. CASE b # 0
      <4>1. b \in Block /\ bufs[b].next \in Ptr
        BY <3>2, <1>1, <1>2
      <4>2. g[bufs[b].next] \in Seq(Block) /\ <<b>> \in Seq(Block)
        BY <4>1
      <4> QED BY <3>2, <4>2
    <3> QED BY <3>1, <3>2
  <2>3. \A b \in Ptr : Layer(g)[b] = IF b = 0 THEN <<>> ELSE <<b>> \o g[bufs[b].next]
    BY <1>1
  <2> HIDE DEF Layer
  <2>4. Layer(g) \in [0..NBlocks -> Seq(Blk)]
    BY <2>1 DEF Layer
  <2>5. \A b \in Ptr : Layer(g)[b] \in Seq(Block)
    BY <2>2, <2>3
  <2> QED BY <2>4, <2>5
<1>4. none \in X
  <2>1. none \in [0..NBlocks -> Seq(Blk)] /\ \A b \in Ptr : none[b] \in Seq(Block)
    BY <1>1
  <2> HIDE DEF none
  <2> QED BY <2>1
<1>5. \E f : Eqn(f)
  <2> DEFINE g == [n \in 1..N |-> [x \in X |-> Layer(x)]]
  <2>1. g \in [1..N -> [X -> X]]
    <3> HIDE DEF X, Layer
    <3> QED BY <1>3
  <2>2. PICK f \in [0..N -> X] : f[0] = none /\ \A n \in 1..N : f[n] = g[n][f[n - 1]]
    <3> HIDE DEF X, g, none, N
    <3> QED BY <1>1, <1>4, <2>1, Built
  <2>3. \A n \in 1..N : f[n - 1] \in X /\ f[n] = Layer(f[n - 1])
    <3> HIDE DEF X, Layer
    <3> TAKE n \in 1..N
    <3>1. n - 1 \in 0..N
      BY <1>1
    <3>2. f[n - 1] \in X
      BY <2>2, <3>1
    <3>3. g[n] = [x \in X |-> Layer(x)]
      OBVIOUS
    <3> QED BY <2>2, <3>2, <3>3
  <2>4. ASSUME NEW n \in 0..N
        PROVE  f[n] = [b \in 0..NBlocks |-> IF b = 0 \/ n = 0 THEN <<>>
                                            ELSE <<b>> \o f[n-1][bufs[b].next]]
    <3>1. CASE n = 0
      BY <2>2, <3>1
    <3>2. CASE n # 0
      <4>1. n \in 1..N
        BY <3>2, <1>1
      <4> QED BY <3>2, <4>1, <2>3
    <3> QED BY <3>1, <3>2
  <2>5. Eqn(f)
    <3>1. f \in [0..N -> X]
      BY <2>2
    <3> HIDE DEF X, N
    <3> QED BY <3>1, <2>4
  <2> HIDE DEF Eqn
  <2> QED BY <2>5
<1>6. Eqn(h)
  <2> HIDE DEF Eqn
  <2> QED BY <1>5
<1> HIDE DEF h
<1> DEFINE T == {k \in Nat : k <= N => h[k] \in X}
<1>7. 0 \in T
  <2>1. h[0] = none
    BY <1>1, <1>6
  <2> QED BY <1>4, <2>1
<1>8. ASSUME NEW n \in Nat, n \in T PROVE n + 1 \in T
  <2> SUFFICES ASSUME n + 1 <= N PROVE h[n + 1] \in X
    OBVIOUS
  <2>1. h[n] \in X
    <3>1. n <= N
      BY <1>1
    <3> HIDE DEF X, N
    <3> QED BY <1>8, <3>1
  <2>2. h[n + 1] = Layer(h[n])
    <3>1. n + 1 \in 0..N /\ n + 1 # 0 /\ (n + 1) - 1 = n
      BY <1>1
    <3>2. h[n + 1] = [b \in 0..NBlocks |-> IF b = 0 \/ n + 1 = 0 THEN <<>>
                                           ELSE <<b>> \o h[(n + 1) - 1][bufs[b].next]]
      <4> HIDE DEF N
      <4> QED BY <1>6, <3>1
    <3> QED BY <3>1, <3>2
  <2> HIDE DEF X, Layer
  <2> QED BY <1>3, <2>1, <2>2
<1>9. h[N] \in X
  <2> HIDE DEF X
  <2>1. N \in T
    <3> HIDE DEF T
    <3> QED BY <1>1, <1>7, <1>8, VolumeInduction
  <2> QED BY <2>1, <1>1
<1>10. Chain(bufs, first) = h[N][first]
  BY DEF Chain, h
<1> QED BY <1>9, <1>10

-----------------------------------------------------------------------------
(* Volumes whose pending writes make up for what the medium lacks *)

\* In a bulk session nothing that is or will be at the root sets bm_flag.
Marked(v) ==
  /\ ~v.disk[Root].valid
  /\ \A i \in 1..Len(v.dirs) : v.dirs[i].blk = Root => ~v.dirs[i].buf.valid
  /\ \A i \in 1..Len(v.out) : v.out[i].blk = Root => ~v.out[i].buf.valid
Kept(v) ==
  /\ v \in Volume
  /\ \A i, j \in 1..Len(v.dirs) : v.dirs[i].blk = v.dirs[j].blk => i = j
  /\ ~v.bulk => v.dirs = <<>>
  /\ v.bulk => Marked(v)

\* Every block on the medium is as the volume has it, or its last pending write
\* is.  Block 0 stands for the bitmap.
Newest(v, b) == IF b = 0 THEN v.bits ELSE v.disk[b]
OnMedium(m, b) == IF b = 0 THEN m.bits ELSE m.disk[b]
Arrives(m, v) ==
  \A b \in 0..NBlocks :
    /\ (\A i \in 1..Len(v.out) : v.out[i].blk # b) => OnMedium(m, b) = Newest(v, b)
    /\ \A i \in 1..Len(v.out) :
         v.out[i].blk = b /\ (\A j \in 1..Len(v.out) : i < j => v.out[j].blk # b)
           => v.out[i].buf = Newest(v, b)
Sane(m, v) == Kept(v) /\ v.flavor = m.flavor /\ Arrives(m, v)

\* One sane volume that leads to another in the course of a handler.
Leads(m, v, w) == Sane(m, w) /\ w.bulk = v.bulk /\ w.err = v.err

\* What may be written to block b.
Fitting(v, b, buf) == b \in Blk /\ buf \in BufType /\ (v.bulk /\ b = Root => ~buf.valid)

\* The parts of a volume that is kept.
LEMMA Parts ==
  ASSUME NEW v, v \in Volume
  PROVE  /\ v.flavor \in 0..7 /\ v.disk \in Bufs /\ v.bits \in SUBSET Block
         /\ v.free \in SUBSET Block /\ v.cursor \in 1..NBlocks+1 /\ v.bulk \in BOOLEAN
         /\ v.dirs \in Seq(Dirty) /\ v.ops \in Nat /\ v.names \in NameCache
         /\ v.paths \in PathCache /\ v.made \in Seq(Names) /\ v.out \in Seq(Pending)
         /\ v.err \in Errors
  BY DEF Volume

\* What is read from a block may be written to it.
LEMMA ReadFits ==
  ASSUME NEW v, Kept(v), NEW b \in Blk
  PROVE  Fitting(v, b, Read(v, b)) /\ View(v) \in Bufs
<1>1. v.disk \in Bufs /\ v.dirs \in Seq(Dirty) /\ v.bulk \in BOOLEAN
  BY Parts DEF Kept
<1>2. ASSUME NEW c \in Blk PROVE Fitting(v, c, Read(v, c))
  <2>1. CASE DirtyAt(v, c) = {}
    <3>1. Read(v, c) = v.disk[c] /\ v.disk[c] \in BufType
      BY <1>1, <2>1 DEF Read, Bufs
    <3>2. v.bulk /\ c = Root => ~v.disk[c].valid
      BY DEF Kept, Marked
    <3> QED BY <3>1, <3>2 DEF Fitting
  <2>2. CASE DirtyAt(v, c) # {}
    <3>1. PICK i \in DirtyAt(v, c) : Read(v, c) = v.dirs[i].buf
      BY <2>2 DEF Read
    <3>2. i \in 1..Len(v.dirs) /\ v.dirs[i].blk = c /\ v.dirs[i] \in Dirty
      BY <1>1, <3>1 DEF DirtyAt
    <3>3. v.dirs[i].buf \in BufType
      BY <3>2 DEF Dirty
    <3>4. v.bulk /\ c = Root => ~v.dirs[i].buf.valid
      BY <3>2 DEF Kept, Marked
    <3> QED BY <3>1, <3>3, <3>4 DEF Fitting
  <2> QED BY <2>1, <2>2
<1>3. View(v) \in Bufs
  BY <1>1, <1>2 DEF View, Fitting, Bufs
<1> QED BY <1>2, <1>3

\* What a block becomes is written last.
LEMMA AppendArrives ==
  ASSUME NEW m, NEW v, NEW w, Arrives(m, v), v.out \in Seq(Pending), NEW o,
         w.out = Append(v.out, o), o.blk \in 0..NBlocks, Newest(w, o.blk) = o.buf,
         \A c \in 0..NBlocks : c # o.blk => Newest(w, c) = Newest(v, c)
  PROVE  Arrives(m, w)
<1> DEFINE n == Len(v.out)
<1>1. n \in Nat /\ Len(w.out) = n + 1 /\ w.out[n + 1] = o
      /\ \A i \in 1..n : w.out[i] = v.out[i]
  OBVIOUS
<1> SUFFICES ASSUME NEW c \in 0..NBlocks
    PROVE  /\ (\A i \in 1..Len(w.out) : w.out[i].blk # c) => OnMedium(m, c) = Newest(w, c)
           /\ \A i \in 1..Len(w.out) :
                w.out[i].blk = c /\ (\A j \in 1..Len(w.out) : i < j => w.out[j].blk # c)
                  => w.out[i].buf = Newest(w, c)
  BY DEF Arrives
<1> HIDE DEF n
<1>2. CASE c = o.blk
  <2>1. w.out[n + 1].blk = c /\ w.out[n + 1].buf = Newest(w, c) /\ n + 1 \in 1..n+1
    BY <1>1, <1>2
  <2>2. ASSUME NEW i \in 1..Len(w.out), i # n + 1 PROVE i < n + 1
    BY <1>1, <2>2
  <2> QED BY <1>1, <2>1, <2>2
<1>3. CASE c # o.blk
  <2>1. Newest(w, c) = Newest(v, c) /\ w.out[n + 1].blk # c
    BY <1>1, <1>3
  <2>2. /\ (\A i \in 1..n : v.out[i].blk # c) => OnMedium(m, c) = Newest(v, c)
        /\ \A i \in 1..n :
             v.out[i].blk = c /\ (\A j \in 1..n : i < j => v.out[j].blk # c)
               => v.out[i].buf = Newest(v, c)
    BY DEF Arrives, n
  <2>3. 1..n \subseteq 1..n+1 /\ \A i \in 1..n+1 : i \in 1..n \/ i = n + 1
    BY <1>1
  <2> QED BY <1>1, <2>1, <2>2, <2>3
<1> QED BY <1>2, <1>3

\* A write keeps the volume sane.
LEMMA WriteSane ==
  ASSUME NEW m, NEW v, Sane(m, v), NEW b, NEW buf, Fitting(v, b, buf)
  PROVE  Leads(m, v, Write(v, b, buf))
<1> DEFINE w == Write(v, b, buf)
           o == [blk |-> b, buf |-> buf]
           n == Len(v.out)
<1>1. v \in Volume /\ b \in Blk /\ buf \in BufType
  BY DEF Sane, Kept, Fitting
<1>2. /\ v.disk \in Bufs /\ v.out \in Seq(Pending) /\ v.dirs \in Seq(Dirty)
      /\ n \in Nat /\ o \in Pending
  <2>1. o \in Dirty
    BY <1>1 DEF Dirty
  <2> QED BY <1>1, <2>1, Parts DEF Pending
<1>3. [v.disk EXCEPT ![b] = buf] \in Bufs /\ Append(v.out, o) \in Seq(Pending)
  BY <1>1, <1>2 DEF Bufs
<1>4. w \in Volume
  BY <1>1, <1>3 DEF Write, Volume
<1>5. /\ w.disk = [v.disk EXCEPT ![b] = buf] /\ w.out = Append(v.out, o)
      /\ w.flavor = v.flavor
      /\ w.dirs = v.dirs /\ w.bulk = v.bulk /\ w.bits = v.bits
      /\ w.free = v.free /\ w.err = v.err
  BY <1>1 DEF Write, Volume
<1> HIDE DEF w
<1>6. /\ Len(w.out) = n + 1 /\ w.out[n + 1] = o
      /\ \A i \in 1..n : w.out[i] = v.out[i]
  BY <1>2, <1>5
<1>7. /\ w.disk[b] = buf /\ \A c \in Blk : c # b => w.disk[c] = v.disk[c]
  BY <1>1, <1>2, <1>5 DEF Bufs
<1>8. w.bulk => Marked(w)
  <2> SUFFICES ASSUME v.bulk PROVE Marked(w)
    BY <1>5
  <2>1. Marked(v) /\ (b = Root => ~buf.valid)
    BY DEF Sane, Kept, Fitting
  <2>2. ~w.disk[Root].valid
    BY <1>7, <2>1, Sizes DEF Marked
  <2>3. ASSUME NEW i \in 1..Len(w.out), w.out[i].blk = Root PROVE ~w.out[i].buf.valid
    <3>1. CASE i \in 1..n
      BY <1>6, <2>1, <2>3, <3>1 DEF Marked
    <3>2. CASE i = n + 1
      BY <1>6, <2>1, <2>3, <3>2
    <3> QED BY <1>2, <1>6, <3>1, <3>2
  <2> QED BY <1>5, <2>1, <2>2, <2>3 DEF Marked
<1>9. Kept(w)
  BY <1>4, <1>5, <1>8 DEF Sane, Kept
<1>10. Arrives(m, w)
  <2>1. o.blk = b /\ o.buf = buf /\ b \in 0..NBlocks /\ b # 0
    BY <1>1, Sizes
  <2>2. Newest(w, b) = o.buf
    BY <1>7, <2>1 DEF Newest
  <2>3. \A c \in 0..NBlocks : c # b => Newest(w, c) = Newest(v, c)
    BY <1>5, <1>7, Sizes DEF Newest, Blk
  <2> HIDE DEF o
  <2>4. /\ Arrives(m, v) /\ v.out \in Seq(Pending) /\ w.out = Append(v.out, o)
        /\ o.blk \in 0..NBlocks /\ Newest(w, o.blk) = o.buf
        /\ \A c \in 0..NBlocks : c # o.blk => Newest(w, c) = Newest(v, c)
    BY <1>2, <1>5, <2>1, <2>2, <2>3 DEF Sane
  <2> QED BY ONLY <2>4, AppendArrives
<1> QED BY <1>5, <1>9, <1>10 DEF Sane, Leads, w

\* Sanity is a matter of disk, bitmap, pending writes and dirty directories.
LEMMA MemorySane ==
  ASSUME NEW m, NEW v, Sane(m, v), NEW w \in Volume,
         w.disk = v.disk, w.bits = v.bits, w.bulk = v.bulk, w.dirs = v.dirs, w.out = v.out,
         w.flavor = v.flavor
  PROVE  Sane(m, w)
BY DEF Sane, Kept, Marked, Arrives, Newest

\* An exception, and blocks that are freed or taken in memory.
LEMMA RaiseSane ==
  ASSUME NEW m, NEW v, Sane(m, v), NEW why \in Errors
  PROVE  /\ Leads(m, [v EXCEPT !.err = why], Raise(v, why))
         /\ Raise(v, why).err = why /\ Raise(v, why).bulk = v.bulk
<1> DEFINE w == Raise(v, why)
<1>1. w \in Volume /\ w.flavor = v.flavor /\ w.disk = v.disk /\ w.bits = v.bits /\ w.bulk = v.bulk
      /\ w.dirs = v.dirs /\ w.out = v.out /\ w.err = why
  BY DEF Sane, Kept, Volume, Raise
<1>2. w = [v EXCEPT !.err = why]
  BY DEF Raise
<1> HIDE DEF w
<1>3. Sane(m, w)
  BY <1>1, MemorySane
<1> QED BY <1>1, <1>2, <1>3 DEF w, Leads

LEMMA FreedSane ==
  ASSUME NEW m, NEW v, Sane(m, v), NEW S \in SUBSET Block
  PROVE  Leads(m, v, Freed(v, S))
<1> DEFINE w == Freed(v, S)
<1>1. v \in Volume /\ v.free \cup S \in SUBSET Block
  BY Parts DEF Sane, Kept
<1>2. w \in Volume /\ w.flavor = v.flavor /\ w.disk = v.disk /\ w.bits = v.bits /\ w.bulk = v.bulk
      /\ w.dirs = v.dirs /\ w.out = v.out /\ w.err = v.err
  BY <1>1 DEF Volume, Freed
<1> HIDE DEF w
<1>3. Sane(m, w)
  BY <1>2, MemorySane
<1> QED BY <1>2, <1>3 DEF w, Leads

LEMMA TakenSane ==
  ASSUME NEW m, NEW v, Sane(m, v), NEW b \in Blk
  PROVE  Leads(m, v, Taken(v, b)) /\ Taken(v, b).free = v.free \ {b}
<1> DEFINE w == Taken(v, b)
<1>1. v \in Volume /\ v.free \ {b} \in SUBSET Block /\ b + 1 \in 1..NBlocks+1
  BY Parts, Sizes DEF Sane, Kept, Blk
<1>2. w \in Volume /\ w.flavor = v.flavor /\ w.disk = v.disk /\ w.bits = v.bits /\ w.bulk = v.bulk
      /\ w.dirs = v.dirs /\ w.out = v.out /\ w.err = v.err /\ w.free = v.free \ {b}
  BY <1>1 DEF Volume, Taken
<1> HIDE DEF w
<1>3. Sane(m, w)
  BY <1>2, MemorySane
<1> QED BY <1>2, <1>3 DEF w, Leads

\* Of the free blocks a walk meets one first.
LEMMA FreeBlock ==
  ASSUME NEW v, Kept(v), NEW got, v.free \ got # {}
  PROVE  NextFree(v, got) \in v.free \ got
<1> DEFINE S == v.free \ got
           f == [b \in S |-> Away(v.cursor, b)]
<1>1. S \subseteq Blk /\ v.cursor \in 1..NBlocks+1 /\ NBlocks \in Nat
  BY Parts, Sizes DEF Kept, Block
<1>2. f \in [S -> Nat]
  BY <1>1 DEF Away, Blk
<1>3. PICK b \in S : \A c \in S : f[b] <= f[c]
  <2> HIDE DEF f, S
  <2> QED BY <1>2, Least DEF S
<1> QED BY <1>3 DEF NextFree

\* A dirty directory is one of a bulk session.
LEMMA DirtySane ==
  ASSUME NEW m, NEW v, Sane(m, v), v.bulk, NEW b, NEW buf, Fitting(v, b, buf)
  PROVE  Leads(m, v, MakeDirty(v, b, buf))
<1> DEFINE w == MakeDirty(v, b, buf)
           d == [blk |-> b, buf |-> buf]
           n == Len(v.dirs)
<1>1. v \in Volume /\ v.dirs \in Seq(Dirty) /\ n \in Nat /\ b \in Blk /\ buf \in BufType
      /\ d \in Dirty /\ Kept(v) /\ Arrives(m, v) /\ Marked(v) /\ (b = Root => ~buf.valid)
  <2>1. Kept(v) /\ Arrives(m, v) /\ v \in Volume /\ Marked(v)
    BY DEF Sane, Kept
  <2>2. b \in Blk /\ buf \in BufType /\ (b = Root => ~buf.valid) /\ d \in Dirty
    BY DEF Fitting, Dirty
  <2>3. v.dirs \in Seq(Dirty) /\ n \in Nat
    BY <2>1, Parts
  <2> QED BY <2>1, <2>2, <2>3
<1>2. /\ w \in Volume /\ w.flavor = v.flavor /\ w.disk = v.disk /\ w.bits = v.bits /\ w.bulk = v.bulk
      /\ w.out = v.out /\ w.err = v.err /\ w.free = v.free
      /\ \A i, j \in 1..Len(w.dirs) : w.dirs[i].blk = w.dirs[j].blk => i = j
      /\ \A i \in 1..Len(w.dirs) : w.dirs[i].blk = Root => ~w.dirs[i].buf.valid
  <2>1. CASE DirtyAt(v, b) = {}
    <3>1. w = [v EXCEPT !.dirs = Append(v.dirs, d)]
      BY <2>1 DEF MakeDirty
    <3>2. Append(v.dirs, d) \in Seq(Dirty)
      BY <1>1
    <3>3. /\ w \in Volume /\ w.flavor = v.flavor /\ w.disk = v.disk /\ w.bits = v.bits /\ w.bulk = v.bulk
          /\ w.out = v.out /\ w.err = v.err /\ w.free = v.free
          /\ w.dirs = Append(v.dirs, d)
      BY <1>1, <3>1, <3>2 DEF Volume
    <3>4. \A i \in 1..n : v.dirs[i].blk # b
      BY <1>1, <2>1 DEF DirtyAt
    <3> HIDE DEF w
    <3>5. /\ Len(w.dirs) = n + 1 /\ w.dirs[n + 1] = d
          /\ \A i \in 1..n : w.dirs[i] = v.dirs[i]
          /\ \A i \in 1..n+1 : i \in 1..n \/ i = n + 1
      BY <1>1, <3>3
    <3>6. \A i, j \in 1..Len(w.dirs) : w.dirs[i].blk = w.dirs[j].blk => i = j
      <4>1. \A i, j \in 1..n : v.dirs[i].blk = v.dirs[j].blk => i = j
        BY <1>1 DEF Kept
      <4>2. d.blk = b
        OBVIOUS
      <4> HIDE DEF d
      <4> QED BY <3>4, <3>5, <4>1, <4>2
    <3>7. \A i \in 1..Len(w.dirs) : w.dirs[i].blk = Root => ~w.dirs[i].buf.valid
      BY SMTT(40), <1>1, <3>5 DEF Marked
    <3> QED BY <3>3, <3>6, <3>7
  <2>2. CASE DirtyAt(v, b) # {}
    <3>1. PICK k \in DirtyAt(v, b) : w = [v EXCEPT !.dirs[k].buf = buf]
      BY <2>2 DEF MakeDirty
    <3>2. k \in 1..n /\ v.dirs[k].blk = b /\ v.dirs[k] \in Dirty
      BY <1>1, <3>1 DEF DirtyAt
    <3>3. [v.dirs EXCEPT ![k] = [v.dirs[k] EXCEPT !.buf = buf]] = [v.dirs EXCEPT ![k] = d]
      BY <3>2 DEF Dirty
    <3>4. [v.dirs EXCEPT ![k] = d] \in Seq(Dirty)
      BY <1>1, <3>2
    <3>5. w = [v EXCEPT !.dirs = [v.dirs EXCEPT ![k] = d]]
      BY <3>1, <3>3
    <3>6. /\ w \in Volume /\ w.flavor = v.flavor /\ w.disk = v.disk /\ w.bits = v.bits /\ w.bulk = v.bulk
          /\ w.out = v.out /\ w.err = v.err /\ w.free = v.free
          /\ w.dirs = [v.dirs EXCEPT ![k] = d]
      BY <1>1, <3>4, <3>5 DEF Volume
    <3> HIDE DEF w
    <3>7. /\ Len(w.dirs) = n /\ w.dirs[k] = d
          /\ \A i \in 1..n : i # k => w.dirs[i] = v.dirs[i]
      BY <1>1, <3>2, <3>6
    <3>8. \A i \in 1..n : w.dirs[i].blk = v.dirs[i].blk
      BY <3>2, <3>7
    <3>9. \A i, j \in 1..Len(w.dirs) : w.dirs[i].blk = w.dirs[j].blk => i = j
      BY <1>1, <3>7, <3>8 DEF Kept
    <3>10. \A i \in 1..Len(w.dirs) : w.dirs[i].blk = Root => ~w.dirs[i].buf.valid
      BY <1>1, <3>7 DEF Marked
    <3> QED BY <3>6, <3>9, <3>10
  <2> QED BY <2>1, <2>2
<1> HIDE DEF w
<1>3. Kept(w)
  BY <1>1, <1>2 DEF Kept, Marked
<1>4. Arrives(m, w)
  BY <1>1, <1>2 DEF Arrives, Newest
<1> QED BY <1>2, <1>3, <1>4 DEF Sane, Leads, w

\* A buffer that was read is rewritten, the dirty one if there is one.
LEMMA RewriteSane ==
  ASSUME NEW m, NEW v, Sane(m, v), NEW b, NEW buf, Fitting(v, b, buf)
  PROVE  Leads(m, v, Rewrite(v, b, buf))
<1>1. CASE DirtyAt(v, b) = {}
  BY <1>1, WriteSane DEF Rewrite
<1>2. CASE DirtyAt(v, b) # {}
  <2> DEFINE u == MakeDirty(v, b, buf)
  <2>1. v.bulk
    BY <1>2 DEF Sane, Kept, DirtyAt
  <2>2. Leads(m, v, u)
    BY <2>1, DirtySane
  <2> HIDE DEF u
  <2>3. Fitting(u, b, buf) /\ Sane(m, u)
    BY <2>2 DEF Fitting, Leads
  <2>4. Rewrite(v, b, buf) = Write(u, b, buf)
    BY <1>2 DEF Rewrite, u
  <2>5. Leads(m, u, Write(u, b, buf))
    BY <2>3, WriteSane
  <2> QED BY <2>2, <2>4, <2>5 DEF Leads
<1> QED BY <1>1, <1>2

\* Outside bulk mode the bitmap is written too.
Synced(v) == v.bulk \/ v.bits = v.free

LEMMA BitsSane ==
  ASSUME NEW m, NEW v, Sane(m, v)
  PROVE  /\ Leads(m, v, WriteBits(v)) /\ Synced(WriteBits(v))
         /\ WriteBits(v).bits = v.free /\ WriteBits(v).free = v.free
         /\ WriteBits(v).disk = v.disk /\ WriteBits(v).dirs = v.dirs
<1>1. CASE v.free = v.bits
  BY <1>1 DEF WriteBits, Leads, Synced
<1>2. CASE v.free # v.bits
  <2> DEFINE w == WriteBits(v)
             o == [blk |-> 0, buf |-> v.free]
  <2>1. v \in Volume /\ v.free \in SUBSET Block /\ v.out \in Seq(Pending) /\ Arrives(m, v)
    BY Parts DEF Sane, Kept
  <2>2. o \in Pending /\ Append(v.out, o) \in Seq(Pending)
    BY <2>1 DEF Pending
  <2>3. w = [v EXCEPT !.bits = v.free, !.out = Append(@, o)]
    BY <1>2 DEF WriteBits
  <2>4. /\ w \in Volume /\ w.flavor = v.flavor /\ w.bits = v.free /\ w.out = Append(v.out, o) /\ w.bulk = v.bulk
        /\ w.disk = v.disk /\ w.free = v.free /\ w.dirs = v.dirs /\ w.err = v.err
    BY ZenonT(40), <2>1, <2>2, <2>3 DEF Volume
  <2>5. o.blk = 0 /\ o.buf = v.free /\ 0 \in 0..NBlocks
    BY Sizes
  <2> HIDE DEF w, o
  <2>6. Arrives(m, w)
    BY SMTT(40), <2>1, <2>4, <2>5, AppendArrives DEF Newest
  <2>7. Root # 0 /\ Len(w.out) = Len(v.out) + 1 /\ w.out[Len(v.out) + 1] = o
        /\ \A i \in 1..Len(w.out) : (i \in 1..Len(v.out) /\ w.out[i] = v.out[i]) \/ w.out[i] = o
    BY SMTT(40), <2>1, <2>4, Sizes
  <2>8. Marked(v) => Marked(w)
    BY <2>4, <2>5, <2>7 DEF Marked
  <2>9. Kept(w)
    BY <2>4, <2>8 DEF Sane, Kept
  <2> QED BY <2>4, <2>6, <2>9 DEF Sane, Leads, Synced, w
<1> QED BY <1>1, <1>2

\* What is at which place of two sequences put together.
LEMMA Joined ==
  ASSUME NEW S, NEW s \in Seq(S), NEW t \in Seq(S)
  PROVE  /\ Len(s \o t) = Len(s) + Len(t)
         /\ \A i \in 1..Len(s) : i \in 1..Len(s \o t) /\ (s \o t)[i] = s[i]
         /\ \A i \in 1..Len(t) :
              Len(s) + i \in 1..Len(s \o t) /\ (s \o t)[Len(s) + i] = t[i]
         /\ \A i \in 1..Len(s \o t) :
              i \in 1..Len(s) \/ \E j \in 1..Len(t) : i = Len(s) + j
<1> DEFINE n == Len(s)
           k == Len(t)
           u == s \o t
<1>1. n \in Nat /\ k \in Nat /\ Len(u) = n + k
  OBVIOUS
<1>2. ASSUME NEW i \in 1..n PROVE i \in 1..Len(u) /\ u[i] = s[i]
  BY <1>1
<1>3. ASSUME NEW i \in 1..k PROVE n + i \in 1..Len(u) /\ u[n + i] = t[i]
  BY <1>1
<1>4. ASSUME NEW i \in 1..Len(u), i \notin 1..n PROVE \E j \in 1..k : i = n + j
  <2> HIDE DEF n, k, u
  <2>1. i - n \in 1..k /\ i = n + (i - n)
    BY <1>1, <1>4
  <2> QED BY <2>1
<1> QED BY <1>1, <1>2, <1>3, <1>4

\* All dirty directories are written, one after another.
LEMMA FlushSane ==
  ASSUME NEW m, NEW v, Sane(m, v)
  PROVE  /\ Leads(m, v, FlushDirs(v)) /\ FlushDirs(v).dirs = <<>>
         /\ FlushDirs(v).out = v.out \o v.dirs
<1> DEFINE w == FlushDirs(v)
           n == Len(v.out)
           k == Len(v.dirs)
<1>1. v \in Volume /\ v.dirs \in Seq(Dirty) /\ v.out \in Seq(Pending) /\ Arrives(m, v)
      /\ Kept(v) /\ v.disk \in Bufs
  BY Parts DEF Sane, Kept
<1>2. View(v) \in Bufs /\ v.out \o v.dirs \in Seq(Pending) /\ <<>> \in Seq(Dirty)
  <2>1. v.dirs \in Seq(Pending)
    BY <1>1 DEF Pending
  <2> QED BY <1>1, <2>1, ReadFits, Sizes
<1>3. /\ w \in Volume /\ w.flavor = v.flavor /\ w.disk = View(v) /\ w.out = v.out \o v.dirs /\ w.dirs = <<>>
      /\ w.bulk = v.bulk /\ w.bits = v.bits /\ w.err = v.err
  BY <1>1, <1>2 DEF FlushDirs, Volume
<1> HIDE DEF w
<1>4. /\ n \in Nat /\ k \in Nat /\ Len(w.out) = n + k
      /\ \A i \in 1..n : i \in 1..Len(w.out) /\ w.out[i] = v.out[i]
      /\ \A i \in 1..k : n + i \in 1..Len(w.out) /\ w.out[n + i] = v.dirs[i]
      /\ \A i \in 1..Len(w.out) : i \in 1..n \/ \E j \in 1..k : i = n + j
  <2>1. v.dirs \in Seq(Pending) /\ n \in Nat /\ k \in Nat
    BY <1>1 DEF Pending
  <2> DEFINE s == v.out
             t == v.dirs
  <2>2. s \in Seq(Pending) /\ t \in Seq(Pending)
    BY <1>1, <2>1
  <2> HIDE DEF s, t
  <2>3. /\ Len(s \o t) = Len(s) + Len(t)
        /\ \A i \in 1..Len(s) : i \in 1..Len(s \o t) /\ (s \o t)[i] = s[i]
        /\ \A i \in 1..Len(t) :
             Len(s) + i \in 1..Len(s \o t) /\ (s \o t)[Len(s) + i] = t[i]
        /\ \A i \in 1..Len(s \o t) :
             i \in 1..Len(s) \/ \E j \in 1..Len(t) : i = Len(s) + j
    BY <2>2, Joined
  <2>4. /\ Len(w.out) = Len(s) + Len(t)
        /\ \A i \in 1..Len(s) : i \in 1..Len(w.out) /\ w.out[i] = s[i]
        /\ \A i \in 1..Len(t) :
             Len(s) + i \in 1..Len(w.out) /\ w.out[Len(s) + i] = t[i]
        /\ \A i \in 1..Len(w.out) :
             i \in 1..Len(s) \/ \E j \in 1..Len(t) : i = Len(s) + j
    <3>1. w.out = s \o t
      BY <1>3 DEF s, t
    <3> QED BY <2>3, <3>1, Zenon
  <2> QED BY <2>1, <2>4 DEF s, t
<1>5. /\ \A b \in Blk : w.disk[b] = Read(v, b)
      /\ \A i \in 1..k : v.dirs[i].blk \in Blk /\ Read(v, v.dirs[i].blk) = v.dirs[i].buf
      /\ \A b \in Blk : (\A i \in 1..k : v.dirs[i].blk # b) => Read(v, b) = v.disk[b]
  <2>1. \A i, j \in 1..k : v.dirs[i].blk = v.dirs[j].blk => i = j
    BY <1>1 DEF Kept
  <2>2. ASSUME NEW i \in 1..k
        PROVE  v.dirs[i].blk \in Blk /\ Read(v, v.dirs[i].blk) = v.dirs[i].buf
    <3>1. v.dirs[i] \in Dirty /\ DirtyAt(v, v.dirs[i].blk) = {i}
      BY <1>1, <2>1 DEF DirtyAt
    <3> QED BY <3>1 DEF Read, Dirty
  <2>3. \A b \in Blk : (\A i \in 1..k : v.dirs[i].blk # b) => Read(v, b) = v.disk[b]
    BY <1>1 DEF Read, DirtyAt
  <2>4. \A b \in Blk : w.disk[b] = Read(v, b)
    BY <1>1, <1>3, <2>3 DEF View
  <2> QED BY <2>2, <2>3, <2>4
<1> HIDE DEF n, k
<1>6. w.bulk => Marked(w)
  <2> SUFFICES ASSUME v.bulk PROVE Marked(w)
    BY <1>3
  <2>1. Marked(v) /\ Root \in Blk
    BY <1>1, Sizes DEF Kept
  <2>2. ~w.disk[Root].valid
    BY <1>1, <1>5, <2>1, ReadFits DEF Fitting
  <2>3. \A i \in 1..Len(w.out) : w.out[i].blk = Root => ~w.out[i].buf.valid
    <3> SUFFICES ASSUME NEW i \in 1..Len(w.out), w.out[i].blk = Root
                 PROVE  ~w.out[i].buf.valid
      OBVIOUS
    <3>1. CASE i \in 1..n
      BY <1>4, <2>1, <3>1 DEF Marked, n
    <3>2. ASSUME NEW j \in 1..k, i = n + j PROVE ~w.out[i].buf.valid
      <4>1. w.out[i] = v.dirs[j]
        BY <1>4, <3>2
      <4> QED BY <2>1, <4>1 DEF Marked, k
    <3> QED BY <1>4, <3>1, <3>2
  <2>4. Len(w.dirs) = 0
    BY <1>3
  <2> QED BY <2>2, <2>3, <2>4 DEF Marked
<1>7. Kept(w)
  BY <1>3, <1>6 DEF Kept
<1>8. Arrives(m, w)
  <2> SUFFICES ASSUME NEW c \in 0..NBlocks
      PROVE  /\ (\A i \in 1..Len(w.out) : w.out[i].blk # c) => OnMedium(m, c) = Newest(w, c)
             /\ \A i \in 1..Len(w.out) :
                  w.out[i].blk = c /\ (\A j \in 1..Len(w.out) : i < j => w.out[j].blk # c)
                    => w.out[i].buf = Newest(w, c)
    BY DEF Arrives
  <2>1. CASE \E i \in 1..k : v.dirs[i].blk = c
    <3>1. PICK x \in 1..k : v.dirs[x].blk = c
      BY <2>1
    <3>2. c \in Blk /\ c # 0 /\ Newest(w, c) = v.dirs[x].buf
      BY <1>5, <3>1, Sizes DEF Newest
    <3>3. n + x \in 1..Len(w.out) /\ w.out[n + x].blk = c
      BY <1>4, <3>1
    <3>4. ASSUME NEW i \in 1..Len(w.out), w.out[i].blk = c,
                 \A j \in 1..Len(w.out) : i < j => w.out[j].blk # c
          PROVE  w.out[i].buf = Newest(w, c)
      <4>1. ~(i < n + x)
        BY <3>3, <3>4
      <4>2. i \notin 1..n
        BY <1>4, <4>1
      <4>3. PICK j \in 1..k : i = n + j
        BY <1>4, <3>4, <4>2
      <4>4. w.out[i] = v.dirs[j] /\ v.dirs[j].blk = c
        BY <1>4, <3>4, <4>3
      <4> QED BY <1>5, <3>2, <4>4 DEF Newest
    <3> QED BY <3>3, <3>4
  <2>2. CASE \A i \in 1..k : v.dirs[i].blk # c
    <3>1. Newest(w, c) = Newest(v, c)
      <4>1. c = 0 \/ c \in Blk
        BY Sizes DEF Blk
      <4> QED BY <1>3, <1>5, <2>2, <4>1, Sizes DEF Newest
    <3>2. \A i \in 1..Len(w.out) :
            w.out[i].blk = c => i \in 1..n /\ w.out[i] = v.out[i]
      <4> SUFFICES ASSUME NEW i \in 1..Len(w.out), w.out[i].blk = c, i \notin 1..n
                   PROVE  FALSE
        BY <1>4
      <4>1. PICK j \in 1..k : i = n + j
        BY <1>4
      <4>2. w.out[i] = v.dirs[j]
        BY <1>4, <4>1
      <4> QED BY <2>2, <4>2
    <3>3. 1..n \subseteq 1..Len(w.out)
      BY <1>4
    <3>4. /\ (\A i \in 1..n : v.out[i].blk # c) => OnMedium(m, c) = Newest(v, c)
          /\ \A i \in 1..n :
               v.out[i].blk = c /\ (\A j \in 1..n : i < j => v.out[j].blk # c)
                 => v.out[i].buf = Newest(v, c)
      BY <1>1 DEF Arrives, n
    <3> QED BY ZenonT(40), <1>4, <3>1, <3>2, <3>3, <3>4
  <2> QED BY <2>1, <2>2
<1> QED BY <1>3, <1>7, <1>8 DEF Sane, Leads, w

\* A commit leaves nothing unsynced.
LEMMA CommitSane ==
  ASSUME NEW m, NEW v, Sane(m, v)
  PROVE  Leads(m, v, Commit(v)) /\ Synced(Commit(v))
<1>1. CASE ~v.bulk
  BY <1>1, BitsSane DEF Commit
<1>2. CASE v.bulk
  <2> DEFINE w == [v EXCEPT !.ops = (@ + 1) % BulkEvery]
             u == FlushDirs(w)
  <2>1. v \in Volume /\ (v.ops + 1) % BulkEvery \in Nat
    BY Parts, Sizes DEF Sane, Kept
  <2>2. /\ w \in Volume /\ w.flavor = v.flavor /\ w.disk = v.disk /\ w.bits = v.bits /\ w.bulk = v.bulk
        /\ w.dirs = v.dirs /\ w.out = v.out /\ w.err = v.err
    BY <2>1 DEF Volume
  <2>3. Commit(v) = IF w.ops = 0 THEN WriteBits(u) ELSE w
    BY <1>2 DEF Commit
  <2> HIDE DEF w
  <2>4. Sane(m, w)
    BY <2>2, MemorySane
  <2>5. Leads(m, w, u)
    BY <2>4, FlushSane
  <2> HIDE DEF u
  <2>6. Leads(m, u, WriteBits(u))
    BY <2>5, BitsSane DEF Leads
  <2> QED BY <1>2, <2>2, <2>3, <2>4, <2>5, <2>6 DEF Leads, Synced
<1> QED BY <1>1, <1>2

-----------------------------------------------------------------------------
(* What a volume is asked for *)

\* A set of numbers that is not empty has a smallest.
LEMMA Smallest ==
  ASSUME NEW S \in SUBSET Nat, S # {}
  PROVE  (CHOOSE i \in S : \A j \in S : i <= j) \in S
<1> DEFINE f == [b \in S |-> b]
<1>1. f \in [S -> Nat]
  OBVIOUS
<1>2. PICK b \in S : \A c \in S : f[b] <= f[c]
  <2> HIDE DEF f
  <2> QED BY <1>1, Least
<1> QED BY <1>2

\* The entries of a directory are blocks of the volume other than the root.
LEMMA MemberBlocks ==
  ASSUME NEW bufs \in Bufs, NEW d \in Blk
  PROVE  Members(bufs, d) \subseteq Block /\ Records(bufs, d) \in SUBSET (Blk \X NoName)
<1>1. ASSUME NEW h \in Buckets PROVE Range(Chain(bufs, bufs[d].heads[h])) \subseteq Block
  <2>1. bufs[d].heads[h] \in Ptr
    BY DEF Bufs, BufType
  <2> DEFINE c == Chain(bufs, bufs[d].heads[h])
  <2>2. c \in Seq(Block)
    BY <2>1, ChainBlocks
  <2> HIDE DEF c
  <2>3. Range(c) \subseteq Block
    BY <2>2 DEF Range
  <2> QED BY <2>3 DEF c
<1>2. Members(bufs, d) \subseteq Block
  BY <1>1 DEF Members
<1>3. \A b \in Block : b \in Blk /\ bufs[b].name \in NoName
  BY DEF Block, Bufs, BufType, NoName
<1> QED BY <1>2, <1>3 DEF Records

\* What a listing returns.
LEMMA EntryTyped ==
  ASSUME NEW buf \in BufType, NEW b \in Block
  PROVE  Entry(buf, b) \in Entries /\ Entry(buf, b).blk = b
BY DEF Entry, Entries, BufType, NoName

LEMMA ListedTyped ==
  ASSUME NEW v, Kept(v), NEW d \in Blk
  PROVE  Listed(v, d) \subseteq Entries
<1>1. View(v) \in Bufs /\ \A b \in Blk : Read(v, b) \in BufType
  BY ReadFits DEF Fitting
<1>2. \A b \in Members(View(v), d) : b \in Block /\ b \in Blk
  BY <1>1, MemberBlocks DEF Block
<1> QED BY <1>1, <1>2, EntryTyped DEF Listed

\* A listing that is not empty has a first entry.
LEMMA FirstListed ==
  ASSUME NEW S \in SUBSET Entries, S # {}
  PROVE  First(S) \in S
<1>1. \A e \in S : e.name \in Nat /\ e.blk \in Nat
  <2>1. NoName \subseteq Nat /\ Block \subseteq Nat
    BY VolumeAssumption DEF NoName, Block, Blk
  <2>2. \A e \in S : e.name \in NoName /\ e.blk \in Block
    BY DEF Entries
  <2> QED BY <2>1, <2>2
<1> DEFINE f == [e \in S |-> e.name]
<1>2. PICK a \in S : \A c \in S : f[a] <= f[c]
  <2>1. f \in [S -> Nat]
    BY <1>1
  <2> HIDE DEF f
  <2> QED BY <2>1, Least
<1> DEFINE R == {e \in S : e.name = a.name}
           g == [e \in R |-> e.blk]
<1>3. PICK b \in R : \A c \in R : g[b] <= g[c]
  <2>1. g \in [R -> Nat] /\ R # {}
    BY <1>1, <1>2
  <2> HIDE DEF R, g
  <2> QED BY <2>1, Least
<1>4. ASSUME NEW c \in S PROVE b.name < c.name \/ (b.name = c.name /\ b.blk <= c.blk)
  <2>1. b \in S /\ b.name = a.name /\ a.name <= c.name
    BY <1>2, <1>3
  <2>2. c.name = a.name => b.blk <= c.blk
    BY <1>3
  <2> QED BY <1>1, <2>1, <2>2
<1> QED BY <1>3, <1>4 DEF First

\* A name is found at a block of the volume, or nowhere.
LEMMA FindTyped ==
  ASSUME NEW v, Kept(v), NEW d \in Blk, NEW n \in NoName
  PROVE  Find(v, d, n) \in Ptr
<1> DEFINE chain == Chain(v.disk, Read(v, d).heads[Hash(n)])
           hits == {i \in DOMAIN chain : v.disk[chain[i]].name = n}
<1>1. chain \in Seq(Block)
  <2>1. Read(v, d) \in BufType /\ v.disk \in Bufs
    BY ReadFits, Parts DEF Fitting, Kept
  <2>2. Read(v, d).heads[Hash(n)] \in Ptr
    BY SMTT(40), <2>1, Sizes DEF BufType
  <2> QED BY <2>1, <2>2, ChainBlocks
<1>2. CASE n \notin v.names[d] \/ hits = {}
  BY <1>2, Sizes DEF Find
<1>3. CASE ~(n \notin v.names[d] \/ hits = {})
  <2>1. Find(v, d, n) = chain[CHOOSE i \in hits : \A j \in hits : i <= j]
    BY <1>3 DEF Find
  <2> HIDE DEF chain
  <2>2. hits \in SUBSET Nat /\ hits # {} /\ \A i \in hits : chain[i] \in Block
    BY <1>1, <1>3
  <2> HIDE DEF hits
  <2>3. (CHOOSE i \in hits : \A j \in hits : i <= j) \in hits
    BY <2>2, Smallest
  <2> QED BY <2>1, <2>2, <2>3, Sizes
<1> QED BY <1>2, <1>3

\* A dict with one more key is one, too.
LEMMA PutTyped ==
  ASSUME NEW D, NEW S, NEW f \in [D -> S], NEW x, NEW y \in S
  PROVE  Put(f, x, y) \in [D \cup {x} -> S]
BY DEF Put

\* A lookup changes the caches of names and of paths only.
Alike(v, w) ==
  /\ w \in Volume /\ w.flavor = v.flavor /\ w.disk = v.disk /\ w.bits = v.bits
  /\ w.free = v.free /\ w.cursor = v.cursor /\ w.bulk = v.bulk /\ w.dirs = v.dirs
  /\ w.ops = v.ops /\ w.out = v.out /\ w.err = v.err

LEMMA AlikeSane ==
  ASSUME NEW m, NEW v, Sane(m, v), NEW w, Alike(v, w)
  PROVE  Leads(m, v, w)
BY MemorySane DEF Leads, Alike

LEMMA AlikeKept ==
  ASSUME NEW v, Kept(v), NEW w, Alike(v, w)
  PROVE  Kept(w)
BY DEF Kept, Alike, Marked

LEMMA ScannedAlike ==
  ASSUME NEW v, Kept(v), NEW d \in Blk
  PROVE  Alike(v, Scanned(v, d))
<1>1. v \in Volume /\ v.disk \in Bufs /\ v.names \in NameCache
  BY Parts DEF Kept
<1>2. CASE d \in DOMAIN v.names
  BY <1>1, <1>2 DEF Scanned, Alike
<1>3. CASE d \notin DOMAIN v.names
  <2> DEFINE found == NamesOnDisk(v, d)
             names == Put(v.names, d, found)
  <2>1. found \in SUBSET NoName
    <3>1. ASSUME NEW h \in Buckets
          PROVE  Range(Chain(v.disk, Read(v, d).heads[h])) \subseteq Block
      <4> DEFINE c == Chain(v.disk, Read(v, d).heads[h])
      <4>1. Read(v, d).heads[h] \in Ptr
        BY ReadFits DEF Fitting, BufType
      <4>2. c \in Seq(Block)
        BY <1>1, <4>1, ChainBlocks
      <4> HIDE DEF c
      <4>3. Range(c) \subseteq Block
        BY <4>2 DEF Range
      <4> QED BY <4>3 DEF c
    <3>2. \A b \in Block : v.disk[b].name \in NoName
      BY <1>1 DEF Block, Bufs, BufType, NoName
    <3> QED BY <3>1, <3>2 DEF NamesOnDisk
  <2> HIDE DEF found
  <2>2. names \in NameCache
    <3>1. PICK D \in SUBSET Blk : v.names \in [D -> SUBSET NoName]
      BY <1>1 DEF NameCache
    <3>2. names \in [D \cup {d} -> SUBSET NoName]
      BY <2>1, <3>1, PutTyped
    <3> QED BY <3>1, <3>2 DEF NameCache
  <2>3. Scanned(v, d) = [v EXCEPT !.names = names]
    BY <1>3 DEF Scanned, found
  <2> HIDE DEF names
  <2> QED BY <1>1, <2>2, <2>3 DEF Alike, Volume
<1> QED BY <1>2, <1>3

LEMMA AlikeAgain ==
  ASSUME NEW u, NEW v, Alike(u, v), NEW w, Alike(v, w)
  PROVE  Alike(u, w)
BY DEF Alike

LEMMA AlikeSelf ==
  ASSUME NEW v \in Volume
  PROVE  Alike(v, v)
BY DEF Alike

\* What is remembered and forgotten between lookups.
LEMMA RememberedAlike ==
  ASSUME NEW v \in Volume, NEW p \in Seq(Names), NEW b \in Blk
  PROVE  Alike(v, RememberPath(v, p, b))
<1>1. PICK D \in SUBSET Seq(Names) : v.paths \in [D -> Blk]
  <2>1. v.paths \in PathCache
    BY Parts
  <2> QED BY <2>1 DEF PathCache
<1>2. Put(v.paths, p, b) \in [D \cup {p} -> Blk]
  BY <1>1, PutTyped
<1>3. Put(v.paths, p, b) \in PathCache
  BY <1>2 DEF PathCache
<1> QED BY <1>3 DEF RememberPath, Alike, Volume

LEMMA ForgottenAlike ==
  ASSUME NEW v \in Volume, NEW p
  PROVE  Alike(v, ForgetPath(v, p)) /\ Alike(v, ForgetNames(v)) /\ Alike(v, ForgetPaths(v))
<1>1. PICK D \in SUBSET Seq(Names) : v.paths \in [D -> Blk]
  <2>1. v.paths \in PathCache
    BY Parts
  <2> QED BY <2>1 DEF PathCache
<1> DEFINE paths == [q \in DOMAIN v.paths \ {p} |-> v.paths[q]]
<1>2. paths \in [D \ {p} -> Blk] /\ D \ {p} \in SUBSET Seq(Names)
  BY <1>1
<1> HIDE DEF paths
<1>3. paths \in PathCache
  BY <1>2 DEF PathCache
<1>4. ForgetPath(v, p) = [v EXCEPT !.paths = paths]
  BY DEF ForgetPath, paths
<1>5. Alike(v, ForgetPath(v, p))
  BY <1>3, <1>4 DEF Alike, Volume
<1>6. <<>> \in [{} -> SUBSET NoName] /\ <<>> \in [{} -> Blk] /\ <<>> \in Seq(Names)
  OBVIOUS
<1>7. <<>> \in NameCache /\ <<>> \in PathCache
  BY <1>6 DEF NameCache, PathCache
<1>8. Alike(v, ForgetNames(v))
  BY <1>7 DEF Alike, Volume, ForgetNames
<1>9. Alike(v, ForgetPaths(v))
  BY <1>6, <1>7 DEF Alike, Volume, ForgetPaths
<1> QED BY <1>5, <1>8, <1>9

\* A place is a volume after a lookup, and the block it found or 0.
Place == [vol : Volume, blk : 0..NBlocks]
Found(v, r) == r \in Place /\ Alike(v, r.vol)

LEMMA LookupFinds ==
  ASSUME NEW v, Kept(v), NEW r, Found(v, r), NEW n \in Names
  PROVE  Found(v, Lookup(r, n)) /\ Lookup(r, n).blk \in Ptr
<1>1. r \in Place /\ Alike(v, r.vol) /\ Kept(r.vol)
  BY AlikeKept DEF Found
<1>2. CASE r.blk = 0 \/ ~IsDirectory(Read(r.vol, r.blk))
  <2>1. Lookup(r, n) = [r EXCEPT !.blk = 0]
    BY <1>2 DEF Lookup
  <2> QED BY <1>1, <2>1, Sizes DEF Found, Place
<1>3. CASE ~(r.blk = 0 \/ ~IsDirectory(Read(r.vol, r.blk)))
  <2> DEFINE w == Scanned(r.vol, r.blk)
  <2>1. r.blk \in Blk
    BY <1>1, <1>3 DEF Place, Blk
  <2>2. Lookup(r, n) = [vol |-> w, blk |-> Find(w, r.blk, n)]
    BY <1>3 DEF Lookup
  <2>3. Alike(r.vol, w)
    BY <1>1, <2>1, ScannedAlike
  <2> HIDE DEF w
  <2>4. Find(w, r.blk, n) \in Ptr
    BY <1>1, <2>1, <2>3, AlikeKept, FindTyped DEF NoName
  <2>5. Alike(v, w) /\ w \in Volume
    BY <1>1, <2>3, AlikeAgain DEF Alike
  <2> QED BY <2>2, <2>4, <2>5 DEF Found, Place, Ptr
<1> QED BY <1>2, <1>3

LEMMA ResolvedFinds ==
  ASSUME NEW v, Kept(v), NEW p \in Seq(Names)
  PROVE  Found(v, Resolved(v, p)) /\ (p # <<>> => Resolved(v, p).blk \in Ptr)
<1> DEFINE N == Len(p)
           X == {x \in Place : Alike(v, x.vol)}
           top == [vol |-> v, blk |-> Root]
           Eqn(f) == f = [k \in 0..N |-> IF k = 0 THEN top ELSE Lookup(f[k-1], p[k])]
           r == CHOOSE f : Eqn(f)
<1>1. N \in Nat /\ \A k \in 1..N : p[k] \in Names
  OBVIOUS
<1>2. top \in X
  BY AlikeSelf, Sizes DEF Kept, Place
<1>3. \A x \in X, n \in Names : Lookup(x, n) \in X /\ Lookup(x, n).blk \in Ptr
  BY LookupFinds DEF Found
<1>4. \E f : Eqn(f)
  <2> DEFINE g == [k \in 1..N |-> [x \in X |-> Lookup(x, p[k])]]
  <2> HIDE DEF X, N, top
  <2>1. g \in [1..N -> [X -> X]]
    BY <1>1, <1>3
  <2>2. PICK f \in [0..N -> X] : f[0] = top /\ \A k \in 1..N : f[k] = g[k][f[k - 1]]
    <3> HIDE DEF g
    <3>1. N \in Nat
      BY <1>1
    <3> QED BY SMTT(40), <3>1, <1>2, <2>1, Built
  <2>3. \A k \in 1..N : f[k] = Lookup(f[k - 1], p[k])
    <3> TAKE k \in 1..N
    <3>1. k - 1 \in 0..N
      BY <1>1
    <3>2. f[k - 1] \in X /\ g[k] = [x \in X |-> Lookup(x, p[k])]
      BY <2>2, <3>1
    <3> QED BY <2>2, <3>2
  <2>4. \A k \in 0..N : k = 0 \/ k \in 1..N
    BY <1>1
  <2> HIDE DEF g
  <2>5. Eqn(f)
    BY <2>2, <2>3, <2>4
  <2> HIDE DEF Eqn
  <2> QED BY <2>5
<1>5. Eqn(r)
  <2> HIDE DEF Eqn
  <2> QED BY <1>4
<1> HIDE DEF r, X, top
<1>6. \A k \in 0..N : r[k] = IF k = 0 THEN top ELSE Lookup(r[k-1], p[k])
  BY <1>5
<1> DEFINE T == {k \in Nat : k <= N => r[k] \in X}
<1>7. 0 \in T
  BY <1>1, <1>2, <1>6
<1>8. ASSUME NEW k \in Nat, k \in T PROVE k + 1 \in T
  <2> SUFFICES ASSUME k + 1 <= N PROVE r[k + 1] \in X
    OBVIOUS
  <2> HIDE DEF N
  <2>1. k + 1 \in 0..N /\ k + 1 \in 1..N /\ (k + 1) - 1 = k /\ k + 1 # 0 /\ k <= N
    BY <1>1
  <2>2. r[k + 1] = Lookup(r[k], p[k + 1])
    BY <1>6, <2>1
  <2> QED BY <1>1, <1>3, <1>8, <2>1, <2>2
<1>9. N \in T
  <2> HIDE DEF T
  <2> QED BY <1>1, <1>7, <1>8, VolumeInduction
<1>10. Resolved(v, p) = r[N]
  BY DEF Resolved, r, top
<1>11. ASSUME p # <<>> PROVE r[N].blk \in Ptr
  <2>1. N # 0
    BY <1>11
  <2> HIDE DEF N
  <2>2. N \in 1..N /\ N \in 0..N /\ N - 1 \in Nat /\ (N - 1) + 1 = N /\ N - 1 <= N
    BY <1>1, <2>1
  <2>3. N - 1 \in T
    <3> HIDE DEF T
    <3> QED BY <1>7, <1>8, <2>2, VolumeInduction
  <2>4. r[N - 1] \in X
    BY <2>2, <2>3
  <2> HIDE DEF T
  <2>5. r[N] = Lookup(r[N - 1], p[N])
    BY <1>6, <2>1, <2>2
  <2> QED BY <1>1, <1>3, <2>2, <2>4, <2>5
<1> QED BY <1>1, <1>9, <1>10, <1>11 DEF Found, X

LEMMA NotedFinds ==
  ASSUME NEW v, Kept(v), NEW p \in Seq(Names), NEW b \in 0..NBlocks
  PROVE  Found(v, Noted(v, p, b))
<1>1. v \in Volume /\ Alike(v, v)
  BY AlikeSelf DEF Kept
<1>2. CASE b = 0 \/ ~IsDirectory(Read(v, b))
  BY <1>1, <1>2, Sizes DEF Noted, Found, Place
<1>3. CASE ~(b = 0 \/ ~IsDirectory(Read(v, b)))
  <2>1. b \in Blk
    BY <1>3 DEF Blk
  <2> DEFINE w == IF p = <<>> THEN v ELSE RememberPath(v, p, b)
  <2>2. Alike(v, w)
    BY <1>1, <2>1, RememberedAlike
  <2>3. Noted(v, p, b) = [vol |-> w, blk |-> b]
    BY <1>3 DEF Noted
  <2> HIDE DEF w
  <2> QED BY <2>2, <2>3 DEF Found, Place, Alike
<1> QED BY <1>2, <1>3

LEMMA FoundAgain ==
  ASSUME NEW v, NEW w, Alike(v, w), NEW r, Found(w, r)
  PROVE  Found(v, r)
BY AlikeAgain DEF Found

LEMMA DirFinds ==
  ASSUME NEW v, Kept(v), NEW p \in Seq(Names)
  PROVE  Found(v, ResolvedDir(v, p))
<1>1. v \in Volume /\ Alike(v, v)
  BY AlikeSelf DEF Kept
<1>2. CASE Remembered(v, p)
  <2>1. PICK D \in SUBSET Seq(Names) : v.paths \in [D -> Blk]
    <3>1. v.paths \in PathCache
      BY <1>1, Parts
    <3> QED BY <3>1 DEF PathCache
  <2>2. v.paths[p] \in Blk
    BY <1>2, <2>1 DEF Remembered
  <2>3. ResolvedDir(v, p) = [vol |-> v, blk |-> v.paths[p]]
    BY <1>2 DEF ResolvedDir
  <2>4. v.paths[p] \in 0..NBlocks
    BY <2>2, Sizes
  <2> QED BY <1>1, <2>3, <2>4 DEF Found, Place
<1>3. CASE ~Remembered(v, p)
  <2> DEFINE r == Resolved(v, p)
             w == ForgetPath(r.vol, p)
  <2>1. Found(v, r)
    BY ResolvedFinds
  <2>2. ResolvedDir(v, p) = Noted(w, p, r.blk)
    BY <1>3 DEF ResolvedDir, NotedDir
  <2> HIDE DEF r
  <2>3. Alike(r.vol, w)
    <3>1. r.vol \in Volume
      BY <2>1 DEF Found, Alike
    <3> QED BY <3>1, ForgottenAlike
  <2>4. Alike(v, w) /\ r.blk \in 0..NBlocks
    BY <2>1, <2>3, AlikeAgain DEF Found, Place
  <2> HIDE DEF w
  <2>5. Found(w, Noted(w, p, r.blk))
    BY <2>4, AlikeKept, NotedFinds
  <2> QED BY <2>2, <2>4, <2>5, FoundAgain
<1> QED BY <1>2, <1>3

\* What is left of a path that is not empty without its last name.
LEMMA FrontTyped ==
  ASSUME NEW p \in Seq(Names), p # <<>>
  PROVE  Front(p) \in Seq(Names) /\ Last(p) \in Names
BY DEF Front, Last

LEMMA InDirFinds ==
  ASSUME NEW v, Kept(v), NEW p \in Seq(Names), p # <<>>
  PROVE  Found(v, InDir(v, p))
<1> DEFINE r == ResolvedDir(v, Front(p))
<1>1. Found(v, r)
  BY FrontTyped, DirFinds
<1>2. InDir(v, p) = ScannedDir(r)
  BY DEF InDir
<1> HIDE DEF r
<1>3. CASE r.blk = 0
  BY <1>1, <1>2, <1>3 DEF ScannedDir
<1>4. CASE r.blk # 0
  <2> DEFINE w == Scanned(r.vol, r.blk)
  <2>1. r \in Place /\ Alike(v, r.vol) /\ r.blk \in Blk /\ Kept(r.vol)
    BY <1>1, <1>4, AlikeKept DEF Found, Place, Blk
  <2>2. Alike(r.vol, w)
    BY <2>1, ScannedAlike
  <2>3. InDir(v, p) = [r EXCEPT !.vol = w]
    BY <1>2, <1>4 DEF ScannedDir
  <2> HIDE DEF w
  <2>4. Alike(v, w) /\ w \in Volume
    BY <2>1, <2>2, AlikeAgain DEF Alike
  <2> QED BY <2>1, <2>3, <2>4 DEF Found, Place
<1> QED BY <1>3, <1>4

-----------------------------------------------------------------------------
(* Directories and their caches *)

\* A step of a handler keeps the volume sane, or raises for want of space or of
\* a chain.
Goes(m, v, w) == Sane(m, w) /\ w.bulk = v.bulk /\ w.err \in {v.err, "full", "chain"}

LEMMA LeadsGoes ==
  ASSUME NEW m, NEW v, NEW w, Leads(m, v, w)
  PROVE  Goes(m, v, w)
BY DEF Leads, Goes

LEMMA LeadsAgain ==
  ASSUME NEW m, NEW u, NEW v, Leads(m, u, v), NEW w
  PROVE  /\ Leads(m, v, w) => Leads(m, u, w)
         /\ Goes(m, v, w) => Goes(m, u, w)
BY DEF Leads, Goes

\* New blocks are blocks.
LEMMA FreshTyped ==
  /\ Blank \in BufType /\ Note \in BufType /\ 0 \in Ptr
  /\ \A kind \in {"dir", "file"}, d \in Blk, n \in Names : Header(kind, d, n) \in BufType
  /\ \A ver \in Versions : DataBlock(ver) \in BufType
  /\ \A d \in Blk : \A recs \in SUBSET (Blk \X NoName) : CacheBlock(d, recs) \in BufType
<1>1. 0 \in Ptr /\ 0 \in 0..NBlocks /\ Blk \subseteq 0..NBlocks
  BY Sizes
<1>2. Blank \in BufType
  BY <1>1 DEF Blank, BufType
<1>3. Blank.ver = 0
  BY DEF Blank
<1> QED BY ZenonT(40), <1>1, <1>2 DEF BufType, Note, Header, DataBlock, CacheBlock, NoName

\* What is free is taken first.
LEMMA FitsOne ==
  ASSUME NEW v, Kept(v), Fits(v, 1)
  PROVE  NextFree(v, {}) \in Block /\ NextFree(v, {}) \in v.free
<1>1. v.free \subseteq Block
  BY Parts DEF Kept
<1>2. v.free # {}
  BY FS_EmptySet DEF Fits
<1>3. v.free \ {} # {}
  BY <1>2
<1>4. NextFree(v, {}) \in v.free \ {}
  BY <1>3, FreeBlock
<1> QED BY <1>1, <1>4

LEMMA FitsTwo ==
  ASSUME NEW v, Kept(v), Fits(v, 2)
  PROVE  /\ NextFree(v, {}) \in Block /\ NextFree(v, {NextFree(v, {})}) \in Block
         /\ NextFree(v, {}) \in v.free
         /\ NextFree(v, {NextFree(v, {})}) \in v.free \ {NextFree(v, {})}
<1>1. v.free \subseteq Block
  BY Parts DEF Kept
<1>2. Cardinality({}) = 0
  BY FS_EmptySet
<1>3. v.free # {}
  BY <1>2 DEF Fits
<1>4. v.free \ {} # {}
  BY <1>3
<1>5. NextFree(v, {}) \in v.free \ {}
  BY <1>4, FreeBlock
<1> DEFINE b == NextFree(v, {})
<1> HIDE DEF b
<1>6. Cardinality({b}) = 1
  BY FS_Singleton
<1>7. v.free # {b}
  BY <1>6 DEF Fits
<1>8. b \in v.free
  BY <1>5 DEF b
<1>9. v.free \ {b} # {}
  BY <1>7, <1>8
<1>10. NextFree(v, {b}) \in v.free \ {b}
  BY <1>9, FreeBlock
<1> QED BY <1>1, <1>8, <1>10 DEF b

\* What is not the root may be written anything.
LEMMA BlockFits ==
  ASSUME NEW v, NEW b \in Block, NEW buf \in BufType
  PROVE  Fitting(v, b, buf)
BY DEF Fitting, Block

LEMMA HeaderSane ==
  ASSUME NEW m, NEW v, Sane(m, v), NEW b, NEW buf, Fitting(v, b, buf), NEW fresh \in BOOLEAN
  PROVE  Leads(m, v, WriteHeader(v, b, buf, fresh))
BY WriteSane, RewriteSane DEF WriteHeader

LEMMA HeadSane ==
  ASSUME NEW m, NEW v, Sane(m, v), NEW d, NEW buf, Fitting(v, d, buf)
  PROVE  Leads(m, v, WriteHead(v, d, buf))
BY WriteSane, DirtySane DEF WriteHead

LEMMA NamedAlike ==
  ASSUME NEW v \in Volume, NEW d \in Blk, NEW n \in Names
  PROVE  Alike(v, Named(v, d, n))
<1>1. CASE d \notin DOMAIN v.names
  BY <1>1, AlikeSelf DEF Named
<1>2. CASE d \in DOMAIN v.names
  <2>1. PICK D \in SUBSET Blk : v.names \in [D -> SUBSET NoName]
    <3>1. v.names \in NameCache
      BY Parts
    <3> QED BY <3>1 DEF NameCache
  <2> DEFINE names == [v.names EXCEPT ![d] = @ \cup {n}]
  <2>2. names \in [D -> SUBSET NoName]
    BY <2>1, <1>2 DEF NoName
  <2> HIDE DEF names
  <2>3. names \in NameCache
    BY <2>1, <2>2 DEF NameCache
  <2>4. Named(v, d, n) = [v EXCEPT !.names = names]
    BY <1>2 DEF Named, names
  <2> QED BY <2>3, <2>4 DEF Alike, Volume
<1> QED BY <1>1, <1>2

\* A link.
LEMMA LinkSane ==
  ASSUME NEW m, NEW v, Sane(m, v), NEW d \in Blk, NEW b \in Block, NEW n \in Names,
         NEW buf \in BufType, NEW fresh \in BOOLEAN
  PROVE  Leads(m, v, Link(v, d, b, n, buf, fresh))
<1> DEFINE dir == Read(v, d)
           header == [buf EXCEPT !.next = dir.heads[Hash(n)]]
           head == [dir EXCEPT !.heads[Hash(n)] = b]
           w == WriteHeader(v, b, header, fresh)
           u == WriteHead(w, d, head)
<1>1. Fitting(v, d, dir) /\ dir \in BufType /\ Hash(n) \in Buckets
  BY ReadFits, Sizes DEF Sane, Fitting, NoName
<1> HIDE DEF dir
<1>2. header \in BufType /\ head \in BufType /\ head.valid = dir.valid
  <2>1. dir.heads \in [Buckets -> Ptr] /\ b \in Ptr
    BY <1>1, Sizes DEF BufType
  <2>2. dir.heads[Hash(n)] \in Ptr
    BY <1>1, <2>1
  <2>3. [dir.heads EXCEPT ![Hash(n)] = b] \in [Buckets -> Ptr]
    BY <1>1, <2>1
  <2>4. header \in BufType
    BY <2>2 DEF BufType
  <2> QED BY <1>1, <2>3, <2>4 DEF BufType
<1>3. Link(v, d, b, n, buf, fresh) = Named(u, d, n)
  BY DEF Link, dir
<1> HIDE DEF header, head
<1>4. Leads(m, v, w)
  BY <1>2, BlockFits, HeaderSane
<1> HIDE DEF w
<1>5. Fitting(w, d, head)
  BY <1>1, <1>2, <1>4 DEF Fitting, Leads
<1>6. Leads(m, w, u)
  BY <1>4, <1>5, HeadSane DEF Leads
<1> HIDE DEF u
<1>7. Alike(u, Named(u, d, n)) /\ Sane(m, u)
  BY <1>6, NamedAlike DEF Leads, Sane, Kept
<1>8. Leads(m, u, Named(u, d, n))
  BY <1>7, AlikeSane
<1> QED BY <1>3, <1>4, <1>6, <1>8, LeadsAgain

\* An unlink.
LEMMA UnlinkSane ==
  ASSUME NEW m, NEW v, Sane(m, v), NEW e \in Entries
  PROVE  /\ Goes(m, v, Unlink(v, e))
         /\ Unlink(v, e).err = "none" => e.parent \in Blk
<1> DEFINE u == ForgetNames(v)
           h == Hash(e.name)
           d == Read(u, e.parent)
           chain == Chain(View(u), d.heads[h])
           at == {i \in DOMAIN chain : chain[i] = e.blk}
           i == CHOOSE j \in at : \A k \in at : j <= k
           p == chain[i-1]
           w == Rewrite(u, p, [Read(u, p) EXCEPT !.next = e.next])
<1>1. Unlink(v, e) = IF e.parent = 0 \/ at = {} THEN Raise(u, "chain")
                     ELSE IF i = 1 THEN Rewrite(u, e.parent, [d EXCEPT !.heads[h] = e.next])
                     ELSE Rewrite(w, e.parent, Read(w, e.parent))
  BY DEF Unlink
<1>2. Leads(m, v, u) /\ Sane(m, u) /\ Kept(u)
  BY SMTT(40), ForgottenAlike, AlikeSane DEF Sane, Kept, Leads
<1> HIDE DEF u
<1>3. CASE e.parent = 0 \/ at = {}
  <2>1. Unlink(v, e) = Raise(u, "chain")
    BY <1>1, <1>3
  <2>2. Sane(m, Raise(u, "chain")) /\ Raise(u, "chain").err = "chain"
        /\ Raise(u, "chain").bulk = u.bulk
    BY <1>2, RaiseSane DEF Leads, Errors
  <2> QED BY <1>2, <2>1, <2>2 DEF Goes, Leads
<1>4. CASE ~(e.parent = 0 \/ at = {})
  <2>1. e.parent \in Blk /\ e.next \in Ptr /\ h \in Buckets
    BY <1>4, Sizes DEF Entries, Blk
  <2>2. Fitting(u, e.parent, d) /\ d \in BufType /\ View(u) \in Bufs
    BY <1>2, <2>1, ReadFits DEF Fitting
  <2> HIDE DEF d
  <2>3. d.heads \in [Buckets -> Ptr]
    BY <2>2 DEF BufType
  <2>4. chain \in Seq(Block)
    BY <2>1, <2>2, <2>3, ChainBlocks
  <2> HIDE DEF chain
  <2>5. at \in SUBSET Nat /\ at # {} /\ at \subseteq 1..Len(chain)
    BY <1>4, <2>4
  <2>6. i \in at
    <3> HIDE DEF at
    <3> QED BY <2>5, Smallest
  <2> HIDE DEF i
  <2>7. CASE i = 1
    <3> DEFINE head == [d EXCEPT !.heads[h] = e.next]
    <3>1. [d.heads EXCEPT ![h] = e.next] \in [Buckets -> Ptr]
      BY <2>1, <2>3
    <3>2. head \in BufType /\ head.valid = d.valid
      BY <2>2, <3>1 DEF BufType
    <3>3. Unlink(v, e) = Rewrite(u, e.parent, head)
      BY <1>1, <1>4, <2>7
    <3> HIDE DEF head
    <3>4. Fitting(u, e.parent, head)
      BY <2>2, <3>2 DEF Fitting
    <3>5. Leads(m, u, Rewrite(u, e.parent, head))
      BY <1>2, <3>4, RewriteSane
    <3> QED BY <1>2, <2>1, <3>3, <3>5, LeadsAgain, LeadsGoes
  <2>8. CASE i # 1
    <3>1. p \in Block
      <4>1. i - 1 \in 1..Len(chain)
        BY <2>5, <2>6, <2>8
      <4> QED BY <2>4, <4>1
    <3> DEFINE buf == [Read(u, p) EXCEPT !.next = e.next]
    <3>2. buf \in BufType
      <4>1. Read(u, p) \in BufType
        BY <1>2, <3>1, ReadFits DEF Fitting, Block
      <4> QED BY <2>1, <4>1 DEF BufType
    <3>3. w = Rewrite(u, p, buf)
      OBVIOUS
    <3> HIDE DEF buf, p, w
    <3>4. Leads(m, u, w)
      BY <1>2, <3>1, <3>2, <3>3, BlockFits, RewriteSane
    <3>5. Sane(m, w) /\ Kept(w)
      BY <3>4 DEF Leads, Sane
    <3>6. Leads(m, w, Rewrite(w, e.parent, Read(w, e.parent)))
      BY <2>1, <3>5, ReadFits, RewriteSane
    <3>7. Unlink(v, e) = Rewrite(w, e.parent, Read(w, e.parent))
      BY <1>1, <1>4, <2>8
    <3> QED BY <1>2, <2>1, <3>4, <3>6, <3>7, LeadsAgain, LeadsGoes
  <2> QED BY <2>7, <2>8
<1> QED BY <1>3, <1>4

\* A dircache block.
LEMMA NewCacheSane ==
  ASSUME NEW m, NEW v, Sane(m, v), NEW d \in Blk, NEW recs \in SUBSET (Blk \X NoName)
  PROVE  Goes(m, v, NewCache(v, d, recs))
<1>1. CASE ~Fits(v, 1)
  <2>1. NewCache(v, d, recs) = Raise(v, "full")
    BY <1>1 DEF NewCache
  <2> QED BY <2>1, RaiseSane DEF Errors, Goes, Leads
<1>2. CASE Fits(v, 1)
  <2> DEFINE b == NextFree(v, {})
             buf == CacheBlock(d, recs)
             u == Taken(v, b)
             w == Write(u, b, buf)
             dir == [Read(w, d) EXCEPT !.ptr = b]
  <2>1. NewCache(v, d, recs) = Rewrite(w, d, dir)
    BY <1>2 DEF NewCache
  <2>2. b \in Block /\ b \in Blk /\ buf \in BufType
    BY <1>2, FitsOne, FreshTyped DEF Sane, Block
  <2> HIDE DEF b, buf
  <2>3. Leads(m, v, u)
    BY <2>2, TakenSane
  <2> HIDE DEF u
  <2>4. Leads(m, u, w)
    BY <2>2, <2>3, BlockFits, WriteSane DEF Leads
  <2> HIDE DEF w
  <2>5. Fitting(w, d, Read(w, d)) /\ Sane(m, w)
    BY <2>4, ReadFits DEF Leads, Sane
  <2>6. Fitting(w, d, dir)
    <3>1. dir \in BufType /\ dir.valid = Read(w, d).valid
      BY <2>2, <2>5, Sizes DEF Fitting, BufType
    <3> QED BY <2>5, <3>1 DEF Fitting
  <2> HIDE DEF dir
  <2>7. Leads(m, w, Rewrite(w, d, dir))
    BY <2>5, <2>6, RewriteSane
  <2> QED BY <2>1, <2>3, <2>4, <2>7, LeadsAgain, LeadsGoes
<1> QED BY <1>1, <1>2

\* A directory's dircache is blocks of the volume.
LEMMA CacheChainTyped ==
  ASSUME NEW v, NEW buf \in BufType
  PROVE  CacheChain(v, buf) \in SUBSET Block
BY Sizes DEF CacheChain, BufType

LEMMA UpdateSane ==
  ASSUME NEW m, NEW v, Sane(m, v), NEW d \in Blk
  PROVE  Goes(m, v, UpdateDircache(v, d))
<1>1. CASE ~DirCache(v)
  BY <1>1 DEF UpdateDircache, Goes
<1>2. CASE DirCache(v)
  <2> DEFINE S == CacheChain(v, Read(v, d))
             w == Freed(v, S)
             recs == Records(View(w), d)
  <2>1. S \in SUBSET Block
    BY ReadFits, CacheChainTyped DEF Fitting, Sane
  <2>2. UpdateDircache(v, d) = IF Unreadable(w, d) THEN Raise(w, "chain")
                               ELSE NewCache(w, d, recs)
    BY <1>2 DEF UpdateDircache
  <2> HIDE DEF S
  <2>3. Leads(m, v, w)
    BY <2>1, FreedSane
  <2> HIDE DEF w
  <2>4. Sane(m, w) /\ recs \in SUBSET (Blk \X NoName)
    BY <2>3, ReadFits, MemberBlocks DEF Leads, Sane
  <2> HIDE DEF recs
  <2>5. Goes(m, w, NewCache(w, d, recs))
    BY <2>4, NewCacheSane
  <2>6. Goes(m, w, Raise(w, "chain"))
    BY <2>4, RaiseSane DEF Errors, Goes, Leads
  <2> QED BY <2>2, <2>3, <2>5, <2>6, LeadsAgain
<1> QED BY <1>1, <1>2

\* An entry's blocks are blocks of the volume.
LEMMA EntryBlocksTyped ==
  ASSUME NEW v, Kept(v), NEW e \in Entries
  PROVE  EntryBlocks(v, e) \in SUBSET Block
<1>1. e.blk \in Block /\ e.blk \in Blk /\ e.note \in Ptr
  BY DEF Entries, Block
<1>2. Read(v, e.blk) \in BufType
  BY <1>1, ReadFits DEF Fitting
<1>3. Read(v, e.blk).ptr \in Ptr /\ CacheChain(v, Read(v, e.blk)) \subseteq Block
  BY <1>2, CacheChainTyped DEF BufType
<1> QED BY <1>1, <1>3, Sizes DEF EntryBlocks

-----------------------------------------------------------------------------
(* The handlers *)

\* A call that returned leaves the bitmap synced, unless it stopped half-way.
Half == {"full", "chain"}
Done(m, v, w) == Sane(m, w) /\ w.bulk = v.bulk /\ (Synced(w) \/ w.err \in Half)

\* The same, of a call after which nothing more than before is unsynced.
Stays(m, v, w) ==
  Sane(m, w) /\ w.bulk = v.bulk /\ (Synced(v) => Synced(w) \/ w.err \in Half)

LEMMA GoesOn ==
  ASSUME NEW m, NEW u, NEW v, Goes(m, u, v), NEW w
  PROVE  /\ Sane(m, v)
         /\ v.err = u.err => (Goes(m, v, w) => Goes(m, u, w))
         /\ Done(m, v, w) => Done(m, u, w)
         /\ v.err # u.err => Done(m, u, v)
BY DEF Goes, Done, Half

LEMMA CommitDone ==
  ASSUME NEW m, NEW v, Sane(m, v)
  PROVE  Done(m, v, Commit(v))
BY CommitSane DEF Done, Leads

LEMMA MkdirDone ==
  ASSUME NEW m, NEW v, Sane(m, v), v.err = "none", Fits(v, 1), NEW d \in Blk, NEW n \in Names
  PROVE  Done(m, v, Mkdir(v, d, n))
<1> DEFINE b == NextFree(v, {})
           buf == Header("dir", d, n)
           v0 == Taken(v, b)
           v1 == Write(v0, b, buf)
           v2 == Link(v1, d, b, n, Read(v1, b), FALSE)
           v3 == IF DirCache(v) THEN NewCache(v2, b, {}) ELSE v2
           v4 == Then(v3, UpdateDircache(v3, d))
<1>1. Mkdir(v, d, n) = Then(v4, Commit(v4))
  BY DEF Mkdir
<1>2. b \in Block /\ b \in Blk /\ buf \in BufType
  BY FitsOne, FreshTyped DEF Sane, Block
<1> HIDE DEF b, buf
<1>3. Leads(m, v, v0)
  BY <1>2, TakenSane
<1> HIDE DEF v0
<1>4. Leads(m, v0, v1)
  BY <1>2, <1>3, BlockFits, WriteSane DEF Leads
<1> HIDE DEF v1
<1>5. Leads(m, v1, v2)
  <2>1. Sane(m, v1) /\ Read(v1, b) \in BufType
    BY <1>2, <1>4, ReadFits DEF Leads, Sane, Fitting
  <2> QED BY <1>2, <2>1, LinkSane
<1> HIDE DEF v2
<1>6. Leads(m, v, v2)
  BY <1>3, <1>4, <1>5, LeadsAgain
<1>7. Goes(m, v, v3)
  <2>1. Goes(m, v2, NewCache(v2, b, {}))
    BY <1>2, <1>6, NewCacheSane DEF Leads
  <2> QED BY <1>6, <2>1, LeadsAgain, LeadsGoes
<1> HIDE DEF v3
<1>8. Goes(m, v, v4)
  <2>1. Goes(m, v3, UpdateDircache(v3, d))
    BY <1>7, UpdateSane DEF Goes
  <2> QED BY <1>7, <2>1, GoesOn DEF Then
<1> HIDE DEF v4
<1>9. Done(m, v4, Commit(v4))
  BY <1>8, CommitDone DEF Goes
<1> QED BY <1>1, <1>8, <1>9, GoesOn DEF Then

\* The places makedirs goes through.
Step(m, v) == {r \in [vol : Volume, blk : Blk] : Stays(m, v, r.vol)}

LEMMA SegmentStays ==
  ASSUME NEW m, NEW v, NEW r \in Step(m, v), NEW p \in Seq(Names), p # <<>>
  PROVE  MakeSegment(r, p) \in Step(m, v)
<1> DEFINE n == Last(p)
           u == r.vol
           w == Scanned(u, r.blk)
           child == Find(w, r.blk, n)
           at == InDir(w, p)
           b == NextFree(w, {})
           x == Mkdir(at.vol, at.blk, n)
<1>1. r \in [vol : Volume, blk : Blk] /\ Stays(m, v, u) /\ r.blk \in Blk /\ Sane(m, u)
      /\ u \in Volume /\ Kept(u)
  BY DEF Step, Stays, Sane
<1>2. CASE u.err # "none"
  BY <1>2 DEF MakeSegment
<1>3. CASE u.err = "none"
  <2>1. MakeSegment(r, p) =
          IF p \in DOMAIN u.paths THEN [r EXCEPT !.blk = u.paths[p]]
          ELSE IF n \in w.names[r.blk]
          THEN IF child = 0 \/ ~IsDirectory(Read(w, child))
               THEN [r EXCEPT !.vol = Raise(w, "exists")]
               ELSE [vol |-> RememberPath(w, p, child), blk |-> child]
          ELSE IF at.blk = 0 \/ Find(at.vol, at.blk, n) # 0
          THEN [r EXCEPT !.vol = Raise(at.vol, "exists")]
          ELSE IF ~Fits(w, 1) THEN [r EXCEPT !.vol = Raise(at.vol, "full")]
          ELSE [vol |-> Then(x, RememberPath(x, p, b)), blk |-> b]
    BY <1>3 DEF MakeSegment
  <2>2. n \in Names /\ n \in NoName
    BY FrontTyped DEF NoName
  <2> HIDE DEF n
  <2>3. Alike(u, w) /\ Kept(w)
    BY <1>1, ScannedAlike, AlikeKept
  <2>4. (Synced(v) => Synced(u)) /\ u.bulk = v.bulk
    BY <1>1, <1>3 DEF Stays, Half
  <2> HIDE DEF u, w
  <2>5. child \in Ptr
    BY <1>1, <2>2, <2>3, FindTyped
  <2>6. Found(w, at)
    BY <2>3, InDirFinds
  <2> HIDE DEF child, at
  <2>7. ASSUME NEW z, Alike(w, z)
        PROVE  z \in Volume /\ Stays(m, v, z) /\ Sane(m, z) /\ z.bulk = v.bulk /\ z.err = "none"
               /\ (Synced(v) => Synced(z))
    <3>1. Alike(u, z)
      BY <2>3, <2>7, AlikeAgain
    <3>2. Leads(m, u, z)
      BY <1>1, <3>1, AlikeSane
    <3> QED BY <1>3, <2>4, <3>1, <3>2 DEF Leads, Alike, Stays, Synced
  <2>8. Alike(w, w) /\ Alike(w, at.vol)
    BY <2>3, <2>6, AlikeSelf DEF Found, Alike
  <2>9. ASSUME NEW z, Alike(w, z), NEW why \in {"exists", "full"}
        PROVE  [r EXCEPT !.vol = Raise(z, why)] \in Step(m, v)
    <3> DEFINE y == Raise(z, why)
    <3>1. Sane(m, z) /\ (Synced(v) => Synced(z)) /\ z.bulk = v.bulk
      BY <2>7, <2>9
    <3>2. Sane(m, y) /\ y.bulk = z.bulk
      BY <3>1, RaiseSane DEF Errors, Leads
    <3>3. y.bits = z.bits /\ y.free = z.free
      BY DEF Raise
    <3> HIDE DEF y
    <3>4. y \in Volume /\ Stays(m, v, y)
      BY <3>1, <3>2, <3>3 DEF Stays, Synced, Sane, Kept
    <3> QED BY <1>1, <3>4 DEF Step, y
  <2>10. CASE p \in DOMAIN u.paths
    <3>1. u.paths \in PathCache
      BY <1>1, Parts DEF u
    <3>2. u.paths[p] \in Blk
      BY <2>10, <3>1 DEF PathCache
    <3>3. MakeSegment(r, p) = [r EXCEPT !.blk = u.paths[p]]
      BY <2>1, <2>10
    <3> QED BY <1>1, <3>2, <3>3 DEF Step, u
  <2>11. CASE /\ p \notin DOMAIN u.paths /\ n \in w.names[r.blk]
              /\ ~(child = 0 \/ ~IsDirectory(Read(w, child)))
    <3>1. MakeSegment(r, p) = [vol |-> RememberPath(w, p, child), blk |-> child]
      BY <2>1, <2>11
    <3>2. child \in Blk
      BY <2>5, <2>11, Sizes DEF Block
    <3>3. Alike(w, RememberPath(w, p, child))
      BY <2>3, <3>2, RememberedAlike DEF Alike
    <3> QED BY <2>7, <3>1, <3>2, <3>3 DEF Step
  <2>12. CASE /\ p \notin DOMAIN u.paths /\ n \notin w.names[r.blk]
              /\ ~(at.blk = 0 \/ Find(at.vol, at.blk, n) # 0) /\ Fits(w, 1)
    <3>1. MakeSegment(r, p) = [vol |-> Then(x, RememberPath(x, p, b)), blk |-> b]
      BY <2>1, <2>12
    <3>2. b \in Blk
      BY <2>3, <2>12, FitsOne DEF Block
    <3>3. at.blk \in Blk
      BY <2>6, <2>12 DEF Found, Place, Blk
    <3>4. Sane(m, at.vol) /\ at.vol.err = "none" /\ at.vol.bulk = v.bulk
      BY <2>7, <2>8
    <3>5. Fits(at.vol, 1)
      BY <2>8, <2>12 DEF Fits, Alike
    <3>6. Done(m, at.vol, x)
      BY <2>2, <3>3, <3>4, <3>5, MkdirDone DEF x
    <3> HIDE DEF x, b
    <3>7. Stays(m, v, x) /\ Sane(m, x) /\ x \in Volume
      BY <3>4, <3>6 DEF Done, Stays, Sane, Kept
    <3> DEFINE y == RememberPath(x, p, b)
    <3>8. Alike(x, y)
      BY <3>2, <3>7, RememberedAlike
    <3> HIDE DEF y
    <3>9. Leads(m, x, y)
      BY <3>7, <3>8, AlikeSane
    <3>10. Stays(m, v, y) /\ y \in Volume
      BY <3>7, <3>8, <3>9 DEF Stays, Leads, Alike, Synced
    <3> QED BY <3>1, <3>2, <3>7, <3>10 DEF Step, Then, y
  <2> HIDE DEF x, b
  <2> QED BY <2>1, <2>8, <2>9, <2>10, <2>11, <2>12
<1> QED BY <1>2, <1>3

\* makedirs.
LEMMA MakedirsStays ==
  ASSUME NEW m, NEW v, Sane(m, v), NEW p \in Seq(Names)
  PROVE  Stays(m, v, Makedirs(v, p))
<1> DEFINE N == Len(p)
           X == Step(m, v)
           u == [v EXCEPT !.made = p]
           top == [vol |-> u, blk |-> Root]
           Eqn(f) == f = [k \in 0..N |-> IF k = 0 THEN top
                                         ELSE MakeSegment(f[k-1], SubSeq(p, 1, k))]
           r == CHOOSE f : Eqn(f)
<1>1. N \in Nat
  OBVIOUS
<1>2. \A k \in 1..N : SubSeq(p, 1, k) \in Seq(Names) /\ SubSeq(p, 1, k) # <<>>
  <2> TAKE k \in 1..N
  <2>1. SubSeq(p, 1, k) \in Seq(Names) /\ Len(SubSeq(p, 1, k)) = k
    OBVIOUS
  <2>2. k # 0 /\ Len(<<>>) = 0
    BY <1>1
  <2> QED BY <2>1, <2>2
<1>3. top \in X
  <2>1. u \in Volume /\ u.flavor = v.flavor /\ u.disk = v.disk /\ u.bits = v.bits /\ u.bulk = v.bulk
        /\ u.dirs = v.dirs /\ u.out = v.out /\ u.err = v.err /\ u.free = v.free
    BY DEF Sane, Kept, Volume
  <2> HIDE DEF u
  <2>2. Sane(m, u)
    BY <2>1, MemorySane
  <2>3. Stays(m, v, u)
    BY <2>1, <2>2 DEF Stays, Synced
  <2> QED BY <2>1, <2>3, Sizes DEF Step
<1>4. \A x \in X, k \in 1..N : MakeSegment(x, SubSeq(p, 1, k)) \in X
  BY <1>2, SegmentStays
<1>5. \E f : Eqn(f)
  <2> DEFINE g == [k \in 1..N |-> [x \in X |-> MakeSegment(x, SubSeq(p, 1, k))]]
  <2> HIDE DEF X, top
  <2>1. g \in Steps(X, N)
    BY <1>4 DEF Steps
  <2> HIDE DEF N
  <2>2. PICK f : BuiltUp(f, X, top, N, g)
    <3> HIDE DEF g
    <3> QED BY <1>1, <1>3, <2>1, BuiltUpExists
  <2>3. \A k \in 1..N : f[k] = MakeSegment(f[k - 1], SubSeq(p, 1, k))
    <3> TAKE k \in 1..N
    <3>1. k - 1 \in 0..N
      BY <1>1
    <3>2. f[k - 1] \in X /\ g[k] = [x \in X |-> MakeSegment(x, SubSeq(p, 1, k))]
      BY <2>2, <3>1 DEF BuiltUp
    <3> QED BY <2>2, <3>2 DEF BuiltUp
  <2>4. \A k \in 0..N : k = 0 \/ k \in 1..N
    BY <1>1
  <2> HIDE DEF g
  <2>5. Eqn(f)
    BY <2>2, <2>3, <2>4 DEF BuiltUp
  <2> HIDE DEF Eqn
  <2> QED BY <2>5
<1>6. Eqn(r)
  <2> HIDE DEF Eqn
  <2> QED BY <1>5
<1> HIDE DEF r, X, top
<1>7. \A k \in 0..N : r[k] = IF k = 0 THEN top ELSE MakeSegment(r[k-1], SubSeq(p, 1, k))
  BY <1>6
<1> DEFINE T == {k \in Nat : k <= N => r[k] \in X}
<1>8. 0 \in T
  BY <1>1, <1>3, <1>7
<1>9. ASSUME NEW k \in Nat, k \in T PROVE k + 1 \in T
  <2> SUFFICES ASSUME k + 1 <= N PROVE r[k + 1] \in X
    OBVIOUS
  <2> HIDE DEF N
  <2>1. k + 1 \in 0..N /\ k + 1 \in 1..N /\ (k + 1) - 1 = k /\ k + 1 # 0 /\ k <= N
    BY <1>1
  <2>2. r[k + 1] = MakeSegment(r[k], SubSeq(p, 1, k + 1))
    BY <1>7, <2>1
  <2> QED BY <1>4, <1>9, <2>1, <2>2
<1>10. N \in T
  <2> HIDE DEF T
  <2> QED BY <1>1, <1>8, <1>9, VolumeInduction
<1>11. Makedirs(v, p) = IF v.made = p THEN v ELSE r[N].vol
  BY DEF Makedirs, r, top
<1>12. Stays(m, v, r[N].vol) /\ Stays(m, v, v)
  BY <1>1, <1>10 DEF X, Step, Stays
<1> QED BY <1>11, <1>12

\* One entry is removed.
LEMMA RemoveDone ==
  ASSUME NEW m, NEW v, Sane(m, v), v.err = "none", NEW e \in Entries
  PROVE  /\ Done(m, v, RemoveEntry(v, e))
         /\ RemoveEntry(v, e).err \in {"none"} \cup Half
<1> DEFINE v1 == Unlink(v, e)
           u == ForgetPaths(v1)
           S == EntryBlocks(v1, e)
           w == Freed(u, S)
           v2 == UpdateDircache(w, e.parent)
<1>1. RemoveEntry(v, e) = Then(v1, Then(v2, Commit(v2)))
  BY DEF RemoveEntry
<1>2. Goes(m, v, v1) /\ (v1.err = "none" => e.parent \in Blk)
  BY UnlinkSane
<1> HIDE DEF v1
<1>3. CASE v1.err # "none"
  <2>1. RemoveEntry(v, e) = v1
    BY <1>1, <1>3 DEF Then
  <2> QED BY <1>2, <1>3, <2>1 DEF Goes, Done, Half
<1>4. CASE v1.err = "none"
  <2>1. Sane(m, v1) /\ Kept(v1) /\ v1 \in Volume
    BY <1>2 DEF Goes, Sane, Kept
  <2>2. Alike(v1, u) /\ S \in SUBSET Block
    BY <2>1, ForgottenAlike, EntryBlocksTyped
  <2> HIDE DEF u, S
  <2>3. Leads(m, v1, u)
    BY <2>1, <2>2, AlikeSane
  <2>4. Leads(m, u, w)
    BY <2>2, <2>3, FreedSane DEF Leads
  <2> HIDE DEF w
  <2>5. Goes(m, w, v2)
    BY <1>2, <1>4, <2>4, UpdateSane DEF Leads
  <2> HIDE DEF v2
  <2>6. Sane(m, v2) /\ v2.bulk = v.bulk /\ v2.err \in {"none"} \cup Half
    BY <1>2, <1>4, <2>3, <2>4, <2>5 DEF Goes, Leads, Half
  <2>7. Leads(m, v2, Commit(v2)) /\ Synced(Commit(v2))
    BY <2>6, CommitSane
  <2>8. RemoveEntry(v, e) = IF v2.err = "none" THEN Commit(v2) ELSE v2
    BY <1>1, <1>4 DEF Then
  <2> QED BY <2>6, <2>7, <2>8 DEF Done, Leads
<1> QED BY <1>3, <1>4

LEMMA ReparsedTyped ==
  ASSUME NEW v, Kept(v), NEW e \in Entries
  PROVE  Reparsed(v, e) \in Entries
<1>1. e.blk \in Block /\ e.blk \in Blk
  BY DEF Entries, Block
<1>2. Read(v, e.blk) \in BufType
  BY <1>1, ReadFits DEF Fitting
<1> QED BY <1>1, <1>2, EntryTyped DEF Reparsed

\* A recursive delete under way: the directories it is in, and what is left to
\* delete of each.
Frame == [entry : Entries, kids : SUBSET Entries]
Deleting(m, v) ==
  {s \in [vol : Volume, frames : Seq(Frame)] :
     /\ Sane(m, s.vol) /\ s.vol.bulk = v.bulk
     /\ s.vol.err \in {"none"} \cup Half
     /\ s.vol.err = "none" => Len(s.frames) > 0}

LEMMA OpenedDeletes ==
  ASSUME NEW m, NEW v, NEW s \in [vol : Volume, frames : Seq(Frame)], Sane(m, s.vol),
         s.vol.bulk = v.bulk, s.vol.err = "none", NEW e \in Entries
  PROVE  Opened(s, e) \in Deleting(m, v)
<1>1. e.blk \in Blk /\ Kept(s.vol) /\ s.frames \in Seq(Frame)
  BY DEF Entries, Block, Sane
<1>2. CASE e.kind = "dir" /\ Unreadable(s.vol, e.blk)
  <2> DEFINE w == Raise(s.vol, "chain")
  <2>1. Opened(s, e) = [s EXCEPT !.vol = w]
    BY <1>2 DEF Opened
  <2>2. Sane(m, w) /\ w.bulk = v.bulk /\ w.err = "chain"
    BY RaiseSane DEF Errors, Leads
  <2> HIDE DEF w
  <2>3. w \in Volume
    BY <2>2 DEF Sane, Kept
  <2> QED BY <1>1, <2>1, <2>2, <2>3 DEF Deleting, Half
<1>3. CASE ~(e.kind = "dir" /\ Unreadable(s.vol, e.blk))
  <2> DEFINE frame == [entry |-> e, kids |-> IF e.kind = "dir" THEN Listed(s.vol, e.blk) ELSE {}]
             frames == <<frame>> \o s.frames
  <2>1. Opened(s, e) = [s EXCEPT !.frames = frames]
    BY <1>3 DEF Opened
  <2>2. frame \in Frame
    <3>1. Listed(s.vol, e.blk) \in SUBSET Entries
      BY <1>1, ListedTyped
    <3> QED BY <3>1 DEF Frame
  <2> HIDE DEF frame
  <2>3. frames \in Seq(Frame) /\ Len(frames) > 0
    <3>1. <<frame>> \in Seq(Frame) /\ Len(<<frame>>) = 1 /\ Len(s.frames) \in Nat
      BY <1>1, <2>2
    <3>2. Len(<<frame>> \o s.frames) = Len(<<frame>>) + Len(s.frames)
      BY <1>1, <3>1, Joined
    <3>3. Len(<<frame>> \o s.frames) > 0
      BY <3>1, <3>2
    <3>4. <<frame>> \o s.frames \in Seq(Frame)
      BY <1>1, <3>1
    <3> QED BY <3>3, <3>4
  <2> HIDE DEF frames
  <2> QED BY <2>1, <2>3 DEF Deleting
<1> QED BY <1>2, <1>3

LEMMA StepDeletes ==
  ASSUME NEW m, NEW v, NEW s \in Deleting(m, v)
  PROVE  DeleteStep(s) \in Deleting(m, v)
<1> DEFINE frame == s.frames[1]
           kid == First(frame.kids)
<1>1. s \in [vol : Volume, frames : Seq(Frame)] /\ Sane(m, s.vol) /\ s.vol.bulk = v.bulk
      /\ s.frames \in Seq(Frame) /\ s.vol.err \in {"none"} \cup Half
  BY DEF Deleting
<1>2. CASE s.vol.err # "none"
  BY <1>2 DEF DeleteStep
<1>3. CASE s.vol.err = "none"
  <2>1. Len(s.frames) > 0
    BY <1>3 DEF Deleting
  <2>2. frame \in Frame /\ frame.entry \in Entries /\ frame.kids \in SUBSET Entries
    <3>1. frame \in Frame
      BY <1>1, <2>1
    <3> QED BY <3>1 DEF Frame
  <2>3. DeleteStep(s) =
          IF frame.kids # {} THEN Opened([s EXCEPT !.frames[1].kids = @ \ {kid}], kid)
          ELSE IF Len(s.frames) = 1 THEN s
          ELSE [vol |-> RemoveEntry(s.vol, Reparsed(s.vol, frame.entry)),
                frames |-> Tail(s.frames)]
    BY <1>3 DEF DeleteStep
  <2>4. CASE frame.kids # {}
    <3> DEFINE left == [frame EXCEPT !.kids = @ \ {kid}]
               frames == [s.frames EXCEPT ![1] = left]
               t == [s EXCEPT !.frames = frames]
    <3>1. kid \in Entries
      BY <2>2, <2>4, FirstListed
    <3>2. left \in Frame
      BY <2>2 DEF Frame
    <3>3. [s EXCEPT !.frames[1].kids = @ \ {kid}] = t
      OBVIOUS
    <3> HIDE DEF left
    <3>4. frames \in Seq(Frame)
      BY <1>1, <2>1, <3>2
    <3> HIDE DEF frames
    <3>5. t \in [vol : Volume, frames : Seq(Frame)] /\ t.vol = s.vol
      BY <1>1, <3>4
    <3>6. DeleteStep(s) = Opened(t, kid)
      BY <2>3, <2>4, <3>3
    <3> HIDE DEF t, kid
    <3> QED BY <1>1, <1>3, <3>1, <3>5, <3>6, OpenedDeletes
  <2>5. CASE frame.kids = {} /\ Len(s.frames) = 1
    BY <2>3, <2>5
  <2>6. CASE frame.kids = {} /\ Len(s.frames) # 1
    <3> DEFINE w == RemoveEntry(s.vol, Reparsed(s.vol, frame.entry))
               frames == Tail(s.frames)
    <3>1. DeleteStep(s) = [vol |-> w, frames |-> frames]
      BY <2>3, <2>6
    <3>2. Reparsed(s.vol, frame.entry) \in Entries
      BY <1>1, <2>2, ReparsedTyped DEF Sane
    <3>3. Done(m, s.vol, w) /\ w.err \in {"none"} \cup Half
      BY <1>1, <1>3, <3>2, RemoveDone
    <3> HIDE DEF w
    <3>4. Sane(m, w) /\ w.bulk = v.bulk /\ w \in Volume
      BY <1>1, <3>3 DEF Done, Sane, Kept
    <3>5. frames \in Seq(Frame) /\ Len(frames) > 0
      <4> DEFINE t == s.frames
      <4>1. t \in Seq(Frame) /\ Len(t) > 0 /\ Len(t) # 1
        BY <1>1, <2>1, <2>6
      <4> HIDE DEF t
      <4>2. Tail(t) \in Seq(Frame) /\ Len(Tail(t)) > 0
        <5>1. t # <<>> /\ Len(t) \in Nat
          BY <4>1
        <5>2. Tail(t) \in Seq(Frame) /\ Len(Tail(t)) = Len(t) - 1
          BY <4>1, <5>1
        <5> QED BY <4>1, <5>1, <5>2
      <4> QED BY <4>2 DEF t
    <3> HIDE DEF frames
    <3> QED BY <3>1, <3>3, <3>4, <3>5 DEF Deleting
  <2> QED BY <2>4, <2>5, <2>6
<1> QED BY <1>2, <1>3

\* delete.
LEMMA DeleteDone ==
  ASSUME NEW m, NEW v, Sane(m, v), v.err = "none", NEW e \in Entries
  PROVE  /\ Done(m, v, Delete(v, e))
         /\ Delete(v, e).err \in {"none"} \cup Half
<1> DEFINE N == 2*NBlocks
           X == Deleting(m, v)
           top == Opened([vol |-> v, frames |-> <<>>], e)
           Eqn(f) == f = [k \in 0..N |-> IF k = 0 THEN top ELSE DeleteStep(f[k-1])]
           s == CHOOSE f : Eqn(f)
<1>1. N \in Nat
  BY Sizes
<1>2. top \in X
  <2>1. v \in Volume /\ <<>> \in Seq(Frame)
    BY DEF Sane, Kept
  <2> QED BY <2>1, OpenedDeletes
<1>3. \A x \in X : DeleteStep(x) \in X
  BY StepDeletes
<1>4. \E f : Eqn(f)
  <2> DEFINE g == [k \in 1..N |-> [x \in X |-> DeleteStep(x)]]
  <2> HIDE DEF X, top, N
  <2>1. g \in Steps(X, N)
    BY <1>3 DEF Steps
  <2>2. PICK f : BuiltUp(f, X, top, N, g)
    <3> HIDE DEF g
    <3> QED BY <1>1, <1>2, <2>1, BuiltUpExists
  <2>3. \A k \in 1..N : f[k] = DeleteStep(f[k - 1])
    <3> TAKE k \in 1..N
    <3>1. k - 1 \in 0..N
      BY <1>1
    <3>2. f[k - 1] \in X /\ g[k] = [x \in X |-> DeleteStep(x)]
      BY <2>2, <3>1 DEF BuiltUp
    <3> QED BY <2>2, <3>2 DEF BuiltUp
  <2>4. \A k \in 0..N : k = 0 \/ k \in 1..N
    BY <1>1
  <2> HIDE DEF g
  <2>5. Eqn(f)
    BY <2>2, <2>3, <2>4 DEF BuiltUp
  <2> HIDE DEF Eqn
  <2> QED BY <2>5
<1>5. Eqn(s)
  <2> HIDE DEF Eqn
  <2> QED BY <1>4
<1> HIDE DEF s, X, top, N
<1>6. \A k \in 0..N : s[k] = IF k = 0 THEN top ELSE DeleteStep(s[k-1])
  BY <1>5
<1> DEFINE T == {k \in Nat : k <= N => s[k] \in X}
<1>7. 0 \in T
  BY <1>1, <1>2, <1>6
<1>8. ASSUME NEW k \in Nat, k \in T PROVE k + 1 \in T
  <2> SUFFICES ASSUME k + 1 <= N PROVE s[k + 1] \in X
    OBVIOUS
  <2>1. k + 1 \in 0..N /\ k + 1 \in 1..N /\ (k + 1) - 1 = k /\ k + 1 # 0 /\ k <= N
    BY <1>1
  <2>2. s[k + 1] = DeleteStep(s[k])
    BY <1>6, <2>1
  <2> QED BY <1>3, <1>8, <2>1, <2>2
<1>9. N \in T
  <2> HIDE DEF T
  <2> QED BY <1>1, <1>7, <1>8, VolumeInduction
<1> DEFINE v1 == s[N].vol
           w == RemoveEntry(v1, Reparsed(v1, e))
<1>10. Delete(v, e) = Then(v1, w)
  BY DEF Delete, s, top, N
<1>11. Sane(m, v1) /\ v1.bulk = v.bulk /\ v1.err \in {"none"} \cup Half
  BY <1>1, <1>9 DEF X, Deleting
<1> HIDE DEF v1
<1>12. ASSUME v1.err = "none" PROVE Done(m, v1, w) /\ w.err \in {"none"} \cup Half
  BY <1>11, <1>12, ReparsedTyped, RemoveDone DEF Sane
<1> HIDE DEF w
<1> QED BY <1>10, <1>11, <1>12 DEF Then, Done

\* write_file, once there is no file of that name.
LEMMA StoreDone ==
  ASSUME NEW m, NEW v, Sane(m, v), v.err = "none", NEW d \in Blk, NEW n \in Names,
         NEW ver \in Versions, NEW sourceFails \in BOOLEAN
  PROVE  Done(m, v, Store(v, d, n, ver, sourceFails))
<1> DEFINE b == NextFree(v, {})
           c == NextFree(v, {b})
           got == <<b, c>>
           v0 == Taken(v, b)
           v1 == Taken(v0, c)
           v2 == UpdateDircache(DataFirst(v1, d, n, got, ver), d)
           res == Store(v, d, n, ver, sourceFails)
<1>1. res = IF ~Fits(v, 2)
            THEN Raise(IF FFS(v) /\ Fits(v, 1) THEN v0 ELSE v, "full")
            ELSE IF sourceFails THEN Raise(Abandon(v1, got), "source")
            ELSE Then(v2, Commit(v2))
  BY DEF Store
<1>2. CASE ~Fits(v, 2)
  <2> DEFINE w == IF FFS(v) /\ Fits(v, 1) THEN v0 ELSE v
  <2>1. Sane(m, w) /\ w.bulk = v.bulk
    <3>1. ASSUME Fits(v, 1) PROVE Leads(m, v, v0)
      BY <3>1, FitsOne, TakenSane DEF Sane, Block
    <3> QED BY <3>1 DEF Leads
  <2>2. res = Raise(w, "full")
    BY <1>1, <1>2
  <2> HIDE DEF w, res
  <2>3. Sane(m, res) /\ res.err = "full" /\ res.bulk = w.bulk
    BY <2>1, <2>2, RaiseSane DEF Errors, Leads
  <2> QED BY <2>1, <2>3 DEF Done, Half, res
<1>3. CASE Fits(v, 2)
  <2>1. b \in Block /\ c \in Block /\ b \in Blk /\ c \in Blk
    BY <1>3, FitsTwo DEF Sane, Block
  <2> HIDE DEF b, c
  <2>2. Leads(m, v, v0)
    BY <2>1, TakenSane
  <2> HIDE DEF v0
  <2>3. Leads(m, v0, v1)
    BY SMTT(40), <2>1, <2>2, TakenSane DEF Leads
  <2> HIDE DEF v1
  <2>4. Leads(m, v, v1) /\ Sane(m, v1)
    BY <2>2, <2>3, LeadsAgain DEF Leads
  <2>5. CASE sourceFails
    <3> DEFINE w == Freed(v1, {b, c})
               u == WriteBits(w)
    <3>1. res = Raise(u, "source")
      BY <1>1, <1>3, <2>5 DEF Abandon
    <3>2. {b, c} \in SUBSET Block
      BY <2>1
    <3>3. Leads(m, v1, w)
      BY <2>4, <3>2, FreedSane
    <3> HIDE DEF w
    <3>4. Leads(m, w, u) /\ Synced(u)
      BY <3>3, BitsSane DEF Leads
    <3> HIDE DEF u
    <3>5. Sane(m, Raise(u, "source")) /\ Raise(u, "source").bulk = u.bulk
      BY <3>4, RaiseSane DEF Errors, Leads
    <3>6. Synced(Raise(u, "source"))
      BY <3>4 DEF Synced, Raise
    <3> HIDE DEF res
    <3> QED BY <2>4, <3>1, <3>3, <3>4, <3>5, <3>6 DEF Done, Leads, res
  <2>6. CASE ~sourceFails
    <3> DEFINE data == DataBlock(ver)
               header == [Header("file", d, n) EXCEPT !.ptr = c, !.ver = ver]
               w == Write(v1, c, data)
               u == Link(w, d, b, n, header, TRUE)
    <3>1. res = Then(v2, Commit(v2))
      BY <1>1, <1>3, <2>6
    <3>2. v2 = UpdateDircache(u, d)
      BY DEF DataFirst, LinkFile
    <3>3. data \in BufType /\ header \in BufType
      <4>1. Header("file", d, n) \in BufType /\ data \in BufType
        BY FreshTyped
      <4> QED BY ZenonT(40), <2>1, <4>1, Sizes DEF BufType
    <3> HIDE DEF data, header, v2
    <3>4. Leads(m, v1, w)
      BY <2>1, <2>4, <3>3, BlockFits, WriteSane
    <3> HIDE DEF w
    <3>5. Leads(m, w, u)
      <4>1. Sane(m, w) /\ TRUE \in BOOLEAN
        BY <3>4 DEF Leads
      <4> QED BY <2>1, <3>3, <4>1, LinkSane
    <3> HIDE DEF u
    <3>6. Leads(m, v, u) /\ Sane(m, u)
      BY <2>4, <3>4, <3>5, LeadsAgain DEF Leads
    <3>7. Goes(m, v, v2)
      <4>1. Goes(m, u, v2)
        BY <3>2, <3>6, UpdateSane
      <4> QED BY <3>6, <4>1, LeadsAgain
    <3>8. Done(m, v2, Commit(v2))
      BY <3>7, CommitDone DEF Goes
    <3> HIDE DEF res
    <3> QED BY <3>1, <3>7, <3>8, GoesOn DEF Then, res
  <2> QED BY <2>5, <2>6
<1> QED BY <1>2, <1>3

LEMMA WriteFileDone ==
  ASSUME NEW m, NEW v, Sane(m, v), v.err = "none", NEW d \in Blk, NEW n \in Names,
         NEW ver \in Versions, NEW sourceFails \in BOOLEAN
  PROVE  Done(m, v, WriteFile(v, d, n, ver, sourceFails))
<1> DEFINE old == Find(v, d, n)
           e == Entry(v.disk[old], old)
           v1 == IF old = 0 THEN v ELSE Delete(v, e)
           w == Store(v1, d, n, ver, sourceFails)
<1>1. WriteFile(v, d, n, ver, sourceFails) = Then(v1, w)
  BY DEF WriteFile
<1>2. old \in Ptr
  BY FindTyped DEF Sane, NoName
<1>3. ASSUME old # 0 PROVE e \in Entries
  <2>1. old \in Block /\ old \in Blk
    BY <1>2, <1>3, Sizes DEF Block
  <2>2. v.disk[old] \in BufType
    BY <2>1, Parts DEF Sane, Kept, Bufs
  <2> QED BY <2>1, <2>2, EntryTyped
<1> HIDE DEF old, e
<1>4. Sane(m, v1) /\ v1.bulk = v.bulk
      /\ (v1.err # "none" => Synced(v1) \/ v1.err \in Half)
  BY <1>3, DeleteDone DEF Done
<1> HIDE DEF v1
<1>5. ASSUME v1.err = "none" PROVE Done(m, v1, w)
  BY <1>4, <1>5, StoreDone
<1> HIDE DEF w
<1> QED BY <1>1, <1>4, <1>5 DEF Then, Done

\* rename.
LEMMA SpillSane ==
  ASSUME NEW m, NEW v, Sane(m, v), NEW c \in Block
  PROVE  Leads(m, v, Spill(v, c))
<1> DEFINE v1 == Taken(v, c)
           v2 == Write(v1, c, Note)
<1>1. Spill(v, c) = WriteBits(v2)
  BY DEF Spill
<1>2. Leads(m, v, v1)
  BY TakenSane DEF Block
<1> HIDE DEF v1
<1>3. Leads(m, v1, v2)
  BY <1>2, FreshTyped, BlockFits, WriteSane DEF Leads
<1> HIDE DEF v2
<1>4. Leads(m, v2, WriteBits(v2))
  BY <1>3, BitsSane DEF Leads
<1> QED BY <1>1, <1>2, <1>3, <1>4, LeadsAgain

LEMMA BothSane ==
  ASSUME NEW m, NEW v, Sane(m, v), NEW from \in Blk, NEW to \in Blk
  PROVE  Goes(m, v, UpdateBoth(v, from, to))
<1> DEFINE w == UpdateDircache(v, from)
<1>1. UpdateBoth(v, from, to) = Then(w, IF to = from THEN w ELSE UpdateDircache(w, to))
  BY DEF UpdateBoth
<1>2. Goes(m, v, w)
  BY UpdateSane
<1> HIDE DEF w
<1>3. Goes(m, w, UpdateDircache(w, to))
  BY <1>2, UpdateSane DEF Goes
<1> QED BY <1>1, <1>2, <1>3 DEF Then, Goes

LEMMA RenameDone ==
  ASSUME NEW m, NEW v, Sane(m, v), v.err = "none", NEW e \in Entries, NEW d \in Blk,
         NEW n \in Names, NEW spill \in BOOLEAN
  PROVE  Done(m, v, Rename(v, e, d, n, spill))
<1> DEFINE v1 == Unlink(v, e)
           c == IF spill THEN NextFree(v1, {}) ELSE e.note
           v2 == IF spill THEN Spill(v1, c) ELSE v1
           buf == Renamed(Read(v2, e.blk), d, n, c)
           v3 == Rewrite(v2, e.blk, buf)
           u == Link(v3, d, e.blk, n, Read(v3, e.blk), FALSE)
           v4 == UpdateBoth(u, e.parent, d)
           res == Rename(v, e, d, n, spill)
<1>1. res = Then(v1, IF spill /\ ~Fits(v1, 1) THEN Raise(v1, "full") ELSE Then(v4, Commit(v4)))
  BY DEF Rename
<1>2. Goes(m, v, v1) /\ (v1.err = "none" => e.parent \in Blk)
  BY UnlinkSane
<1> HIDE DEF v1, res
<1>3. CASE v1.err # "none"
  <2>1. res = v1
    BY <1>1, <1>3 DEF Then
  <2> QED BY <1>2, <1>3, <2>1 DEF Goes, Done, Half, res
<1>4. CASE v1.err = "none" /\ spill /\ ~Fits(v1, 1)
  <2>1. res = Raise(v1, "full")
    BY <1>1, <1>4 DEF Then
  <2>2. Sane(m, Raise(v1, "full")) /\ Raise(v1, "full").err = "full"
        /\ Raise(v1, "full").bulk = v1.bulk
    BY <1>2, RaiseSane DEF Goes, Errors, Leads
  <2> QED BY <1>2, <2>1, <2>2 DEF Goes, Done, Half, res
<1>5. CASE v1.err = "none" /\ ~(spill /\ ~Fits(v1, 1))
  <2>1. res = Then(v4, Commit(v4))
    BY <1>1, <1>5 DEF Then
  <2>2. Sane(m, v1) /\ Kept(v1) /\ v1.bulk = v.bulk /\ e.parent \in Blk
        /\ e.blk \in Block /\ e.blk \in Blk /\ e.note \in Ptr
    BY <1>2, <1>5 DEF Goes, Sane, Entries, Block
  <2>3. c \in Ptr /\ (spill => c \in Block)
    <3>1. ASSUME spill PROVE NextFree(v1, {}) \in Block
      BY <1>5, <2>2, <3>1, FitsOne
    <3> QED BY <2>2, <3>1, Sizes
  <2> HIDE DEF c
  <2>4. Leads(m, v1, v2)
    <3>1. CASE spill
      BY <2>2, <2>3, <3>1, SpillSane
    <3>2. CASE ~spill
      BY <2>2, <3>2 DEF Leads
    <3> QED BY <3>1, <3>2
  <2> HIDE DEF v2
  <2>5. buf \in BufType
    <3>1. Read(v2, e.blk) \in BufType
      BY <2>2, <2>4, ReadFits DEF Leads, Sane, Fitting
    <3>2. c \in Ptr /\ d \in 0..NBlocks /\ n \in Names \cup {0}
      BY <2>3, Sizes
    <3> QED BY <3>1, <3>2 DEF BufType, Renamed
  <2> HIDE DEF buf
  <2>6. Leads(m, v2, v3)
    BY <2>2, <2>4, <2>5, BlockFits, RewriteSane DEF Leads
  <2> HIDE DEF v3
  <2>7. Leads(m, v3, u)
    <3>1. Sane(m, v3) /\ Read(v3, e.blk) \in BufType
      BY <2>2, <2>6, ReadFits DEF Leads, Sane, Fitting
    <3> QED BY <2>2, <3>1, LinkSane
  <2> HIDE DEF u
  <2>8. Goes(m, u, v4)
    BY <2>2, <2>7, BothSane DEF Leads
  <2> HIDE DEF v4
  <2>9. Goes(m, v, v4)
    <3>1. Goes(m, v1, v4)
      BY <2>4, <2>6, <2>7, <2>8, LeadsAgain
    <3> QED BY <1>2, <1>5, <3>1, GoesOn
  <2>10. Done(m, v4, Commit(v4))
    BY <2>9, CommitDone DEF Goes
  <2>11. Done(m, v, res)
    BY SMTT(40), <2>1, <2>9, <2>10, GoesOn DEF Then
  <2> QED BY <2>11 DEF res
<1> QED BY <1>3, <1>4, <1>5

-----------------------------------------------------------------------------
(* bm_flag says nothing of the tree *)

\* Two media whose blocks differ in nothing but bm_flag.
Twins(d1, d2) ==
  /\ d1 \in Bufs /\ d2 \in Bufs
  /\ \A b \in Blk :
       /\ d2[b].kind = d1[b].kind /\ d2[b].name = d1[b].name /\ d2[b].parent = d1[b].parent
       /\ d2[b].next = d1[b].next /\ d2[b].heads = d1[b].heads /\ d2[b].ptr = d1[b].ptr
       /\ d2[b].note = d1[b].note /\ d2[b].ver = d1[b].ver /\ d2[b].recs = d1[b].recs

LEMMA TwinsChain ==
  ASSUME NEW d1, NEW d2, Twins(d1, d2), NEW first
  PROVE  Chain(d1, first) = Chain(d2, first)
<1> DEFINE N == NBlocks + 1
           Eqn(d, f) == f = [n \in 0..N |->
                               [b \in 0..NBlocks |-> IF b = 0 \/ n = 0 THEN <<>>
                                                     ELSE <<b>> \o f[n-1][d[b].next]]]
           c1 == CHOOSE f : Eqn(d1, f)
           c2 == CHOOSE f : Eqn(d2, f)
<1>1. \A b \in 0..NBlocks : b # 0 => d1[b].next = d2[b].next
  <2>1. \A b \in 0..NBlocks : b # 0 => b \in Blk
    BY DEF Blk
  <2> QED BY <2>1 DEF Twins
<1>2. ASSUME NEW f PROVE Eqn(d1, f) <=> Eqn(d2, f)
  <2>1. [n \in 0..N |-> [b \in 0..NBlocks |-> IF b = 0 \/ n = 0 THEN <<>>
                                              ELSE <<b>> \o f[n-1][d1[b].next]]]
        = [n \in 0..N |-> [b \in 0..NBlocks |-> IF b = 0 \/ n = 0 THEN <<>>
                                                ELSE <<b>> \o f[n-1][d2[b].next]]]
    <3>1. ASSUME NEW n \in 0..N
          PROVE  [b \in 0..NBlocks |-> IF b = 0 \/ n = 0 THEN <<>>
                                       ELSE <<b>> \o f[n-1][d1[b].next]]
                 = [b \in 0..NBlocks |-> IF b = 0 \/ n = 0 THEN <<>>
                                         ELSE <<b>> \o f[n-1][d2[b].next]]
      BY SMTT(40), <1>1
    <3> QED BY <3>1
  <2> QED BY <2>1, Zenon
<1>3. c1 = c2
  <2> DEFINE P(f) == Eqn(d1, f)
             Q(f) == Eqn(d2, f)
  <2>1. \A f : P(f) <=> Q(f)
    BY <1>2
  <2> HIDE DEF P, Q
  <2>2. (CHOOSE f : P(f)) = (CHOOSE f : Q(f))
    BY <2>1, Zenon
  <2> QED BY <2>2 DEF P, Q
<1>4. Chain(d1, first) = c1[N][first] /\ Chain(d2, first) = c2[N][first]
  BY DEF Chain
<1> QED BY <1>3, <1>4

LEMMA TwinsMembers ==
  ASSUME NEW d1, NEW d2, Twins(d1, d2), NEW d \in Blk
  PROVE  /\ Members(d1, d) = Members(d2, d) /\ Members(d1, d) \subseteq Block
         /\ Records(d1, d) = Records(d2, d)
<1>1. \A h \in Buckets : Chain(d1, d1[d].heads[h]) = Chain(d2, d2[d].heads[h])
  <2>1. d1[d].heads = d2[d].heads
    BY DEF Twins
  <2> QED BY <2>1, TwinsChain
<1>2. Members(d1, d) = Members(d2, d)
  BY <1>1 DEF Members
<1>3. Members(d1, d) \subseteq Block
  BY MemberBlocks DEF Twins
<1>4. \A b \in Members(d1, d) : d1[b].name = d2[b].name
  BY <1>3 DEF Twins, Block
<1> QED BY <1>2, <1>3, <1>4 DEF Records

\* The walk from the root, one level deeper.
Pairs == Seq(NoName) \X Blk
Deeper(bufs, above) ==
  LET below(x) == {<<Append(x[1], bufs[b].name), b>> : b \in Members(bufs, x[2])}
  IN  above \cup UNION {below(x) : x \in {y \in above : IsDirectory(bufs[y[2]])}}
Walk(bufs, T) ==
  /\ T \in [0..MaxDepth -> SUBSET Pairs]
  /\ T[0] = {<< <<>>, Root >>}
  /\ \A k \in 1..MaxDepth : T[k] = Deeper(bufs, T[k - 1])

LEMMA DeeperTyped ==
  ASSUME NEW bufs \in Bufs, NEW above \in SUBSET Pairs
  PROVE  Deeper(bufs, above) \in SUBSET Pairs
<1> DEFINE below(x) == {<<Append(x[1], bufs[b].name), b>> : b \in Members(bufs, x[2])}
<1>1. ASSUME NEW x \in above PROVE below(x) \subseteq Pairs
  <2>1. x[1] \in Seq(NoName) /\ x[2] \in Blk
    BY DEF Pairs
  <2>2. ASSUME NEW b \in Members(bufs, x[2])
        PROVE  <<Append(x[1], bufs[b].name), b>> \in Pairs
    <3>1. b \in Blk
      BY <2>1, MemberBlocks DEF Block
    <3>2. bufs[b].name \in NoName
      BY <3>1 DEF Bufs, BufType, NoName
    <3>3. Append(x[1], bufs[b].name) \in Seq(NoName)
      BY <2>1, <3>2
    <3> QED BY <3>1, <3>3 DEF Pairs
  <2> QED BY <2>2
<1>2. Deeper(bufs, above) = above \cup UNION {below(x) : x \in {y \in above : IsDirectory(bufs[y[2]])}}
  BY DEF Deeper
<1> HIDE DEF below
<1> QED BY <1>1, <1>2

LEMMA NodesWalk ==
  ASSUME NEW bufs \in Bufs
  PROVE  \E T : Walk(bufs, T) /\ Nodes(bufs) = T[MaxDepth]
<1> DEFINE N == MaxDepth
           X == SUBSET Pairs
           top == {<< <<>>, Root >>}
           Eqn(f) == f = [k \in 0..N |->
                            IF k = 0 THEN top
                            ELSE LET above == f[k-1]
                                     below(x) == {<<Append(x[1], bufs[b].name), b>> :
                                                    b \in Members(bufs, x[2])}
                                 IN  above \cup UNION {below(x) :
                                       x \in {y \in above : IsDirectory(bufs[y[2]])}}]
           T == CHOOSE f : Eqn(f)
<1>1. N \in Nat
  BY VolumeAssumption
<1>2. top \in X
  <2>1. <<>> \in Seq(NoName) /\ Root \in Blk
    BY Sizes
  <2>2. << <<>>, Root >> \in Pairs
    BY <2>1 DEF Pairs
  <2> QED BY <2>2
<1>3. \A x \in X : Deeper(bufs, x) \in X
  BY DeeperTyped
<1>4. ASSUME NEW f
      PROVE  Eqn(f) <=> f = [k \in 0..N |-> IF k = 0 THEN top ELSE Deeper(bufs, f[k-1])]
  BY DEF Deeper
<1> HIDE DEF Eqn
<1>5. \E f : Eqn(f)
  <2> DEFINE g == [k \in 1..N |-> [x \in X |-> Deeper(bufs, x)]]
  <2> HIDE DEF X, top, N
  <2>1. g \in Steps(X, N)
    BY <1>3 DEF Steps
  <2>2. PICK f : BuiltUp(f, X, top, N, g)
    <3> HIDE DEF g
    <3> QED BY <1>1, <1>2, <2>1, BuiltUpExists
  <2>3. \A k \in 1..N : f[k] = Deeper(bufs, f[k - 1])
    <3> TAKE k \in 1..N
    <3>1. k - 1 \in 0..N
      BY <1>1
    <3>2. f[k - 1] \in X /\ g[k] = [x \in X |-> Deeper(bufs, x)]
      BY <2>2, <3>1 DEF BuiltUp
    <3> QED BY <2>2, <3>2 DEF BuiltUp
  <2>4. \A k \in 0..N : k = 0 \/ k \in 1..N
    BY <1>1
  <2> HIDE DEF g
  <2>5. f = [k \in 0..N |-> IF k = 0 THEN top ELSE Deeper(bufs, f[k-1])]
    BY <2>2, <2>3, <2>4 DEF BuiltUp
  <2> QED BY <1>4, <2>5
<1>6. Eqn(T)
  BY <1>5
<1> HIDE DEF T, X, top, N
<1>7. T = [k \in 0..N |-> IF k = 0 THEN top ELSE Deeper(bufs, T[k-1])]
  BY <1>4, <1>6
<1>8. \A k \in 0..N : T[k] = IF k = 0 THEN top ELSE Deeper(bufs, T[k-1])
  BY <1>7
<1> DEFINE S == {k \in Nat : k <= N => T[k] \in X}
<1>9. 0 \in S
  BY <1>1, <1>2, <1>8
<1>10. ASSUME NEW k \in Nat, k \in S PROVE k + 1 \in S
  <2> SUFFICES ASSUME k + 1 <= N PROVE T[k + 1] \in X
    OBVIOUS
  <2>1. k + 1 \in 0..N /\ (k + 1) - 1 = k /\ k + 1 # 0 /\ k <= N
    BY <1>1
  <2>2. T[k + 1] = Deeper(bufs, T[k])
    BY <1>8, <2>1
  <2> QED BY <1>3, <1>10, <2>1, <2>2
<1>11. \A k \in Nat : k \in S
  <2> HIDE DEF S
  <2> QED BY <1>9, <1>10, VolumeInduction
<1>12. T \in [0..N -> X]
  <2>1. \A k \in 0..N : k \in Nat /\ k <= N
    BY <1>1
  <2>2. \A k \in 0..N : T[k] \in X
    BY <1>11, <2>1
  <2>3. T = [k \in 0..N |-> T[k]]
    BY <1>7
  <2> HIDE DEF S
  <2> QED BY <2>2, <2>3
<1>13. T[0] = top /\ \A k \in 1..N : T[k] = Deeper(bufs, T[k - 1])
  <2>1. \A k \in 1..N : k \in 0..N /\ k # 0
    BY <1>1
  <2>2. 0 \in 0..N
    BY <1>1
  <2> QED BY <1>8, <2>1, <2>2
<1>14. Walk(bufs, T)
  BY <1>12, <1>13 DEF Walk, N, X, top
<1>15. Nodes(bufs) = T[N]
  BY DEF Nodes, T, Eqn, N, top
<1> QED BY <1>14, <1>15 DEF N

\* Two such media have the same tree, and check() judges them alike.
LEMMA TwinsDeeper ==
  ASSUME NEW d1, NEW d2, Twins(d1, d2), NEW above \in SUBSET Pairs
  PROVE  Deeper(d1, above) = Deeper(d2, above)
<1> DEFINE below(d, x) == {<<Append(x[1], d[b].name), b>> : b \in Members(d, x[2])}
<1>1. \A x \in above : x[2] \in Blk
  BY DEF Pairs
<1>2. \A x \in above : IsDirectory(d1[x[2]]) <=> IsDirectory(d2[x[2]])
  BY <1>1 DEF Twins, IsDirectory
<1>3. ASSUME NEW x \in above PROVE below(d1, x) = below(d2, x)
  <2>1. Members(d1, x[2]) = Members(d2, x[2]) /\ Members(d1, x[2]) \subseteq Block
    BY <1>1, TwinsMembers
  <2>2. \A b \in Members(d1, x[2]) : d1[b].name = d2[b].name
    BY <2>1 DEF Twins, Block
  <2> QED BY <2>1, <2>2
<1>4. Deeper(d1, above)
      = above \cup UNION {below(d1, x) : x \in {y \in above : IsDirectory(d1[y[2]])}}
  BY DEF Deeper
<1>5. Deeper(d2, above)
      = above \cup UNION {below(d2, x) : x \in {y \in above : IsDirectory(d2[y[2]])}}
  BY DEF Deeper
<1>6. {y \in above : IsDirectory(d1[y[2]])} = {y \in above : IsDirectory(d2[y[2]])}
  BY <1>2
<1> HIDE DEF below
<1>7. {below(d1, x) : x \in {y \in above : IsDirectory(d1[y[2]])}}
      = {below(d2, x) : x \in {y \in above : IsDirectory(d2[y[2]])}}
  BY <1>3, <1>6
<1> QED BY <1>4, <1>5, <1>7

LEMMA TwinsNodes ==
  ASSUME NEW d1, NEW d2, Twins(d1, d2)
  PROVE  Nodes(d1) = Nodes(d2) /\ Nodes(d1) \subseteq Pairs
<1>1. PICK T1 : Walk(d1, T1) /\ Nodes(d1) = T1[MaxDepth]
  BY NodesWalk DEF Twins
<1>2. PICK T2 : Walk(d2, T2) /\ Nodes(d2) = T2[MaxDepth]
  BY NodesWalk DEF Twins
<1>3. MaxDepth \in Nat
  BY VolumeAssumption
<1> DEFINE S == {k \in Nat : k <= MaxDepth => T1[k] = T2[k]}
<1>4. 0 \in S
  BY <1>1, <1>2 DEF Walk
<1>5. ASSUME NEW k \in Nat, k \in S PROVE k + 1 \in S
  <2> SUFFICES ASSUME k + 1 <= MaxDepth PROVE T1[k + 1] = T2[k + 1]
    OBVIOUS
  <2>1. k \in 0..MaxDepth /\ k + 1 \in 1..MaxDepth /\ (k + 1) - 1 = k /\ k <= MaxDepth
    BY <1>3
  <2>2. T1[k + 1] = Deeper(d1, T1[k]) /\ T2[k + 1] = Deeper(d2, T2[k])
    BY <1>1, <1>2, <2>1 DEF Walk
  <2>3. T1[k] \in SUBSET Pairs
    BY <1>1, <2>1 DEF Walk
  <2>4. T1[k] = T2[k]
    BY <1>5, <2>1
  <2> QED BY <2>2, <2>3, <2>4, TwinsDeeper
<1>6. MaxDepth \in S
  <2> HIDE DEF S
  <2> QED BY <1>3, <1>4, <1>5, VolumeInduction
<1>7. T1[MaxDepth] \in SUBSET Pairs
  BY <1>1, <1>3 DEF Walk
<1> QED BY <1>1, <1>2, <1>3, <1>6, <1>7

\* The walk meets the root.
LEMMA RootReached ==
  ASSUME NEW bufs \in Bufs
  PROVE  Root \in Reached(bufs) /\ Reached(bufs) \subseteq Blk
<1>1. PICK T : Walk(bufs, T) /\ Nodes(bufs) = T[MaxDepth]
  BY NodesWalk
<1>2. MaxDepth \in Nat
  BY VolumeAssumption
<1> DEFINE S == {k \in Nat : k <= MaxDepth => << <<>>, Root >> \in T[k]}
<1>3. 0 \in S
  BY <1>1 DEF Walk
<1>4. ASSUME NEW k \in Nat, k \in S PROVE k + 1 \in S
  <2> SUFFICES ASSUME k + 1 <= MaxDepth PROVE << <<>>, Root >> \in T[k + 1]
    OBVIOUS
  <2>1. k + 1 \in 1..MaxDepth /\ (k + 1) - 1 = k /\ k <= MaxDepth
    BY <1>2
  <2>2. T[k + 1] = Deeper(bufs, T[k])
    BY <1>1, <2>1 DEF Walk
  <2>3. T[k] \subseteq Deeper(bufs, T[k])
    BY DEF Deeper
  <2> QED BY <1>4, <2>1, <2>2, <2>3
<1>5. MaxDepth \in S
  <2> HIDE DEF S
  <2> QED BY <1>2, <1>3, <1>4, VolumeInduction
<1>6. << <<>>, Root >> \in Nodes(bufs)
  BY <1>1, <1>2, <1>5
<1>7. Nodes(bufs) \in SUBSET Pairs
  BY <1>1, <1>2 DEF Walk
<1>8. Root \in Reached(bufs)
  <2>1. << <<>>, Root >>[2] = Root
    OBVIOUS
  <2> QED BY <1>6, <2>1 DEF Reached
<1>9. \A x \in Nodes(bufs) : x[2] \in Blk
  BY <1>7 DEF Pairs
<1> QED BY <1>8, <1>9 DEF Reached

LEMMA TwinsReached ==
  ASSUME NEW d1, NEW d2, Twins(d1, d2)
  PROVE  /\ Reached(d1) = Reached(d2) /\ Reached(d1) \subseteq Blk
         /\ \A b \in Blk : Owned(d1, b) = Owned(d2, b)
         /\ UsedBlocks(d1) = UsedBlocks(d2)
<1>1. Reached(d1) = Reached(d2)
  BY TwinsNodes DEF Reached
<1>2. Reached(d1) \subseteq Blk
  BY RootReached DEF Twins
<1>3. \A b \in Blk : Owned(d1, b) = Owned(d2, b)
  BY DEF Owned, Twins
<1>4. {Owned(d1, b) : b \in Reached(d1)} = {Owned(d2, b) : b \in Reached(d2)}
  BY <1>1, <1>2, <1>3
<1> QED BY <1>1, <1>2, <1>3, <1>4 DEF UsedBlocks

LEMMA TwinsTree ==
  ASSUME NEW d1, NEW d2, Twins(d1, d2)
  PROVE  TreeOf(d1, d1) = TreeOf(d2, d2)
<1>1. Nodes(d1) = Nodes(d2) /\ Nodes(d1) \subseteq Pairs
  BY TwinsNodes
<1>2. ASSUME NEW x \in Nodes(d1)
      PROVE  Content(d1, d1[x[2]]) = Content(d2, d2[x[2]])
  <2>1. x[2] \in Blk
    BY <1>1 DEF Pairs
  <2>2. d1[x[2]].kind = d2[x[2]].kind /\ d1[x[2]].ptr = d2[x[2]].ptr
    BY <2>1 DEF Twins
  <2>3. d1[x[2]].ptr # 0 => d1[x[2]].ptr \in Blk
    <3>1. d1[x[2]].ptr \in Ptr
      BY <2>1 DEF Twins, Bufs, BufType
    <3> QED BY <3>1, Sizes DEF Block
  <2>4. d1[x[2]].ptr # 0 => d1[d1[x[2]].ptr].ver = d2[d1[x[2]].ptr].ver
    BY <2>3 DEF Twins
  <2> QED BY <2>2, <2>4 DEF Content, IsDirectory
<1>3. {<<x[1], Content(d1, d1[x[2]])>> : x \in {y \in Nodes(d1) : y[1] # <<>>}}
      = {<<x[1], Content(d2, d2[x[2]])>> : x \in {y \in Nodes(d1) : y[1] # <<>>}}
  BY <1>2
<1> QED BY <1>1, <1>3 DEF TreeOf

LEMMA TwinsSound ==
  ASSUME NEW d1, NEW d2, Twins(d1, d2), NEW v, NEW w, v.flavor = w.flavor, NEW free
  PROVE  Sound(v, d1, free) <=> Sound(w, d2, free)
<1>1. /\ Reached(d1) = Reached(d2) /\ Reached(d1) \subseteq Blk
      /\ \A b \in Blk : Owned(d1, b) = Owned(d2, b)
      /\ UsedBlocks(d1) = UsedBlocks(d2)
  BY TwinsReached
<1>2. {b \in Reached(d1) : IsDirectory(d1[b])} = {b \in Reached(d2) : IsDirectory(d2[b])}
  BY <1>1 DEF Twins, IsDirectory
<1>3. ASSUME NEW d \in Blk PROVE Chained(d1, d) <=> Chained(d2, d)
  <2>1. d1[d].heads = d2[d].heads
    BY DEF Twins
  <2>2. ASSUME NEW h \in Buckets
        PROVE  /\ Chain(d1, d1[d].heads[h]) = Chain(d2, d2[d].heads[h])
               /\ Range(Chain(d1, d1[d].heads[h])) \subseteq Blk
    <3> DEFINE c == Chain(d1, d1[d].heads[h])
    <3>1. d1 \in Bufs /\ d1[d].heads[h] \in Ptr
      BY DEF Twins, Bufs, BufType
    <3>2. c \in Seq(Block)
      BY <3>1, ChainBlocks
    <3> HIDE DEF c
    <3>3. Range(c) \subseteq Blk
      BY <3>2 DEF Range, Block
    <3> QED BY <2>1, <3>3, TwinsChain DEF c
  <2>3. \A b \in Blk : d1[b].kind = d2[b].kind /\ d1[b].parent = d2[b].parent
                       /\ d1[b].name = d2[b].name
    BY DEF Twins
  <2> QED BY <2>2, <2>3 DEF Chained
<1>4. Disjoint(d1) <=> Disjoint(d2)
  BY <1>1 DEF Disjoint
<1>5. ASSUME NEW d \in Blk PROVE Cached(v, d1, d) <=> Cached(w, d2, d)
  <2>1. DirCache(v) <=> DirCache(w)
    BY DEF DirCache
  <2>2. d1[d].ptr = d2[d].ptr /\ Records(d1, d) = Records(d2, d)
    BY TwinsMembers DEF Twins
  <2>3. d1[d].ptr # 0 => d1[d].ptr \in Blk
    <3>1. d1[d].ptr \in Ptr
      BY DEF Twins, Bufs, BufType
    <3> QED BY <3>1, Sizes DEF Block
  <2> DEFINE p == d1[d].ptr
  <2>4. ASSUME p # 0
        PROVE  d1[p].kind = d2[p].kind /\ d1[p].parent = d2[p].parent /\ d1[p].recs = d2[p].recs
    BY <2>3, <2>4 DEF Twins
  <2> QED BY <2>1, <2>2, <2>4 DEF Cached
<1> QED BY <1>1, <1>2, <1>3, <1>4, <1>5 DEF Sound

\* The root with bm_flag set is written over a medium's root.
LEMMA ValidTwins ==
  ASSUME NEW d \in Bufs
  PROVE  /\ [d[Root] EXCEPT !.valid = TRUE] \in BufType
         /\ [d EXCEPT ![Root] = [d[Root] EXCEPT !.valid = TRUE]] \in Bufs
         /\ Twins(d, [d EXCEPT ![Root] = [d[Root] EXCEPT !.valid = TRUE]])
<1> DEFINE buf == [d[Root] EXCEPT !.valid = TRUE]
           e == [d EXCEPT ![Root] = buf]
<1>1. Root \in Blk /\ d[Root] \in BufType
  BY Sizes DEF Bufs
<1>2. /\ buf \in BufType /\ buf.kind = d[Root].kind /\ buf.name = d[Root].name
      /\ buf.parent = d[Root].parent /\ buf.next = d[Root].next /\ buf.heads = d[Root].heads
      /\ buf.ptr = d[Root].ptr /\ buf.note = d[Root].note /\ buf.ver = d[Root].ver
      /\ buf.recs = d[Root].recs
  BY <1>1 DEF BufType
<1> HIDE DEF buf
<1>3. e \in Bufs /\ e[Root] = buf /\ \A b \in Blk : b # Root => e[b] = d[b]
  BY <1>1, <1>2 DEF Bufs
<1> HIDE DEF e
<1>4. Twins(d, e)
  BY <1>2, <1>3 DEF Twins
<1> QED BY <1>2, <1>3, <1>4 DEF buf, e

-----------------------------------------------------------------------------
(* bm_flag, bulk sessions and repair *)

\* The medium of a volume.
Medium == [flavor : 0..7, disk : Bufs, bits : SUBSET Block]

LEMMA MountedSane ==
  ASSUME NEW m \in Medium
  PROVE  /\ Sane(m, Mounted(m)) /\ ~Mounted(m).bulk /\ Mounted(m).err = "none"
         /\ Mounted(m).out = <<>> /\ Mounted(m).dirs = <<>> /\ Mounted(m).disk = m.disk
         /\ Mounted(m).bits = m.bits /\ Mounted(m).free = m.bits
<1> DEFINE v == Mounted(m)
<1>1. m.flavor \in 0..7 /\ m.disk \in Bufs /\ m.bits \in SUBSET Block /\ Root + 1 \in 1..NBlocks+1
  BY Sizes DEF Medium, Block, Blk
<1>2. <<>> \in [{} -> SUBSET NoName] /\ <<>> \in [{} -> Blk] /\ <<>> \in Seq(Names)
      /\ <<>> \in Seq(Dirty) /\ <<>> \in Seq(Pending)
  OBVIOUS
<1>3. <<>> \in NameCache /\ <<>> \in PathCache
  BY <1>2 DEF NameCache, PathCache
<1>4. v \in Volume
  BY <1>1, <1>2, <1>3 DEF Mounted, Volume, Errors
<1>5. /\ v.flavor = m.flavor /\ v.disk = m.disk /\ v.bits = m.bits /\ v.free = m.bits
      /\ ~v.bulk /\ v.dirs = <<>> /\ v.out = <<>> /\ v.err = "none"
  BY DEF Mounted
<1> HIDE DEF v
<1>6. Len(v.out) = 0 /\ Len(v.dirs) = 0
  BY <1>5
<1>7. Kept(v)
  BY <1>4, <1>5, <1>6 DEF Kept
<1>8. Arrives(m, v)
  BY <1>5, <1>6 DEF Arrives, OnMedium, Newest
<1> QED BY <1>5, <1>7, <1>8 DEF Sane, v

\* When all writes are out, the medium is what the volume is.
LEMMA NothingPending ==
  ASSUME NEW m \in Medium, NEW v, Sane(m, v), v.out = <<>>
  PROVE  m.disk = v.disk /\ m.bits = v.bits
<1>1. m.disk \in Bufs /\ v.disk \in Bufs /\ Len(v.out) = 0
  BY Parts DEF Medium, Sane, Kept
<1>2. \A b \in 0..NBlocks : OnMedium(m, b) = Newest(v, b)
  BY <1>1 DEF Sane, Arrives
<1>3. m.bits = v.bits
  BY <1>2, Sizes DEF OnMedium, Newest
<1>4. \A b \in Blk : m.disk[b] = v.disk[b]
  BY <1>2, Sizes DEF OnMedium, Newest
<1> QED BY <1>1, <1>3, <1>4 DEF Bufs

\* The next write reaches the medium.
LEMMA DeviceSane ==
  ASSUME NEW m \in Medium, NEW v, Sane(m, v), v.out # <<>>, NEW n,
         n = IF Head(v.out).blk = 0 THEN [m EXCEPT !.bits = Head(v.out).buf]
             ELSE [m EXCEPT !.disk[Head(v.out).blk] = Head(v.out).buf]
  PROVE  n \in Medium /\ Sane(n, [v EXCEPT !.out = Tail(@)])
<1> DEFINE o == Head(v.out)
           w == [v EXCEPT !.out = Tail(@)]
           k == Len(v.out)
<1>1. v \in Volume /\ v.out \in Seq(Pending) /\ Kept(v) /\ Arrives(m, v)
      /\ v.flavor = m.flavor
  BY Parts DEF Sane, Kept
<1>2. /\ k \in Nat /\ k > 0 /\ o \in Pending /\ o = v.out[1]
      /\ Tail(v.out) \in Seq(Pending) /\ Len(Tail(v.out)) = k - 1
  BY <1>1
<1>3. \A i \in 1..k-1 : Tail(v.out)[i] = v.out[i + 1] /\ i + 1 \in 1..k
  BY <1>1, <1>2
<1>4. /\ w \in Volume /\ w.disk = v.disk /\ w.bits = v.bits /\ w.bulk = v.bulk
      /\ w.dirs = v.dirs /\ w.out = Tail(v.out) /\ w.flavor = v.flavor
  BY <1>1, <1>2 DEF Volume
<1>5. (o.blk = 0 /\ o.buf \in SUBSET Block) \/ (o.blk \in Blk /\ o.buf \in BufType)
  BY <1>2 DEF Pending, Dirty
<1>6. n = IF o.blk = 0 THEN [m EXCEPT !.bits = o.buf] ELSE [m EXCEPT !.disk[o.blk] = o.buf]
  OBVIOUS
<1> HIDE DEF w, k, o
<1>7. /\ n \in Medium /\ n.flavor = m.flavor
      /\ \A c \in 0..NBlocks :
           OnMedium(n, c) = IF c = o.blk THEN o.buf ELSE OnMedium(m, c)
  <2>1. CASE o.blk = 0
    <3>1. n = [m EXCEPT !.bits = o.buf]
      BY <1>6, <2>1
    <3>2. n \in Medium /\ n.flavor = m.flavor /\ n.disk = m.disk /\ n.bits = o.buf
      BY <1>5, <2>1, <3>1, Sizes DEF Medium
    <3> QED BY <2>1, <3>2 DEF OnMedium
  <2>2. CASE o.blk # 0
    <3> DEFINE disk == [m.disk EXCEPT ![o.blk] = o.buf]
    <3>1. n = [m EXCEPT !.disk = disk]
      BY <1>6, <2>2
    <3>2. o.blk \in Blk /\ disk \in Bufs /\ disk[o.blk] = o.buf
          /\ \A c \in Blk : c # o.blk => disk[c] = m.disk[c]
      BY <1>5, <2>2 DEF Medium, Bufs
    <3> HIDE DEF disk
    <3>3. n \in Medium /\ n.flavor = m.flavor /\ n.disk = disk /\ n.bits = m.bits
      BY <3>1, <3>2 DEF Medium
    <3>4. \A c \in 0..NBlocks : c = 0 \/ c \in Blk
      BY DEF Blk
    <3> QED BY <2>2, <3>2, <3>3, <3>4 DEF OnMedium
  <2> QED BY <2>1, <2>2
<1>8. Len(w.out) = k - 1 /\ \A i \in 1..k-1 : w.out[i] = v.out[i + 1] /\ i + 1 \in 1..k
  BY <1>2, <1>3, <1>4
<1>9. Kept(w)
  <2>1. v.bulk => Marked(w)
    <3> SUFFICES ASSUME v.bulk PROVE Marked(w)
      OBVIOUS
    <3>1. Marked(v)
      BY <1>1 DEF Kept
    <3>2. \A i \in 1..Len(w.out) : w.out[i].blk = Root => ~w.out[i].buf.valid
      BY <1>8, <3>1 DEF Marked, k
    <3> QED BY <1>4, <3>1, <3>2 DEF Marked
  <2> QED BY <1>1, <1>4, <2>1 DEF Kept
<1>10. Arrives(n, w)
  <2> SUFFICES ASSUME NEW c \in 0..NBlocks
      PROVE  /\ (\A i \in 1..k-1 : w.out[i].blk # c) => OnMedium(n, c) = Newest(w, c)
             /\ \A i \in 1..k-1 :
                  w.out[i].blk = c /\ (\A j \in 1..k-1 : i < j => w.out[j].blk # c)
                    => w.out[i].buf = Newest(w, c)
    BY <1>8 DEF Arrives
  <2>1. /\ (\A i \in 1..k : v.out[i].blk # c) => OnMedium(m, c) = Newest(v, c)
        /\ \A i \in 1..k :
             v.out[i].blk = c /\ (\A j \in 1..k : i < j => v.out[j].blk # c)
               => v.out[i].buf = Newest(v, c)
    BY <1>1 DEF Arrives, k
  <2>2. Newest(w, c) = Newest(v, c)
    BY <1>4 DEF Newest
  <2>3. \A j \in 1..k : j = 1 \/ (j - 1 \in 1..k-1 /\ (j - 1) + 1 = j)
    BY <1>2
  <2>4. \A j \in 1..k : j = 1 \/ (j - 1 \in 1..k-1 /\ v.out[j] = w.out[j - 1])
    BY <1>8, <2>3
  <2>5. ASSUME \A i \in 1..k-1 : w.out[i].blk # c
        PROVE  OnMedium(n, c) = Newest(w, c)
    <3>1. \A j \in 1..k : j # 1 => v.out[j].blk # c
      BY <2>4, <2>5
    <3>2. CASE o.blk = c
      <4>1. 1 \in 1..k /\ v.out[1].blk = c /\ \A j \in 1..k : 1 < j => v.out[j].blk # c
        BY <1>2, <3>1, <3>2
      <4>2. v.out[1].buf = Newest(v, c)
        BY <2>1, <4>1
      <4> QED BY <1>2, <1>7, <2>2, <3>2, <4>2
    <3>3. CASE o.blk # c
      <4>1. \A j \in 1..k : v.out[j].blk # c
        BY <1>2, <3>1, <3>3
      <4> QED BY <1>7, <2>1, <2>2, <3>3, <4>1
    <3> QED BY <3>2, <3>3
  <2>6. ASSUME NEW i \in 1..k-1, w.out[i].blk = c,
               \A j \in 1..k-1 : i < j => w.out[j].blk # c
        PROVE  w.out[i].buf = Newest(w, c)
    <3>1. i + 1 \in 1..k /\ v.out[i + 1].blk = c /\ w.out[i] = v.out[i + 1]
      BY <1>8, <2>6
    <3>2. ASSUME NEW j \in 1..k, i + 1 < j PROVE v.out[j].blk # c
      <4>1. j # 1 /\ i < j - 1
        BY <1>2, <3>2
      <4> QED BY <2>4, <2>6, <4>1
    <3> QED BY <2>1, <2>2, <3>1, <3>2
  <2> QED BY <2>5, <2>6
<1> QED BY <1>1, <1>4, <1>7, <1>9, <1>10 DEF Sane, w

\* bm_flag is written with the rest of the root as it was.
Flagged(buf, flag) == [buf EXCEPT !.valid = flag]

LEMMA SetValidSane ==
  ASSUME NEW m, NEW v, Sane(m, v), ~v.bulk, NEW flag \in BOOLEAN
  PROVE  /\ Leads(m, v, SetValid(v, flag))
         /\ SetValid(v, flag).disk = [v.disk EXCEPT ![Root] = Flagged(v.disk[Root], flag)]
         /\ SetValid(v, flag).out
            = Append(v.out, [blk |-> Root, buf |-> Flagged(v.disk[Root], flag)])
         /\ SetValid(v, flag).bits = v.bits /\ SetValid(v, flag).free = v.free
         /\ SetValid(v, flag).dirs = <<>>
         /\ Flagged(v.disk[Root], flag).valid = flag
<1> DEFINE buf == Flagged(v.disk[Root], flag)
<1>1. v.dirs = <<>> /\ v.disk \in Bufs /\ v \in Volume /\ Root \in Blk
  BY Parts, Sizes DEF Sane, Kept
<1>2. Read(v, Root) = v.disk[Root] /\ DirtyAt(v, Root) = {}
  BY <1>1 DEF Read, DirtyAt
<1>3. SetValid(v, flag) = Write(v, Root, buf)
  BY <1>2 DEF SetValid, Rewrite, Flagged
<1>4. buf \in BufType /\ buf.valid = flag
  <2>1. v.disk[Root] \in BufType
    BY <1>1 DEF Bufs
  <2> QED BY <2>1 DEF BufType, Flagged
<1> HIDE DEF buf
<1>5. Leads(m, v, Write(v, Root, buf))
  BY <1>1, <1>4, WriteSane DEF Fitting
<1>6. /\ Write(v, Root, buf).disk = [v.disk EXCEPT ![Root] = buf]
      /\ Write(v, Root, buf).out = Append(v.out, [blk |-> Root, buf |-> buf])
      /\ Write(v, Root, buf).bits = v.bits /\ Write(v, Root, buf).free = v.free
      /\ Write(v, Root, buf).dirs = v.dirs
  BY <1>1 DEF Write, Volume
<1> QED BY <1>1, <1>3, <1>4, <1>5, <1>6 DEF buf

\* The one write that bulk() makes when it begins.
LEMMA EnterSane ==
  ASSUME NEW m, NEW v, Sane(m, v), ~v.bulk, v.out = <<>>
  PROVE  /\ Sane(m, EnterBulk(v)) /\ EnterBulk(v).bulk /\ EnterBulk(v).err = v.err
         /\ Len(EnterBulk(v).out) = 1
         /\ EnterBulk(v).out[1].blk = Root /\ ~EnterBulk(v).out[1].buf.valid
<1> DEFINE u == SetValid(v, FALSE)
           buf == Flagged(v.disk[Root], FALSE)
           w == [u EXCEPT !.bulk = TRUE, !.ops = 0]
<1>1. Root \in Blk /\ v.disk \in Bufs
  BY Parts, Sizes DEF Sane, Kept
<1>2. /\ Leads(m, v, u) /\ u.disk = [v.disk EXCEPT ![Root] = buf] /\ u.dirs = <<>>
      /\ u.out = Append(v.out, [blk |-> Root, buf |-> buf]) /\ ~buf.valid
  BY SetValidSane
<1> HIDE DEF u, buf
<1>3. u \in Volume /\ Sane(m, u)
  BY <1>2 DEF Leads, Sane, Kept
<1>4. /\ w \in Volume /\ w.disk = u.disk /\ w.out = u.out /\ w.dirs = u.dirs /\ w.bits = u.bits
      /\ w.bulk /\ w.err = u.err /\ w.flavor = u.flavor
  BY <1>3 DEF Volume
<1>5. EnterBulk(v) = w
  BY DEF EnterBulk, u
<1> HIDE DEF w
<1>6. Len(w.out) = 1 /\ w.out[1].blk = Root /\ w.out[1].buf = buf
  BY <1>2, <1>4
<1>7. w.disk[Root] = buf /\ Len(w.dirs) = 0
  BY <1>1, <1>2, <1>4 DEF Bufs
<1>8. Marked(w)
  BY <1>2, <1>6, <1>7 DEF Marked
<1>9. Kept(w)
  BY <1>4, <1>7, <1>8 DEF Kept
<1>10. Arrives(m, w) /\ w.flavor = m.flavor
  BY <1>3, <1>4 DEF Sane, Arrives, Newest
<1> QED BY <1>2, <1>4, <1>5, <1>6, <1>9, <1>10 DEF Sane, Leads

\* The writes that bulk() makes when it ends: only the last sets bm_flag.
LEMMA LeaveSane ==
  ASSUME NEW m, NEW v, Sane(m, v), v.bulk, v.out = <<>>
  PROVE  /\ Sane(m, LeaveBulk(v)) /\ ~LeaveBulk(v).bulk /\ LeaveBulk(v).err = v.err
         /\ LeaveBulk(v).bits = LeaveBulk(v).free
         /\ Len(LeaveBulk(v).out) > 0
         /\ \A i \in 1..Len(LeaveBulk(v).out)-1 :
              LeaveBulk(v).out[i].blk = Root => ~LeaveBulk(v).out[i].buf.valid
<1> DEFINE u0 == FlushDirs(v)
           u1 == [u0 EXCEPT !.bulk = FALSE]
           u2 == WriteBits(u1)
           w == SetValid(u2, TRUE)
           o == [blk |-> Root, buf |-> Flagged(u2.disk[Root], TRUE)]
<1>1. LeaveBulk(v) = w
  BY DEF LeaveBulk
<1>2. Leads(m, v, u0) /\ u0.dirs = <<>>
  BY FlushSane
<1> HIDE DEF u0
<1>3. Sane(m, u0) /\ Marked(u0) /\ u0 \in Volume /\ u0.out \in Seq(Pending) /\ u0.err = v.err
  BY <1>2, Parts DEF Leads, Sane, Kept
<1>4. /\ u1 \in Volume /\ u1.disk = u0.disk /\ u1.bits = u0.bits /\ u1.dirs = <<>>
      /\ u1.out = u0.out /\ ~u1.bulk /\ u1.flavor = u0.flavor /\ u1.err = u0.err
  BY <1>2, <1>3 DEF Volume
<1> HIDE DEF u1
<1>5. Sane(m, u1)
  <2>1. Len(u1.dirs) = 0
    BY <1>4
  <2>2. Kept(u1)
    BY <1>4, <2>1 DEF Kept
  <2>3. Arrives(m, u1)
    BY <1>3, <1>4 DEF Sane, Arrives, Newest
  <2> QED BY <1>3, <1>4, <2>2, <2>3 DEF Sane
<1>6. \A i \in 1..Len(u1.out) : u1.out[i].blk = Root => ~u1.out[i].buf.valid
  BY <1>3, <1>4 DEF Marked
<1>7. /\ Leads(m, u1, u2) /\ u2.bits = u1.free /\ u2.free = u1.free
  BY <1>5, BitsSane
<1>8. u2.out = u1.out \/ u2.out = Append(u1.out, [blk |-> 0, buf |-> u1.free])
  BY <1>4 DEF WriteBits, Volume
<1> HIDE DEF u2
<1>9. \A i \in 1..Len(u2.out) : u2.out[i].blk = Root => ~u2.out[i].buf.valid
  <2>1. CASE u2.out = u1.out
    BY <1>6, <2>1
  <2>2. CASE u2.out = Append(u1.out, [blk |-> 0, buf |-> u1.free])
    <3> DEFINE x == [blk |-> 0, buf |-> u1.free]
    <3>1. x.blk = 0 /\ Root # 0 /\ u1.out \in Seq(Pending)
      BY <1>3, <1>4, Sizes
    <3>2. u2.out = Append(u1.out, x)
      BY <2>2
    <3> HIDE DEF x
    <3>3. /\ Len(u2.out) = Len(u1.out) + 1 /\ u2.out[Len(u1.out) + 1] = x
          /\ \A i \in 1..Len(u1.out) : u2.out[i] = u1.out[i]
          /\ \A i \in 1..Len(u1.out)+1 : i \in 1..Len(u1.out) \/ i = Len(u1.out) + 1
      BY <3>1, <3>2
    <3> QED BY <1>6, <3>1, <3>3
  <2> QED BY <1>8, <2>1, <2>2
<1>10. /\ Leads(m, u2, w) /\ w.out = Append(u2.out, o) /\ w.bits = u2.bits /\ w.free = u2.free
  <2>1. Sane(m, u2) /\ ~u2.bulk /\ TRUE \in BOOLEAN
    BY <1>4, <1>7 DEF Leads
  <2> QED BY ONLY <2>1, SetValidSane DEF w, o
<1> HIDE DEF w, o
<1>11. u2.out \in Seq(Pending)
  BY <1>7, Parts DEF Leads, Sane, Kept
<1>12. /\ Len(w.out) = Len(u2.out) + 1 /\ Len(u2.out) \in Nat
       /\ \A i \in 1..Len(u2.out) : w.out[i] = u2.out[i]
  BY <1>10, <1>11
<1>13. Len(w.out) > 0 /\ Len(w.out) - 1 = Len(u2.out)
  BY <1>12
<1>14. \A i \in 1..Len(w.out)-1 : w.out[i].blk = Root => ~w.out[i].buf.valid
  BY <1>9, <1>12, <1>13
<1> QED BY <1>1, <1>3, <1>4, <1>7, <1>10, <1>13, <1>14 DEF Leads

\* The writes of a repair: of the bitmap, and of the root with bm_flag set.
BitsWrite(v) == [blk |-> 0, buf |-> v.bits]
RootWrite(d) == [blk |-> Root, buf |-> Flagged(d[Root], TRUE)]
Mends(v, w) ==
  /\ w.disk \in {v.disk, [v.disk EXCEPT ![Root] = Flagged(v.disk[Root], TRUE)]}
  /\ Twins(v.disk, w.disk) /\ w.disk[Root].valid
  /\ w.free = Blk \ UsedBlocks(v.disk)
  /\ w = v \/ w.bits = w.free
  /\ \/ w.out = <<>>
     \/ Len(w.out) = 1 /\ w.out[1] = RootWrite(v.disk)
     \/ Len(w.out) = 2 /\ w.out[1] = BitsWrite(w) /\ w.out[2] = RootWrite(v.disk)

LEMMA TwinsSelf ==
  ASSUME NEW d \in Bufs
  PROVE  Twins(d, d)
BY DEF Twins

LEMMA RepairSane ==
  ASSUME NEW m, NEW v, Sane(m, v), ~v.bulk, v.out = <<>>
  PROVE  /\ Sane(m, Repair(v)) /\ ~Repair(v).bulk /\ Repair(v).err = v.err
         /\ Mends(v, Repair(v))
<1> DEFINE used == UsedBlocks(v.disk)
           w == [v EXCEPT !.free = Blk \ used]
           u == WriteBits(w)
           r == SetValid(u, TRUE)
<1>1. v \in Volume /\ v.disk \in Bufs /\ v.dirs = <<>> /\ Root \in Blk
  BY Parts, Sizes DEF Sane, Kept
<1>2. View(v) = v.disk /\ Read(v, Root) = v.disk[Root]
  BY <1>1 DEF View, Read, DirtyAt
<1>3. Repair(v) = IF w.free = v.free /\ v.disk[Root].valid THEN v ELSE r
  BY <1>2 DEF Repair
<1>4. Root \in used
  <2>1. Root \in Reached(v.disk) /\ Root # 0
    BY <1>1, RootReached, Sizes
  <2>2. Root \in Owned(v.disk, Root)
    BY <2>1 DEF Owned
  <2> QED BY <2>1, <2>2 DEF UsedBlocks
<1> HIDE DEF used
<1>5. /\ w \in Volume /\ w.disk = v.disk /\ w.bits = v.bits /\ w.bulk = v.bulk
      /\ w.dirs = v.dirs /\ w.out = v.out /\ w.flavor = v.flavor /\ w.err = v.err
      /\ w.free = Blk \ used
  BY <1>1, <1>4 DEF Volume, Block
<1> HIDE DEF w
<1>6. CASE w.free = v.free /\ v.disk[Root].valid
  <2>1. Repair(v) = v
    BY <1>3, <1>6
  <2>2. Mends(v, v)
    BY <1>1, <1>5, <1>6, TwinsSelf DEF Mends, used
  <2> QED BY <2>1, <2>2
<1>7. CASE ~(w.free = v.free /\ v.disk[Root].valid)
  <2>1. Repair(v) = r
    BY <1>3, <1>7
  <2>2. Sane(m, w)
    BY <1>5, MemorySane
  <2>3. Leads(m, w, u) /\ u.bits = w.free /\ u.free = w.free /\ u.disk = w.disk
    BY <2>2, BitsSane
  <2>4. u.out = <<>> \/ u.out = Append(<<>>, BitsWrite(u))
    <3>1. CASE w.free = w.bits
      BY <1>5, <3>1 DEF WriteBits
    <3>2. CASE w.free # w.bits
      <4>1. u.out = Append(<<>>, [blk |-> 0, buf |-> w.free])
        BY <1>5, <3>2 DEF WriteBits, Volume
      <4> QED BY <2>3, <4>1 DEF BitsWrite
    <3> QED BY <3>1, <3>2
  <2> HIDE DEF u
  <2>5. /\ Leads(m, u, r) /\ r.disk = [v.disk EXCEPT ![Root] = Flagged(v.disk[Root], TRUE)]
        /\ r.out = Append(u.out, RootWrite(v.disk)) /\ r.bits = u.bits /\ r.free = u.free
        /\ Flagged(v.disk[Root], TRUE).valid
    <3>1. Sane(m, u) /\ ~u.bulk /\ TRUE \in BOOLEAN /\ u.disk = v.disk
      BY <1>5, <2>3 DEF Leads
    <3> DEFINE b == Flagged(u.disk[Root], TRUE)
    <3>2. /\ Leads(m, u, r) /\ r.disk = [u.disk EXCEPT ![Root] = b]
          /\ r.out = Append(u.out, [blk |-> Root, buf |-> b])
          /\ r.bits = u.bits /\ r.free = u.free
      BY ZenonT(40), <3>1, SetValidSane
    <3> HIDE DEF b
    <3> HIDE DEF r
    <3>3. Flagged(v.disk[Root], TRUE).valid
      BY <1>1 DEF Flagged, Bufs, BufType
    <3> QED BY <3>1, <3>2, <3>3 DEF RootWrite, b
  <2> HIDE DEF r
  <2>6. r.disk[Root].valid
    BY <1>1, <2>5 DEF Bufs
  <2>7. Twins(v.disk, r.disk)
    BY <1>1, <2>5, ValidTwins DEF Flagged
  <2>8. \/ Len(r.out) = 1 /\ r.out[1] = RootWrite(v.disk)
        \/ Len(r.out) = 2 /\ r.out[1] = BitsWrite(r) /\ r.out[2] = RootWrite(v.disk)
    <3>1. BitsWrite(r) = BitsWrite(u)
      BY <2>5 DEF BitsWrite
    <3>2. r.out = Append(u.out, RootWrite(v.disk)) /\ <<>> \in Seq({BitsWrite(u)})
      BY <2>5
    <3>3. CASE u.out = <<>>
      BY <3>2, <3>3
    <3>4. CASE u.out = Append(<<>>, BitsWrite(u))
      <4>1. u.out \in Seq({BitsWrite(u)}) /\ Len(u.out) = 1 /\ u.out[1] = BitsWrite(u)
        BY <3>2, <3>4
      <4> QED BY <3>1, <3>2, <4>1
    <3> QED BY <2>4, <3>3, <3>4
  <2>9. r.free = Blk \ UsedBlocks(v.disk) /\ r.bits = r.free
    BY <1>5, <2>3, <2>5 DEF used
  <2>10. Mends(v, r)
    BY <2>5, <2>6, <2>7, <2>8, <2>9 DEF Mends
  <2>11. Sane(m, r) /\ ~r.bulk /\ r.err = v.err
    BY <1>5, <2>3, <2>5 DEF Leads
  <2> QED BY <2>1, <2>10, <2>11
<1> QED BY <1>6, <1>7

\* Two writes of different blocks may change places.
LEMMA SwappedArrive ==
  ASSUME NEW m, NEW v, NEW w, Arrives(m, v), w.disk = v.disk, w.bits = v.bits,
         \/ Len(v.out) = 0 /\ Len(w.out) = 0
         \/ Len(v.out) = 1 /\ Len(w.out) = 1 /\ w.out[1] = v.out[1]
         \/ /\ Len(v.out) = 2 /\ Len(w.out) = 2 /\ v.out[1].blk # v.out[2].blk
            /\ w.out[1] = v.out[2] /\ w.out[2] = v.out[1]
  PROVE  Arrives(m, w)
<1> SUFFICES ASSUME NEW c \in 0..NBlocks
    PROVE  /\ (\A i \in 1..Len(w.out) : w.out[i].blk # c) => OnMedium(m, c) = Newest(w, c)
           /\ \A i \in 1..Len(w.out) :
                w.out[i].blk = c /\ (\A j \in 1..Len(w.out) : i < j => w.out[j].blk # c)
                  => w.out[i].buf = Newest(w, c)
  BY DEF Arrives
<1>1. /\ (\A i \in 1..Len(v.out) : v.out[i].blk # c) => OnMedium(m, c) = Newest(v, c)
      /\ \A i \in 1..Len(v.out) :
           v.out[i].blk = c /\ (\A j \in 1..Len(v.out) : i < j => v.out[j].blk # c)
             => v.out[i].buf = Newest(v, c)
  BY DEF Arrives
<1>2. Newest(w, c) = Newest(v, c)
  BY DEF Newest
<1>3. CASE Len(v.out) = 0 /\ Len(w.out) = 0
  <2>1. 1..0 = {}
    OBVIOUS
  <2> QED BY <1>1, <1>2, <1>3, <2>1
<1>4. CASE Len(v.out) = 1 /\ Len(w.out) = 1 /\ w.out[1] = v.out[1]
  <2>1. 1..1 = {1} /\ ~(1 < 1)
    OBVIOUS
  <2> QED BY <1>1, <1>2, <1>4, <2>1
<1>5. CASE /\ Len(v.out) = 2 /\ Len(w.out) = 2 /\ v.out[1].blk # v.out[2].blk
           /\ w.out[1] = v.out[2] /\ w.out[2] = v.out[1]
  <2>1. 1..2 = {1, 2} /\ ~(1 < 1) /\ 1 < 2 /\ ~(2 < 1) /\ ~(2 < 2)
    OBVIOUS
  <2>2. /\ v.out[1].blk # c /\ v.out[2].blk # c => OnMedium(m, c) = Newest(v, c)
        /\ v.out[1].blk = c /\ v.out[2].blk # c => v.out[1].buf = Newest(v, c)
        /\ v.out[2].blk = c => v.out[2].buf = Newest(v, c)
    BY <1>1, <1>5, <2>1
  <2> QED BY <1>2, <1>5, <2>1, <2>2
<1> QED BY <1>3, <1>4, <1>5

\* What the command repair --write leaves.
Restores(m, w) ==
  /\ Sane(m, w) /\ ~w.bulk /\ w.err = "none" /\ w.bits = w.free
  /\ \A i \in 1..Len(w.out) : w.out[i].blk # 0 => w.out[i] = RootWrite(m.disk)
  /\ \/ w.bits = Blk \ UsedBlocks(w.disk)
     \/ ~Sound(w, w.disk, Blk \ UsedBlocks(w.disk))

LEMMA CommandSane ==
  ASSUME NEW m \in Medium
  PROVE  Restores(m, RepairCommand(Mounted(m)))
<1> DEFINE v == Mounted(m)
           w == Repair(v)
           r == [w EXCEPT !.out = Ascending(@)]
<1>1. /\ Sane(m, v) /\ ~v.bulk /\ v.err = "none" /\ v.out = <<>> /\ v.disk = m.disk
      /\ v.bits = m.bits /\ v.free = m.bits
  BY MountedSane
<1> HIDE DEF v
<1>2. Sane(m, w) /\ ~w.bulk /\ w.err = v.err /\ Mends(v, w)
  BY <1>1, RepairSane
<1>3. RepairCommand(v) = IF w.free # v.free /\ Sound(w, View(w), w.free) THEN r ELSE v
  BY DEF RepairCommand
<1> HIDE DEF w
<1>4. /\ w \in Volume /\ w.dirs = <<>> /\ View(w) = w.disk /\ w.out \in Seq(Pending)
      /\ w.flavor = v.flavor
  <2>1. w \in Volume /\ w.dirs = <<>> /\ w.flavor = v.flavor
    BY <1>1, <1>2 DEF Sane, Kept
  <2> QED BY <2>1, Parts DEF View
<1>5. UsedBlocks(w.disk) = UsedBlocks(v.disk) /\ w.free = Blk \ UsedBlocks(w.disk)
      /\ Twins(v.disk, w.disk)
  BY <1>2, TwinsReached DEF Mends
<1>6. CASE w.free # v.free /\ Sound(w, View(w), w.free)
  <2>1. RepairCommand(v) = r
    BY <1>3, <1>6
  <2>2. w.bits = w.free
    BY <1>2, <1>6 DEF Mends
  <2> DEFINE s == Ascending(w.out)
  <2>3. /\ s = [i \in 1..Len(w.out) |-> w.out[(Len(w.out) - i) + 1]]
        /\ Len(w.out) \in Nat
    BY <1>4 DEF Ascending, Reverse
  <2>4. \A i \in 1..Len(w.out) :
          (Len(w.out) - i) + 1 \in 1..Len(w.out) /\ w.out[(Len(w.out) - i) + 1] \in Pending
    BY <1>4, <2>3
  <2>5. s \in Seq(Pending) /\ Len(s) = Len(w.out)
    BY <2>3, <2>4
  <2>6. \A i \in 1..Len(w.out) : s[i] = w.out[(Len(w.out) - i) + 1]
    BY <2>3
  <2> HIDE DEF s
  <2>7. /\ r \in Volume /\ r.disk = w.disk /\ r.bits = w.bits /\ r.free = w.free
        /\ r.bulk = w.bulk /\ r.dirs = w.dirs /\ r.out = s /\ r.flavor = w.flavor
        /\ r.err = w.err
    BY <1>4, <2>5 DEF Volume, s
  <2> HIDE DEF r
  <2>8. \/ Len(w.out) = 0 /\ Len(s) = 0
        \/ Len(w.out) = 1 /\ Len(s) = 1 /\ s[1] = w.out[1]
        \/ /\ Len(w.out) = 2 /\ Len(s) = 2 /\ w.out[1].blk # w.out[2].blk
           /\ s[1] = w.out[2] /\ s[2] = w.out[1]
    <3>1. BitsWrite(w).blk = 0 /\ RootWrite(v.disk).blk = Root /\ Root # 0
      BY Sizes DEF BitsWrite, RootWrite
    <3>2. CASE w.out = <<>>
      BY <2>5, <3>2
    <3>3. CASE Len(w.out) = 1
      BY <2>5, <2>6, <3>3
    <3>4. CASE Len(w.out) = 2 /\ w.out[1] = BitsWrite(w) /\ w.out[2] = RootWrite(v.disk)
      BY <2>5, <2>6, <3>1, <3>4
    <3> QED BY <1>2, <3>2, <3>3, <3>4 DEF Mends
  <2>9. Arrives(m, w)
    BY <1>2 DEF Sane
  <2>10. Arrives(m, r)
    BY <2>7, <2>8, <2>9, SwappedArrive
  <2>11. Kept(r)
    BY <1>2, <2>7 DEF Sane, Kept
  <2>12. Sane(m, r)
    BY <1>2, <2>7, <2>10, <2>11 DEF Sane
  <2>13. ASSUME NEW i \in 1..Len(r.out), r.out[i].blk # 0
         PROVE  r.out[i] = RootWrite(m.disk)
    <3>1. BitsWrite(w).blk = 0
      BY DEF BitsWrite
    <3>2. \E j \in 1..Len(w.out) : r.out[i] = w.out[j]
      BY <2>4, <2>5, <2>6, <2>7
    <3>3. \A j \in 1..Len(w.out) : w.out[j] = BitsWrite(w) \/ w.out[j] = RootWrite(v.disk)
      <4>1. w.out = <<>> => Len(w.out) = 0
        OBVIOUS
      <4>2. 1..0 = {} /\ 1..1 = {1} /\ 1..2 = {1, 2}
        OBVIOUS
      <4> QED BY <1>2, <4>1, <4>2 DEF Mends
    <3> QED BY <1>1, <2>13, <3>1, <3>2, <3>3
  <2> QED BY <1>1, <1>2, <1>5, <2>1, <2>2, <2>7, <2>12, <2>13 DEF Restores, v
<1>7. CASE ~(w.free # v.free /\ Sound(w, View(w), w.free))
  <2>1. RepairCommand(v) = v
    BY <1>3, <1>7
  <2>2. \/ v.bits = Blk \ UsedBlocks(v.disk)
        \/ ~Sound(v, v.disk, Blk \ UsedBlocks(v.disk))
    <3>1. CASE w.free = v.free
      BY <1>1, <1>5, <3>1
    <3>2. CASE ~Sound(w, w.disk, w.free)
      BY <1>4, <1>5, <3>2, TwinsSound
    <3> QED BY <1>4, <1>7, <3>1, <3>2
  <2>3. 1..Len(v.out) = {}
    BY <1>1
  <2> QED BY <1>1, <2>1, <2>2, <2>3 DEF Restores, v
<1> QED BY <1>6, <1>7 DEF v

-----------------------------------------------------------------------------
(* The invariant *)

\* Outside a bulk session the bitmap is on its way, too, unless a call of this
\* process stopped half-way.
BitsWritten == ~vol.bulk /\ (Changed \/ mishap # "failed") => vol.bits = vol.free

\* From the first write of a bulk session on bm_flag is cleared.
FlagCleared ==
  vol.bulk =>
    \/ ~media.disk[Root].valid
    \/ /\ call.op = "bulk" /\ Len(vol.out) = 1
       /\ vol.out[1].blk = Root /\ ~vol.out[1].buf.valid

\* Only the last write of a bulk session sets it.
FlagSetLast ==
  call.op = "bulk" /\ ~vol.bulk =>
    /\ call.err = "none"
    /\ \/ Len(vol.out) = 0
       \/ /\ ~media.disk[Root].valid
          /\ \A i \in 1..Len(vol.out)-1 : vol.out[i].blk = Root => ~vol.out[i].buf.valid

\* A repair writes nothing but the bitmap and bm_flag.
RepairUnderWay ==
  call.op \in {"repair", "repair --write"} =>
    /\ ~vol.bulk /\ TreeOf(media.disk, media.disk) = before
    /\ \A i \in 1..Len(vol.out) : vol.out[i].blk # 0 => vol.out[i] = RootWrite(media.disk)
    /\ call.op = "repair" =>
         vol.disk[Root].valid /\ vol.free = Blk \ UsedBlocks(vol.disk)
    /\ call.op = "repair --write" =>
         \/ vol.bits = Blk \ UsedBlocks(vol.disk)
         \/ ~Sound(vol, vol.disk, Blk \ UsedBlocks(vol.disk))

VolumeInvariant ==
  /\ media \in Medium /\ Sane(media, vol) /\ vol.err = "none"
  /\ BitsWritten /\ FlagCleared /\ FlagSetLast /\ RepairUnderWay

\* A volume that format() left is one.
LEMMA FormattedMedium ==
  ASSUME NEW flavor \in Flavors
  PROVE  Formatted(flavor) \in Medium
<1> DEFINE cache == IF flavor \in {4, 5} THEN Root + 1 ELSE 0
           root == [Blank EXCEPT !.kind = "root", !.ptr = cache, !.valid = TRUE]
           record == CacheBlock(Root, {})
           disk == [b \in Blk |-> IF b = Root THEN root
                                  ELSE IF b = cache THEN record ELSE Blank]
<1>1. flavor \in 0..7 /\ cache \in Ptr /\ Root \in 0..NBlocks /\ 0 \in Ptr /\ 0 \in 0..NBlocks
  BY VolumeAssumption, Sizes
<1> HIDE DEF cache
<1>2. Blank \in BufType
  BY <1>1 DEF Blank, BufType
<1>3. root \in BufType
  BY <1>1, <1>2 DEF BufType
<1>4. record \in BufType
  BY <1>1, <1>2 DEF BufType, CacheBlock
<1> HIDE DEF root, record
<1>5. disk \in Bufs
  BY <1>2, <1>3, <1>4 DEF Bufs
<1> HIDE DEF disk
<1>6. Blk \ {Root, cache} \in SUBSET Block
  BY DEF Block
<1>7. Formatted(flavor) = [flavor |-> flavor, disk |-> disk, bits |-> Blk \ {Root, cache}]
  BY DEF Formatted, cache, root, record, disk
<1> QED BY <1>1, <1>5, <1>6, <1>7 DEF Medium

LEMMA InitInvariant == Init => VolumeInvariant
<1> SUFFICES ASSUME Init PROVE VolumeInvariant
  OBVIOUS
<1>1. PICK flavor \in Flavors : media = Formatted(flavor)
  BY DEF Init
<1>2. media \in Medium
  BY <1>1, FormattedMedium
<1>3. /\ Sane(media, vol) /\ ~vol.bulk /\ vol.err = "none" /\ vol.bits = vol.free
  BY <1>2, MountedSane DEF Init
<1>4. call.op = "none"
  BY DEF Init, Called
<1>5. call.op # "bulk" /\ call.op \notin {"repair", "repair --write"}
  BY <1>4
<1> QED BY <1>2, <1>3, <1>5
        DEF VolumeInvariant, BitsWritten, FlagCleared, FlagSetLast, RepairUnderWay

LEMMA PathsTyped ==
  ASSUME NEW p \in Paths
  PROVE  p \in Seq(Names) /\ p # <<>>
<1>1. PICK k \in 1..MaxDepth : p \in [1..k -> Names]
  BY DEF Paths
<1>2. k \in Nat /\ k # 0
  BY <1>1, VolumeAssumption
<1>3. p \in Seq(Names) /\ Len(p) = k
  BY <1>1, <1>2
<1> QED BY <1>2, <1>3

\* An exception is reported and then forgotten.
LEMMA Reported ==
  ASSUME NEW m, NEW w, Sane(m, w), NEW u, u = [w EXCEPT !.err = "none"]
  PROVE  /\ Sane(m, u) /\ u.err = "none" /\ u.bits = w.bits /\ u.free = w.free
         /\ u.bulk = w.bulk /\ u.out = w.out /\ u.disk = w.disk /\ u.flavor = w.flavor
<1>1. /\ u \in Volume /\ u.disk = w.disk /\ u.bits = w.bits /\ u.bulk = w.bulk
      /\ u.dirs = w.dirs /\ u.out = w.out /\ u.flavor = w.flavor /\ u.free = w.free
      /\ u.err = "none"
  BY DEF Sane, Kept, Volume, Errors
<1> QED BY <1>1, MemorySane

\* What mkdir, makedirs, write, delete and rename have in common.
LEMMA OrdinaryCall ==
  ASSUME VolumeInvariant, vol.out = <<>>,
         NEW w, Stays(media, vol, w), NEW op, NEW p, NEW q, Return(w, op, p, q),
         op \in {"mkdir", "makedirs", "write", "delete", "rename"},
         op # "makedirs" => Done(media, vol, w)
  PROVE  VolumeInvariant'
<1>1. /\ vol' = [w EXCEPT !.err = "none"] /\ media' = media
      /\ call' = Called(op, p, q, w.err)
      /\ mishap' = IF w.err \in Half THEN "failed" ELSE mishap
  BY DEF Return, Half
<1>2. Sane(media, w) /\ w.bulk = vol.bulk
  BY DEF Stays
<1>3. /\ Sane(media, vol') /\ vol'.err = "none" /\ vol'.bits = w.bits /\ vol'.free = w.free
      /\ vol'.bulk = w.bulk /\ vol'.out = w.out
  BY <1>1, <1>2, Reported
<1>4. call'.op = op /\ call'.err = w.err
  BY <1>1 DEF Called
<1>5. BitsWritten'
  <2> SUFFICES ASSUME ~vol'.bulk, Changed' \/ mishap' # "failed" PROVE vol'.bits = vol'.free
    BY DEF BitsWritten
  <2>1. ~vol.bulk /\ ~w.bulk
    BY <1>2, <1>3
  <2>2. CASE Changed'
    <3>1. op # "makedirs" /\ w.err = "none"
      BY <1>4, <2>2 DEF Changed
    <3>2. w.err \notin Half
      BY <3>1 DEF Half
    <3> QED BY <1>3, <2>1, <3>1, <3>2 DEF Done, Synced
  <2>3. CASE mishap' # "failed"
    <3>1. w.err \notin Half /\ mishap # "failed"
      BY <1>1, <2>3
    <3>2. Synced(vol)
      BY <2>1, <3>1 DEF VolumeInvariant, BitsWritten, Synced
    <3> QED BY <1>3, <2>1, <3>1, <3>2 DEF Stays, Synced
  <2> QED BY <2>2, <2>3
<1>6. FlagCleared'
  <2> SUFFICES ASSUME vol'.bulk PROVE ~media'.disk[Root].valid
    BY DEF FlagCleared
  <2>1. vol.bulk /\ Len(vol.out) = 0
    BY <1>2, <1>3
  <2>2. Len(vol.out) # 1
    BY <2>1
  <2> QED BY <1>1, <2>1, <2>2 DEF VolumeInvariant, FlagCleared
<1>7. call'.op # "bulk" /\ call'.op \notin {"repair", "repair --write"}
  BY <1>4
<1> QED BY <1>1, <1>3, <1>5, <1>6, <1>7
        DEF VolumeInvariant, FlagSetLast, RepairUnderWay

LEMMA DoneStays ==
  ASSUME NEW m, NEW v, NEW w, Done(m, v, w)
  PROVE  Stays(m, v, w)
BY DEF Done, Stays

-----------------------------------------------------------------------------
(* Every step keeps it *)

LEMMA MkdirKeeps ==
  ASSUME VolumeInvariant, NEW p \in Paths, CallMkdir(p)
  PROVE  VolumeInvariant'
<1> DEFINE at == InDir(vol, p)
           w == Mkdir(at.vol, at.blk, Last(p))
<1>1. /\ vol.out = <<>> /\ at.blk # 0 /\ Fits(vol, 1) /\ Return(w, "mkdir", p, <<>>)
  BY DEF CallMkdir, Ready
<1>2. Sane(media, vol) /\ vol.err = "none" /\ Kept(vol)
  BY DEF VolumeInvariant, Sane
<1>3. p \in Seq(Names) /\ p # <<>> /\ Last(p) \in Names
  BY PathsTyped, FrontTyped
<1>4. at \in Place /\ Alike(vol, at.vol)
  BY <1>2, <1>3, InDirFinds DEF Found
<1> HIDE DEF at
<1>5. /\ Leads(media, vol, at.vol) /\ at.vol.free = vol.free /\ at.blk \in Blk
  BY <1>1, <1>2, <1>4, AlikeSane DEF Alike, Place, Blk
<1>6. Done(media, at.vol, w)
  BY <1>1, <1>2, <1>3, <1>5, MkdirDone DEF Leads, Fits
<1> HIDE DEF w
<1>7. Done(media, vol, w)
  BY <1>5, <1>6 DEF Done, Leads
<1> QED BY <1>1, <1>7, DoneStays, OrdinaryCall

LEMMA MakedirsKeeps ==
  ASSUME VolumeInvariant, NEW p \in Paths, CallMakedirs(p)
  PROVE  VolumeInvariant'
<1> DEFINE w == Makedirs(vol, p)
<1>1. vol.out = <<>> /\ Return(w, "makedirs", p, <<>>)
  BY DEF CallMakedirs, Ready
<1>2. Sane(media, vol) /\ p \in Seq(Names)
  BY PathsTyped DEF VolumeInvariant
<1>3. Stays(media, vol, w)
  BY <1>2, MakedirsStays
<1> HIDE DEF w
<1> QED BY <1>1, <1>3, OrdinaryCall

LEMMA WriteKeeps ==
  ASSUME VolumeInvariant, NEW p \in Paths, NEW ver \in Versions, NEW sourceFails \in BOOLEAN,
         CallWrite(p, ver, sourceFails)
  PROVE  VolumeInvariant'
<1> DEFINE at == InDir(vol, p)
           w == WriteFile(at.vol, at.blk, Last(p), ver, sourceFails)
<1>1. vol.out = <<>> /\ at.blk # 0 /\ Return(w, "write", p, <<>>)
  BY DEF CallWrite, Ready
<1>2. Sane(media, vol) /\ vol.err = "none" /\ Kept(vol)
  BY DEF VolumeInvariant, Sane
<1>3. p \in Seq(Names) /\ p # <<>> /\ Last(p) \in Names
  BY PathsTyped, FrontTyped
<1>4. at \in Place /\ Alike(vol, at.vol)
  BY <1>2, <1>3, InDirFinds DEF Found
<1> HIDE DEF at
<1>5. Leads(media, vol, at.vol) /\ at.blk \in Blk
  BY <1>1, <1>2, <1>4, AlikeSane DEF Place, Blk
<1>6. Done(media, at.vol, w)
  BY <1>2, <1>3, <1>5, WriteFileDone DEF Leads
<1> HIDE DEF w
<1>7. Done(media, vol, w)
  BY <1>5, <1>6 DEF Done, Leads
<1> QED BY <1>1, <1>7, DoneStays, OrdinaryCall

\* The Entry that the caller of delete or rename gets.
LEMMA TargetTyped ==
  ASSUME VolumeInvariant, NEW p \in Paths, Target(p).blk # 0
  PROVE  /\ EntryOf(Target(p)) \in Entries
         /\ Alike(vol, Target(p).vol)
<1> DEFINE r == Target(p)
<1>1. Kept(vol) /\ p \in Seq(Names) /\ p # <<>>
  BY PathsTyped DEF VolumeInvariant, Sane
<1>2. r \in Place /\ Alike(vol, r.vol) /\ r.blk \in Ptr
  BY <1>1, ResolvedFinds DEF Found, Target
<1> HIDE DEF r
<1>3. r.blk \in Block /\ r.vol.disk \in Bufs
  BY <1>2, Sizes, Parts DEF Alike, r
<1>4. r.vol.disk[r.blk] \in BufType
  BY <1>3 DEF Block, Bufs
<1>5. Entry(r.vol.disk[r.blk], r.blk) \in Entries
  BY <1>3, <1>4, EntryTyped
<1> QED BY <1>2, <1>5 DEF EntryOf, r

LEMMA DeleteKeeps ==
  ASSUME VolumeInvariant, NEW p \in Paths, CallDelete(p)
  PROVE  VolumeInvariant'
<1> DEFINE v == Target(p).vol
           e == EntryOf(Target(p))
           w == Delete(v, e)
<1>1. vol.out = <<>> /\ Target(p).blk # 0 /\ Return(w, "delete", p, <<>>)
  BY DEF CallDelete, Ready
<1>2. Sane(media, vol) /\ vol.err = "none"
  BY DEF VolumeInvariant
<1>3. e \in Entries /\ Alike(vol, v)
  BY <1>1, TargetTyped
<1> HIDE DEF v, e
<1>4. Leads(media, vol, v)
  BY <1>2, <1>3, AlikeSane
<1>5. Done(media, v, w)
  BY <1>2, <1>3, <1>4, DeleteDone DEF Leads
<1> HIDE DEF w
<1>6. Done(media, vol, w)
  BY <1>4, <1>5 DEF Done, Leads
<1> QED BY <1>1, <1>6, DoneStays, OrdinaryCall

LEMMA RenameKeeps ==
  ASSUME VolumeInvariant, NEW p \in Paths, NEW q \in Paths, NEW spill \in BOOLEAN,
         CallRename(p, q, spill)
  PROVE  VolumeInvariant'
<1> DEFINE e == EntryOf(Target(p))
           u == ForgetPaths(ForgetNames(vol))
           at == InDir(u, q)
           w == Rename(at.vol, e, at.blk, Last(q), spill)
<1>1. /\ vol.out = <<>> /\ Target(p).blk # 0 /\ at.blk # 0
      /\ Return(w, "rename", p, q)
  BY DEF CallRename, Ready
<1>2. Sane(media, vol) /\ vol.err = "none" /\ vol \in Volume
  BY DEF VolumeInvariant, Sane, Kept
<1>3. e \in Entries
  BY <1>1, TargetTyped
<1> HIDE DEF e
<1>4. Alike(vol, u)
  <2>1. <<>> \in [{} -> SUBSET NoName] /\ <<>> \in [{} -> Blk] /\ <<>> \in Seq(Names)
    OBVIOUS
  <2>2. <<>> \in NameCache /\ <<>> \in PathCache
    BY <2>1 DEF NameCache, PathCache
  <2> QED BY <1>2, <2>1, <2>2 DEF ForgetPaths, ForgetNames, Volume, Alike
<1> HIDE DEF u
<1>5. Leads(media, vol, u)
  BY <1>2, <1>4, AlikeSane
<1>6. q \in Seq(Names) /\ q # <<>> /\ Last(q) \in Names
  BY PathsTyped, FrontTyped
<1>7. at \in Place /\ Alike(u, at.vol)
  BY <1>5, <1>6, InDirFinds DEF Found, Leads, Sane
<1> HIDE DEF at
<1>8. Leads(media, u, at.vol) /\ at.blk \in Blk
  BY <1>1, <1>5, <1>7, AlikeSane DEF Place, Blk, Leads
<1>9. Done(media, at.vol, w)
  BY <1>2, <1>3, <1>5, <1>6, <1>8, RenameDone DEF Leads
<1> HIDE DEF w
<1>10. Done(media, vol, w)
  BY <1>5, <1>8, <1>9 DEF Done, Leads
<1> QED BY <1>1, <1>10, DoneStays, OrdinaryCall

LEMMA EnterKeeps ==
  ASSUME VolumeInvariant, CallEnterBulk
  PROVE  VolumeInvariant'
<1> DEFINE w == EnterBulk(vol)
<1>1. vol.out = <<>> /\ ~vol.bulk /\ Return(w, "bulk", <<>>, <<>>)
  BY DEF CallEnterBulk, Ready
<1>2. /\ Sane(media, w) /\ w.bulk /\ w.err = vol.err /\ Len(w.out) = 1
      /\ w.out[1].blk = Root /\ ~w.out[1].buf.valid
  BY <1>1, EnterSane DEF VolumeInvariant
<1> HIDE DEF w
<1>3. /\ vol' = [w EXCEPT !.err = "none"] /\ media' = media
      /\ call' = Called("bulk", <<>>, <<>>, w.err)
  BY <1>1 DEF Return
<1>4. /\ Sane(media, vol') /\ vol'.err = "none" /\ vol'.bulk = w.bulk /\ vol'.out = w.out
  <2>1. Sane(media, w) /\ vol' = [w EXCEPT !.err = "none"]
    BY <1>2, <1>3
  <2> QED BY ONLY <2>1, Reported
<1>5. call'.op = "bulk"
  BY <1>3 DEF Called
<1> QED BY <1>2, <1>3, <1>4, <1>5
        DEF VolumeInvariant, BitsWritten, FlagCleared, FlagSetLast, RepairUnderWay

LEMMA LeaveKeeps ==
  ASSUME VolumeInvariant, CallLeaveBulk
  PROVE  VolumeInvariant'
<1> DEFINE w == LeaveBulk(vol)
<1>1. vol.out = <<>> /\ vol.bulk /\ Return(w, "bulk", <<>>, <<>>)
  BY DEF CallLeaveBulk
<1>2. /\ Sane(media, w) /\ ~w.bulk /\ w.err = "none" /\ w.bits = w.free
      /\ \A i \in 1..Len(w.out)-1 : w.out[i].blk = Root => ~w.out[i].buf.valid
  BY <1>1, LeaveSane DEF VolumeInvariant
<1> HIDE DEF w
<1>3. /\ vol' = [w EXCEPT !.err = "none"] /\ media' = media
      /\ call' = Called("bulk", <<>>, <<>>, w.err)
  BY <1>1 DEF Return
<1>4. /\ Sane(media, vol') /\ vol'.err = "none" /\ vol'.bulk = w.bulk /\ vol'.out = w.out
      /\ vol'.bits = w.bits /\ vol'.free = w.free
  BY <1>2, <1>3, Reported
<1>5. call'.op = "bulk" /\ call'.err = "none"
  BY <1>2, <1>3 DEF Called
<1>6. ~media.disk[Root].valid
  <2>1. Len(vol.out) # 1
    BY <1>1
  <2> QED BY <1>1, <2>1 DEF VolumeInvariant, FlagCleared
<1> QED BY <1>2, <1>3, <1>4, <1>5, <1>6
        DEF VolumeInvariant, BitsWritten, FlagCleared, FlagSetLast, RepairUnderWay

\* The tree that a call outside bulk mode finds is the medium's.
LEMMA TreeOnMedium ==
  ASSUME VolumeInvariant, vol.out = <<>>, ~vol.bulk
  PROVE  /\ media.disk = vol.disk /\ media.bits = vol.bits /\ View(vol) = vol.disk
         /\ Tree = TreeOf(media.disk, media.disk)
<1>1. media.disk = vol.disk /\ media.bits = vol.bits
  BY NothingPending DEF VolumeInvariant
<1>2. View(vol) = vol.disk
  BY DEF VolumeInvariant, Sane, Kept, View
<1> QED BY <1>1, <1>2 DEF Tree

LEMMA RepairKeeps ==
  ASSUME VolumeInvariant, CallRepair
  PROVE  VolumeInvariant'
<1> DEFINE w == Repair(vol)
<1>1. vol.out = <<>> /\ ~vol.bulk /\ Return(w, "repair", <<>>, <<>>)
  BY DEF CallRepair
<1>2. Sane(media, w) /\ ~w.bulk /\ w.err = vol.err /\ Mends(vol, w)
  BY <1>1, RepairSane DEF VolumeInvariant
<1> HIDE DEF w
<1>3. /\ vol' = [w EXCEPT !.err = "none"] /\ media' = media
      /\ call' = Called("repair", <<>>, <<>>, w.err) /\ before' = Tree
      /\ mishap' = IF w.err \in Half THEN "failed" ELSE mishap
  BY <1>1 DEF Return, Half
<1>4. /\ Sane(media, vol') /\ vol'.err = "none" /\ vol'.bulk = w.bulk /\ vol'.out = w.out
      /\ vol'.bits = w.bits /\ vol'.free = w.free /\ vol'.disk = w.disk
  BY <1>2, <1>3, Reported
<1>5. call'.op = "repair" /\ w.err = "none" /\ w.err \notin Half
  BY <1>2, <1>3 DEF Called, VolumeInvariant, Half
<1>6. media.disk = vol.disk /\ Tree = TreeOf(media.disk, media.disk)
  BY <1>1, TreeOnMedium
<1>7. BitsWritten'
  <2> SUFFICES ASSUME mishap # "failed" PROVE w.bits = w.free
    BY <1>3, <1>4, <1>5 DEF BitsWritten, Changed
  <2>1. vol.bits = vol.free
    BY <1>1 DEF VolumeInvariant, BitsWritten
  <2> QED BY <1>2, <2>1 DEF Mends
<1>8. \A i \in 1..Len(w.out) : w.out[i].blk # 0 => w.out[i] = RootWrite(media.disk)
  <2>1. w.out = <<>> => Len(w.out) = 0
    OBVIOUS
  <2>2. 1..0 = {} /\ 1..1 = {1} /\ 1..2 = {1, 2} /\ BitsWrite(w).blk = 0
    BY DEF BitsWrite
  <2> QED BY <1>2, <1>6, <2>1, <2>2 DEF Mends
<1>9. w.disk[Root].valid /\ w.free = Blk \ UsedBlocks(w.disk)
  BY <1>2, TwinsReached DEF Mends
<1>10. RepairUnderWay'
  BY ZenonT(40), <1>2, <1>3, <1>4, <1>5, <1>6, <1>8, <1>9 DEF RepairUnderWay
<1> QED BY <1>2, <1>3, <1>4, <1>5, <1>7, <1>10 DEF VolumeInvariant, FlagCleared, FlagSetLast

LEMMA CommandKeeps ==
  ASSUME VolumeInvariant, CallRepairCommand
  PROVE  VolumeInvariant'
<1> DEFINE w == RepairCommand(Mounted(media))
           op == "repair --write"
<1>1. vol.out = <<>> /\ ~vol.bulk /\ Return(w, op, <<>>, <<>>)
  BY DEF CallRepairCommand
<1>2. Restores(media, w)
  BY CommandSane DEF VolumeInvariant
<1> HIDE DEF w
<1>3. /\ vol' = [w EXCEPT !.err = "none"] /\ media' = media
      /\ call' = Called(op, <<>>, <<>>, w.err) /\ before' = Tree
  BY <1>1 DEF Return
<1>4. /\ Sane(media, vol') /\ vol'.err = "none" /\ vol'.bulk = w.bulk /\ vol'.out = w.out
      /\ vol'.bits = w.bits /\ vol'.free = w.free /\ vol'.disk = w.disk
      /\ vol'.flavor = w.flavor
  <2>1. Sane(media, w) /\ vol' = [w EXCEPT !.err = "none"]
    BY <1>2, <1>3 DEF Restores
  <2> QED BY ONLY <2>1, Reported
<1>5. call'.op = op
  BY <1>3 DEF Called
<1>6. media.disk = vol.disk /\ Tree = TreeOf(media.disk, media.disk)
  BY <1>1, TreeOnMedium
<1>7. ~vol'.bulk /\ vol'.bits = vol'.free
  BY <1>2, <1>4 DEF Restores
<1>8. \/ vol'.bits = Blk \ UsedBlocks(vol'.disk)
      \/ ~Sound(vol', vol'.disk, Blk \ UsedBlocks(vol'.disk))
  BY <1>2, <1>4 DEF Restores, Sound, Cached, DirCache
<1>9. \A i \in 1..Len(vol'.out) : vol'.out[i].blk # 0 => vol'.out[i] = RootWrite(media.disk)
  BY <1>2, <1>4 DEF Restores
<1>10. RepairUnderWay'
  BY <1>3, <1>5, <1>6, <1>7, <1>8, <1>9 DEF RepairUnderWay
<1> QED BY <1>3, <1>4, <1>5, <1>7, <1>10
        DEF VolumeInvariant, BitsWritten, FlagCleared, FlagSetLast

\* A write reaches the medium.
LEMMA DeviceKeeps ==
  ASSUME VolumeInvariant, DeviceWrite
  PROVE  VolumeInvariant'
<1> DEFINE o == Head(vol.out)
           k == Len(vol.out)
<1>1. /\ vol.out # <<>> /\ vol' = [vol EXCEPT !.out = Tail(@)]
      /\ media' = IF o.blk = 0 THEN [media EXCEPT !.bits = o.buf]
                  ELSE [media EXCEPT !.disk[o.blk] = o.buf]
      /\ call' = call /\ before' = before /\ mishap' = mishap
  BY DEF DeviceWrite
<1>2. /\ media \in Medium /\ Sane(media, vol) /\ vol.err = "none"
      /\ BitsWritten /\ FlagCleared /\ FlagSetLast /\ RepairUnderWay
      /\ vol \in Volume /\ vol.out \in Seq(Pending)
  BY Parts DEF VolumeInvariant, Sane, Kept
<1>3. media' \in Medium /\ Sane(media', vol')
  BY <1>1, <1>2, DeviceSane
<1>4. /\ k \in Nat /\ k > 0 /\ o = vol.out[1] /\ o \in Pending
      /\ Len(Tail(vol.out)) = k - 1
      /\ \A i \in 1..k-1 : Tail(vol.out)[i] = vol.out[i + 1] /\ i + 1 \in 1..k
  BY <1>1, <1>2
<1>5. /\ vol'.out = Tail(vol.out) /\ vol'.bulk = vol.bulk /\ vol'.bits = vol.bits
      /\ vol'.free = vol.free /\ vol'.disk = vol.disk /\ vol'.flavor = vol.flavor
      /\ vol'.err = vol.err
  BY <1>1, <1>2 DEF Volume
<1>6. /\ o.blk = 0 \/ o.blk \in Blk
      /\ o.blk \in Blk => o.buf \in BufType
      /\ media.disk \in Bufs /\ Root \in Blk /\ 0 \notin Blk
  BY <1>2, <1>4, Sizes DEF Pending, Dirty, Medium
<1> HIDE DEF o, k
<1>7. media'.disk = IF o.blk = 0 THEN media.disk ELSE [media.disk EXCEPT ![o.blk] = o.buf]
  BY <1>1, <1>2, <1>6 DEF Medium
<1>8. media'.disk[Root] = IF o.blk = Root THEN o.buf ELSE media.disk[Root]
  BY <1>6, <1>7 DEF Bufs
<1>9. BitsWritten'
  BY <1>1, <1>2, <1>5 DEF BitsWritten, Changed
<1>10. FlagCleared'
  <2> SUFFICES ASSUME vol.bulk PROVE ~media'.disk[Root].valid
    BY <1>5 DEF FlagCleared
  <2>1. 1 \in 1..k /\ (\A i \in 1..k : vol.out[i].blk = Root => ~vol.out[i].buf.valid)
    BY <1>2, <1>4 DEF Sane, Kept, Marked, k
  <2>2. o.blk = Root => ~o.buf.valid
    BY <1>4, <2>1
  <2>3. ~media.disk[Root].valid \/ o.blk = Root
    BY <1>2, <1>4 DEF FlagCleared
  <2> QED BY <1>8, <2>2, <2>3
<1>11. FlagSetLast'
  <2> SUFFICES ASSUME call.op = "bulk", ~vol.bulk, k # 1
      PROVE  /\ call.err = "none" /\ ~media'.disk[Root].valid
             /\ \A i \in 1..Len(vol'.out)-1 : vol'.out[i].blk = Root => ~vol'.out[i].buf.valid
    <3>1. call.op = "bulk" /\ ~vol.bulk => call.err = "none"
      BY <1>2 DEF FlagSetLast
    <3>2. Len(vol'.out) = k - 1 /\ (k = 1 => k - 1 = 0)
      BY <1>4, <1>5
    <3> QED BY <1>1, <1>5, <3>1, <3>2 DEF FlagSetLast
  <2>1. /\ call.err = "none" /\ ~media.disk[Root].valid
        /\ \A i \in 1..k-1 : vol.out[i].blk = Root => ~vol.out[i].buf.valid
    BY <1>2, <1>4 DEF FlagSetLast, k
  <2>2. Len(vol'.out) - 1 = k - 2 /\ 1 \in 1..k-1
    BY <1>4, <1>5
  <2>3. o.blk = Root => ~o.buf.valid
    BY <1>4, <2>1, <2>2
  <2>4. \A i \in 1..k-2 : i \in 1..k-1 /\ i + 1 \in 1..k-1
    BY <1>4
  <2>5. \A i \in 1..k-2 : vol'.out[i] = vol.out[i + 1]
    BY <1>4, <1>5, <2>4
  <2> QED BY <1>8, <2>1, <2>2, <2>3, <2>4, <2>5
<1>12. 1 \in 1..k
  BY <1>4
<1>13. RepairUnderWay'
  <2> SUFFICES ASSUME call.op \in {"repair", "repair --write"}
      PROVE  /\ TreeOf(media'.disk, media'.disk) = before
             /\ \A i \in 1..Len(vol'.out) :
                  vol'.out[i].blk # 0 => vol'.out[i] = RootWrite(media'.disk)
    <3> DEFINE free == Blk \ UsedBlocks(vol.disk)
    <3>1. Sound(vol', vol.disk, free) <=> Sound(vol, vol.disk, free)
      BY <1>5 DEF Sound, Cached, DirCache
    <3>2. vol'.disk = vol.disk
      BY <1>5
    <3>3. free' = free /\ (Sound(vol, vol.disk, free)' <=> Sound(vol, vol.disk, free))
      BY <3>1, <3>2
    <3>4. call.op \in {"repair", "repair --write"} =>
            /\ ~vol'.bulk
            /\ call.op = "repair" => vol'.disk[Root].valid /\ vol'.free = free
            /\ call.op = "repair --write" =>
                 vol'.bits = free \/ ~Sound(vol, vol.disk, free)
      BY <1>2, <1>5 DEF RepairUnderWay
    <3> HIDE DEF free
    <3> QED BY <1>1, <3>3, <3>4 DEF RepairUnderWay, free
  <2>1. /\ TreeOf(media.disk, media.disk) = before
        /\ \A i \in 1..k : vol.out[i].blk # 0 => vol.out[i] = RootWrite(media.disk)
    BY <1>2 DEF RepairUnderWay, k
  <2>2. o.blk # 0 => o = RootWrite(media.disk)
    <3> QED BY <1>4, <1>12, <2>1
  <2>3. \A i \in 1..Len(vol'.out) :
          vol'.out[i].blk # 0 => vol'.out[i] = RootWrite(media.disk)
    BY ZenonT(40), <1>4, <1>5, <2>1
  <2>4. CASE o.blk = 0
    BY <1>7, <2>1, <2>3, <2>4
  <2>5. CASE o.blk # 0
    <3> DEFINE buf == Flagged(media.disk[Root], TRUE)
    <3> HIDE DEF buf
    <3>1. o.blk = Root /\ o.buf = buf
      <4>1. o = [blk |-> Root, buf |-> buf]
        BY <2>2, <2>5 DEF RootWrite, buf
      <4> QED BY <4>1
    <3>2. media'.disk = [media.disk EXCEPT ![Root] = buf]
      BY <1>7, <2>5, <3>1
    <3>3. Twins(media.disk, media'.disk)
      BY <1>6, <3>2, ValidTwins DEF Flagged, buf
    <3>4. TreeOf(media'.disk, media'.disk) = before
      BY <2>1, <3>3, TwinsTree
    <3>5. media'.disk[Root] = buf
      BY <1>8, <3>1
    <3>6. Flagged(buf, TRUE) = buf
      BY <1>6 DEF Flagged, Bufs, BufType, buf
    <3>7. RootWrite(media'.disk) = RootWrite(media.disk)
      BY <3>5, <3>6 DEF RootWrite, buf
    <3> QED BY <2>3, <3>4, <3>7
  <2> QED BY <2>4, <2>5
<1> QED BY <1>2, <1>3, <1>5, <1>9, <1>10, <1>11, <1>13 DEF VolumeInvariant

\* The process is killed: the next one mounts what reached the medium.
LEMMA CrashKeeps ==
  ASSUME VolumeInvariant, Crash
  PROVE  VolumeInvariant'
<1>1. vol' = Mounted(media) /\ media' = media /\ call'.op = "crash"
  BY DEF Crash, Called
<1>2. media \in Medium
  BY DEF VolumeInvariant
<1>3. Sane(media, vol') /\ ~vol'.bulk /\ vol'.err = "none" /\ vol'.bits = vol'.free
  BY <1>1, <1>2, MountedSane
<1>4. call'.op # "bulk" /\ call'.op \notin {"repair", "repair --write"}
  BY <1>1
<1> QED BY <1>1, <1>2, <1>3, <1>4
        DEF VolumeInvariant, BitsWritten, FlagCleared, FlagSetLast, RepairUnderWay

LEMMA StepKeeps == VolumeInvariant /\ [Next]_vars => VolumeInvariant'
<1> SUFFICES ASSUME VolumeInvariant, [Next]_vars PROVE VolumeInvariant'
  OBVIOUS
<1>1. CASE Calls(Paths)
  <2>1. PICK p \in Paths :
          \/ CallMkdir(p) \/ CallDelete(p)
          \/ \E ver \in Versions, fails \in BOOLEAN : CallWrite(p, ver, fails)
          \/ \E q \in Paths, spill \in BOOLEAN : CallRename(p, q, spill)
    BY <1>1 DEF Calls
  <2>2. CASE CallMkdir(p)
    BY <2>2, MkdirKeeps
  <2>3. CASE CallDelete(p)
    BY <2>3, DeleteKeeps
  <2>4. CASE \E ver \in Versions, fails \in BOOLEAN : CallWrite(p, ver, fails)
    BY <2>4, WriteKeeps
  <2>5. CASE \E q \in Paths, spill \in BOOLEAN : CallRename(p, q, spill)
    BY <2>5, RenameKeeps
  <2> QED BY <2>1, <2>2, <2>3, <2>4, <2>5
<1>2. CASE \E p \in Paths : CallMakedirs(p)
  BY <1>2, MakedirsKeeps
<1>3. CASE CallEnterBulk
  BY <1>3, EnterKeeps
<1>4. CASE CallLeaveBulk
  BY <1>4, LeaveKeeps
<1>5. CASE CallRepair
  BY <1>5, RepairKeeps
<1>6. CASE CallRepairCommand
  BY <1>6, CommandKeeps
<1>7. CASE DeviceWrite
  BY <1>7, DeviceKeeps
<1>8. CASE Crash
  BY <1>8, CrashKeeps
<1>9. CASE UNCHANGED vars
  <2>1. /\ vol' = vol /\ media' = media /\ call' = call /\ before' = before
        /\ mishap' = mishap
    BY <1>9 DEF vars
  <2>2. media' \in Medium /\ Sane(media', vol') /\ vol'.err = "none"
    BY <2>1 DEF VolumeInvariant
  <2>3. BitsWritten' /\ FlagCleared' /\ FlagSetLast'
    BY <2>1 DEF VolumeInvariant, BitsWritten, Changed, FlagCleared, FlagSetLast
  <2>4. RepairUnderWay'
    BY <2>1 DEF VolumeInvariant, RepairUnderWay
  <2> QED BY <2>2, <2>3, <2>4 DEF VolumeInvariant
<1> QED BY <1>1, <1>2, <1>3, <1>4, <1>5, <1>6, <1>7, <1>8, <1>9 DEF Next

-----------------------------------------------------------------------------
(* The theorems *)

\* Whatever calls are made and wherever the process is killed, the block writes
\* on their way are all that the medium lacks.
THEOREM VolumeKept == Spec => []VolumeInvariant
<1> QED BY InitInvariant, StepKeeps, PTL DEF Spec

\* Outside bulk mode nothing is left in memory only when a call has returned:
\* of all handlers of FFSVolume, of a volume of any size.
THEOREM DurableOnReturnAlways == Spec => []DurableOnReturn
<1>1. VolumeInvariant => DurableOnReturn
  <2> SUFFICES ASSUME VolumeInvariant, vol.out = <<>>, ~vol.bulk
      PROVE  media.disk = View(vol) /\ (Changed \/ mishap # "failed" => media.bits = vol.free)
    BY DEF DurableOnReturn
  <2>1. media.disk = View(vol) /\ media.bits = vol.bits
    BY TreeOnMedium
  <2> QED BY <2>1 DEF VolumeInvariant, BitsWritten
<1> QED BY <1>1, VolumeKept, PTL

\* bm_flag is cleared on the medium before anything else of a bulk session is
\* written, and set only once all the rest of it is: bulk().
THEOREM MarkedInBulkAlways == Spec => []MarkedInBulk
<1>1. VolumeInvariant => MarkedInBulk
  <2> SUFFICES ASSUME VolumeInvariant PROVE MarkedInBulk
    OBVIOUS
  <2>1. ASSUME vol.bulk, ~(call.op = "bulk" /\ vol.out # <<>>) PROVE ~media.disk[Root].valid
    <3>1. vol.out = <<>> => Len(vol.out) # 1
      OBVIOUS
    <3> QED BY <2>1, <3>1 DEF VolumeInvariant, FlagCleared
  <2>2. ASSUME call.op = "bulk", ~vol.bulk, media.disk[Root].valid
        PROVE  media.disk = View(vol) /\ media.bits = vol.free
    <3>1. Len(vol.out) = 0 /\ call.err = "none" /\ vol.out \in Seq(Pending)
      BY <2>2, Parts DEF VolumeInvariant, FlagSetLast, Sane, Kept
    <3>2. vol.out = <<>>
      BY <3>1
    <3>3. media.disk = View(vol) /\ media.bits = vol.bits
      BY <2>2, <3>2, TreeOnMedium
    <3> QED BY <2>2, <3>1, <3>3 DEF VolumeInvariant, BitsWritten, Changed
  <2> QED BY <2>1, <2>2 DEF MarkedInBulk
<1> QED BY <1>1, VolumeKept, PTL

\* A repair, wherever it is killed in turn, keeps the tree, and leaves a valid
\* bitmap that frees exactly what the tree does not use: repair() and the
\* command repair --write.
THEOREM RepairRestoresAlways == Spec => []RepairRestores
<1>1. VolumeInvariant => RepairRestores
  <2> SUFFICES ASSUME VolumeInvariant PROVE RepairRestores
    OBVIOUS
  <2>1. RepairUnderWay /\ BitsWritten
    BY DEF VolumeInvariant
  <2>2. ASSUME vol.out = <<>>, call.op \in {"repair", "repair --write"}
        PROVE  media.disk = vol.disk /\ media.bits = vol.bits /\ ~vol.bulk
    BY <2>1, <2>2, TreeOnMedium DEF RepairUnderWay
  <2>3. ASSUME vol.out = <<>>, call.op = "repair"
        PROVE  /\ media.disk[Root].valid /\ vol.free = Blk \ UsedBlocks(media.disk)
               /\ mishap # "failed" => media.bits = vol.free
    BY <2>1, <2>2, <2>3 DEF RepairUnderWay, BitsWritten
  <2>4. ASSUME vol.out = <<>>, call.op = "repair --write"
        PROVE  \/ media.bits = Blk \ UsedBlocks(media.disk)
               \/ ~Sound(vol, media.disk, Blk \ UsedBlocks(media.disk))
    BY <2>1, <2>2, <2>4 DEF RepairUnderWay
  <2>5. call.op \in {"repair", "repair --write"} => TreeOf(media.disk, media.disk) = before
    BY <2>1 DEF RepairUnderWay
  <2> QED BY <2>3, <2>4, <2>5 DEF RepairRestores
<1> QED BY <1>1, VolumeKept, PTL
=============================================================================
