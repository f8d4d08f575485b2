----------------------------- MODULE SyncProofs -----------------------------
(***************************************************************************)
(* For all trees, names, times and options, and for runs that are stopped  *)
(* anywhere: a run of sync that returns 0 has brought everything over, a   *)
(* second one would find nothing to do, no run takes what it is not to     *)
(* replace or undoes its own work, and no deletion meets what an earlier   *)
(* one has taken away.                                                     *)
(*                                                                         *)
(* The argument.  What is to be deleted either lies in the way of an item  *)
(* of the source, of the other kind, or has nothing of the source below it *)
(* (Untouched, OnlyReplaced, NoneBelow); so every item of the source is    *)
(* still to be made or is in place at each moment of a run (DirsInv,       *)
(* FilesInv), and everything else is still to be deleted (SurplusInv).     *)
(***************************************************************************)
EXTENDS Sync, SequenceTheorems, TLAPS

-----------------------------------------------------------------------------
(* Paths *)

\* A path is as long as it may be and made of names.
LEMMA PathShape ==
  \A p : p \in Paths <=> p \in Seq(Names) /\ Len(p) <= MaxDepth
<1>1. ASSUME NEW p \in Paths PROVE p \in Seq(Names) /\ Len(p) <= MaxDepth
  <2>1. PICK k \in 0..MaxDepth : p \in [1..k -> Names]
    BY DEF Paths
  <2>2. k \in Nat /\ k <= MaxDepth
    BY <2>1, SyncAssumption, SMT
  <2>3. p \in Seq(Names) /\ Len(p) = k
    BY <2>1, <2>2
  <2> QED BY <2>2, <2>3
<1>2. ASSUME NEW p \in Seq(Names), Len(p) <= MaxDepth PROVE p \in Paths
  <2>1. Len(p) \in Nat /\ p \in [1..Len(p) -> Names]
    BY LenProperties
  <2>2. Len(p) \in 0..MaxDepth
    BY <1>2, <2>1, SyncAssumption, SMT
  <2> QED BY <2>1, <2>2 DEF Paths
<1> QED BY <1>1, <1>2

\* A prefix, name by name.
LEMMA PrefixMeans ==
  ASSUME NEW p \in Paths, NEW q \in Paths
  PROVE  /\ Len(p) \in Nat /\ Len(q) \in Nat
         /\ IsPrefix(p, q) <=> Len(p) <= Len(q) /\ \A i \in 1..Len(p) : p[i] = q[i]
<1>1. p \in Seq(Names) /\ q \in Seq(Names)
  BY PathShape
<1>2. /\ Len(p) \in Nat /\ Len(q) \in Nat
      /\ \A i \in 1..Len(p) : p[i] \in Names
      /\ \A i \in 1..Len(q) : q[i] \in Names
  BY <1>1, LenProperties, ElementOfSeq
<1>3. CASE Len(p) <= Len(q)
  <2> DEFINE l == SubSeq(p, 1, Len(p))
             r == SubSeq(q, 1, Len(p))
  <2>1. /\ l \in Seq(Names) /\ Len(l) = Len(p)
        /\ \A i \in 1..Len(p) : l[i] = p[i]
    BY <1>1, <1>2, SMT
  <2>2. /\ r \in Seq(Names) /\ Len(r) = Len(p)
        /\ \A i \in 1..Len(p) : r[i] = q[i]
    BY <1>1, <1>2, <1>3, SMT
  <2> HIDE DEF l, r
  <2>3. l = r <=> \A i \in 1..Len(p) : p[i] = q[i]
    <3>1. ASSUME l = r PROVE \A i \in 1..Len(p) : p[i] = q[i]
      BY <2>1, <2>2, <3>1
    <3>2. ASSUME \A i \in 1..Len(p) : p[i] = q[i] PROVE l = r
      BY <2>1, <2>2, <3>2, SeqEqual
    <3> QED BY <3>1, <3>2
  <2>4. IsPrefix(p, q) <=> l = r
    BY <1>3 DEF IsPrefix, l, r
  <2> QED BY <1>2, <1>3, <2>3, <2>4
<1>4. CASE ~(Len(p) <= Len(q))
  BY <1>2, <1>4 DEF IsPrefix
<1> QED BY <1>3, <1>4

\* To be at or above is a partial order of the paths.
LEMMA PrefixOrder ==
  ASSUME NEW p \in Paths, NEW q \in Paths, NEW r \in Paths
  PROVE  /\ IsPrefix(p, p)
         /\ IsPrefix(p, q) /\ IsPrefix(q, p) => p = q
         /\ IsPrefix(p, q) /\ IsPrefix(q, r) => IsPrefix(p, r)
<1>1. IsPrefix(p, p)
  BY PrefixMeans, SMT
<1>2. ASSUME IsPrefix(p, q), IsPrefix(q, p) PROVE p = q
  <2>1. Len(p) = Len(q) /\ \A i \in 1..Len(p) : p[i] = q[i]
    BY <1>2, PrefixMeans, SMT
  <2>2. p \in Seq(Names) /\ q \in Seq(Names)
    BY PathShape
  <2> QED BY <2>1, <2>2, SeqEqual
<1>3. ASSUME IsPrefix(p, q), IsPrefix(q, r) PROVE IsPrefix(p, r)
  <2>1. Len(p) \in Nat /\ Len(q) \in Nat /\ Len(r) \in Nat
    BY PrefixMeans
  <2>2. Len(p) <= Len(q) /\ \A i \in 1..Len(p) : p[i] = q[i]
    BY <1>3, PrefixMeans
  <2>3. Len(q) <= Len(r) /\ \A i \in 1..Len(q) : q[i] = r[i]
    BY <1>3, PrefixMeans
  <2>4. Len(p) <= Len(r) /\ \A i \in 1..Len(p) : p[i] = r[i]
    BY <2>1, <2>2, <2>3, SMT
  <2> QED BY <2>4, PrefixMeans
<1> QED BY <1>1, <1>2, <1>3

\* The base is above everything.
LEMMA BasePrefix == Base \in Paths /\ \A p \in Paths : IsPrefix(Base, p)
<1>1. Base \in Paths
  <2>1. Base \in Seq(Names) /\ Len(Base) = 0
    BY EmptySeq DEF Base
  <2>2. 0 <= MaxDepth
    BY SyncAssumption, SMT
  <2> QED BY <2>1, <2>2, PathShape
<1>2. ASSUME NEW p \in Paths PROVE IsPrefix(Base, p)
  BY <1>1, PrefixMeans, SMT DEF Base
<1> QED BY <1>1, <1>2

\* What is strictly above a path is at or above its parent.
LEMMA Parent ==
  ASSUME NEW p \in Paths, p # Base
  PROVE  /\ Front(p) \in Paths /\ IsStrictPrefix(Front(p), p)
         /\ \A q \in Paths : IsStrictPrefix(q, p) <=> IsPrefix(q, Front(p))
<1> DEFINE f == Front(p)
<1>0. p \in Seq(Names) /\ Len(p) \in Nat \ {0} /\ Len(p) <= MaxDepth
      /\ \A i \in 1..Len(p) : p[i] \in Names
  BY PathShape, EmptySeq, ElementOfSeq DEF Base
<1>1. f \in Seq(Names) /\ Len(f) = Len(p) - 1 /\ \A i \in 1 .. Len(p)-1 : f[i] = p[i]
  BY <1>0, SMT DEF Front
<1>2. f \in Paths
  BY <1>0, <1>1, PathShape, SyncAssumption, SMT
<1> HIDE DEF f
<1>3. IsPrefix(f, p)
  BY <1>0, <1>1, <1>2, PrefixMeans, SMT
<1>4. f # p
  BY <1>0, <1>1, SMT
<1>5. ASSUME NEW q \in Paths, IsStrictPrefix(q, p) PROVE IsPrefix(q, f)
  <2>1. Len(q) \in Nat /\ Len(q) <= Len(p) /\ \A i \in 1..Len(q) : q[i] = p[i]
    BY <1>5, PrefixMeans DEF IsStrictPrefix
  <2>2. Len(q) # Len(p)
    <3>1. q \in Seq(Names)
      BY PathShape
    <3> QED BY <1>0, <1>5, <2>1, <3>1, SeqEqual DEF IsStrictPrefix
  <2>3. Len(q) <= Len(f) /\ \A i \in 1..Len(q) : q[i] = f[i]
    BY <1>0, <1>1, <2>1, <2>2, SMT
  <2> QED BY <1>2, <2>3, PrefixMeans
<1>6. ASSUME NEW q \in Paths, IsPrefix(q, f) PROVE IsStrictPrefix(q, p)
  <2>1. IsPrefix(q, p)
    BY <1>2, <1>3, <1>6, PrefixOrder
  <2>2. q # p
    BY <1>2, <1>3, <1>4, <1>6, PrefixOrder
  <2> QED BY <2>1, <2>2 DEF IsStrictPrefix
<1> QED BY <1>2, <1>3, <1>4, <1>5, <1>6 DEF IsStrictPrefix, f

\* A path comes before what is below it.
LEMMA AboveFirst ==
  ASSUME NEW p \in Paths, NEW r \in Paths, IsStrictPrefix(r, p)
  PROVE  ~Before(p, r)
<1>1. Len(r) \in Nat /\ Len(p) \in Nat /\ \A i \in 1..Len(r) : r[i] = p[i]
  BY PrefixMeans DEF IsStrictPrefix
<1>2. ~IsStrictPrefix(p, r)
  BY PrefixOrder DEF IsStrictPrefix
<1>3. ASSUME NEW i \in DOMAIN p \cap DOMAIN r PROVE ~(p[i] < r[i])
  <2>1. DOMAIN r = 1..Len(r) /\ r[i] \in Names
    BY PathShape, LenProperties, ElementOfSeq
  <2>2. p[i] = r[i] /\ r[i] \in Nat
    BY <1>1, <2>1, SyncAssumption
  <2> QED BY <2>2, SMT
<1> QED BY <1>2, <1>3 DEF Before

-----------------------------------------------------------------------------
(* Trees *)

\* A side of a run.
Items == {Directory} \cup {File(v, m) : v \in Versions \cup {Torn}, m \in 0..Now}
Side(t) == /\ DOMAIN t \subseteq Paths
           /\ IsTree(t)
           /\ \A p \in DOMAIN t : t[p] \in Items

\* What an item is made of.
LEMMA ItemShape ==
  /\ Directory \in Items /\ Directory.dir
  /\ \A v, m : ~File(v, m).dir /\ File(v, m).ver = v /\ File(v, m).mtime = m
  /\ \A v \in Versions \cup {Torn} : \A m \in 0..Now : File(v, m) \in Items
  /\ \A i \in Items : /\ i.dir \in BOOLEAN
                      /\ ~i.dir => i.ver \in Versions \cup {Torn} /\ i.mtime \in 0..Now
                                   /\ i = File(i.ver, i.mtime)
                      /\ i.mtime \in Nat /\ i.ver \in Nat
                      /\ i.dir => i = Directory
<1>0. Now \in Nat /\ \A v \in Versions \cup {Torn} : v \in Nat
  BY SyncAssumption DEF Torn
<1>1. Directory \in Items /\ Directory.dir
  BY DEF Items, Directory
<1>2. \A v, m : ~File(v, m).dir /\ File(v, m).ver = v /\ File(v, m).mtime = m
  BY DEF File
<1>3. \A v \in Versions \cup {Torn} : \A m \in 0..Now : File(v, m) \in Items
  BY DEF Items
<1>4. ASSUME NEW i \in Items
      PROVE  /\ i.dir \in BOOLEAN
             /\ ~i.dir => i.ver \in Versions \cup {Torn} /\ i.mtime \in 0..Now
                          /\ i = File(i.ver, i.mtime)
             /\ i.mtime \in Nat /\ i.ver \in Nat
             /\ i.dir => i = Directory
  <2>1. CASE i = Directory
    BY <2>1 DEF Directory
  <2>2. ASSUME NEW v \in Versions \cup {Torn}, NEW m \in 0..Now, i = File(v, m)
        PROVE  /\ i.dir = FALSE
               /\ i.ver \in Versions \cup {Torn} /\ i.mtime \in 0..Now
               /\ i = File(i.ver, i.mtime)
               /\ i.mtime \in Nat /\ i.ver \in Nat
    <3>1. i.dir = FALSE /\ i.ver = v /\ i.mtime = m
      BY <2>2 DEF File
    <3>2. v \in Nat /\ m \in Nat
      BY <1>0, SMT
    <3> QED BY <2>2, <3>1, <3>2
  <2>3. i = Directory \/ \E v \in Versions \cup {Torn} : \E m \in 0..Now : i = File(v, m)
    BY DEF Items
  <2>4. CASE i = Directory
    BY <2>1, <2>4
  <2>5. CASE \E v \in Versions \cup {Torn} : \E m \in 0..Now : i = File(v, m)
    <3>1. /\ i.dir = FALSE
          /\ i.ver \in Versions \cup {Torn} /\ i.mtime \in 0..Now
          /\ i = File(i.ver, i.mtime)
          /\ i.mtime \in Nat /\ i.ver \in Nat
      BY <2>2, <2>5
    <3> QED BY <3>1
  <2> QED BY <2>3, <2>4, <2>5
<1> QED BY <1>1, <1>2, <1>3, <1>4

\* A base that is a directory is not listed, all else is.
LEMMA ListedMeans ==
  ASSUME NEW t, NEW q
  PROVE  q \in Listed(t) <=> q \in DOMAIN t /\ (q # Base \/ ~t[q].dir)
<1>1. CASE Base \in DOMAIN t /\ t[Base].dir
  BY <1>1 DEF Listed
<1>2. CASE ~(Base \in DOMAIN t /\ t[Base].dir)
  BY <1>2 DEF Listed
<1> QED BY <1>1, <1>2

\* What a recursive deletion leaves is a tree.
LEMMA WithoutSide ==
  ASSUME NEW t, Side(t), NEW r \in Paths
  PROVE  /\ Side(Without(t, r))
         /\ \A q : q \in DOMAIN Without(t, r) <=> q \in DOMAIN t /\ ~IsPrefix(r, q)
         /\ \A q \in DOMAIN Without(t, r) : Without(t, r)[q] = t[q]
<1> DEFINE w == Without(t, r)
<1>1. /\ \A q : q \in DOMAIN w <=> q \in DOMAIN t /\ ~IsPrefix(r, q)
      /\ \A q \in DOMAIN w : w[q] = t[q]
  BY DEF Without
<1>2. ASSUME NEW p \in DOMAIN w, NEW q \in Paths, IsStrictPrefix(q, p)
      PROVE  q \in DOMAIN w /\ w[q].dir
  <2>1. p \in Paths /\ p \in DOMAIN t /\ ~IsPrefix(r, p)
    BY <1>1 DEF Side
  <2>2. q \in DOMAIN t /\ t[q].dir
    BY <1>2, <2>1 DEF Side, IsTree
  <2>3. ~IsPrefix(r, q)
    BY <1>2, <2>1, PrefixOrder DEF IsStrictPrefix
  <2> QED BY <1>1, <2>2, <2>3
<1> HIDE DEF w
<1>3. IsTree(w)
  BY <1>2 DEF IsTree
<1>4. Side(w)
  BY <1>1, <1>3 DEF Side
<1> QED BY <1>1, <1>4 DEF w

\* So is what makedirs leaves when no file is in the way.
LEMMA DirsSide ==
  ASSUME NEW t, Side(t), NEW r \in Paths, ~Blocked(t, r)
  PROVE  /\ Side(WithDirs(t, r))
         /\ \A q : q \in DOMAIN WithDirs(t, r) <=>
                    q \in DOMAIN t \/ (q \in Paths /\ IsPrefix(q, r))
         /\ \A q \in DOMAIN t : WithDirs(t, r)[q] = t[q]
         /\ \A q \in Paths : IsPrefix(q, r) => WithDirs(t, r)[q].dir
<1> DEFINE w == WithDirs(t, r)
<1>1. /\ \A q : q \in DOMAIN w <=> q \in DOMAIN t \/ (q \in Paths /\ IsPrefix(q, r))
      /\ \A q \in DOMAIN w : w[q] = IF q \in DOMAIN t THEN t[q] ELSE Directory
  BY DEF WithDirs
<1> HIDE DEF w
<1>2. ASSUME NEW q \in Paths, IsPrefix(q, r) PROVE q \in DOMAIN w /\ w[q].dir
  BY <1>1, <1>2, ItemShape DEF Blocked
<1>3. ASSUME NEW p \in DOMAIN w, NEW q \in Paths, IsStrictPrefix(q, p)
      PROVE  q \in DOMAIN w /\ w[q].dir
  <2>1. CASE p \in DOMAIN t
    BY <1>1, <1>3, <2>1 DEF Side, IsTree
  <2>2. CASE p \in Paths /\ IsPrefix(p, r)
    <3>1. IsPrefix(q, r)
      BY <1>3, <2>2, PrefixOrder DEF IsStrictPrefix
    <3> QED BY <1>2, <3>1
  <2> QED BY <1>1, <2>1, <2>2
<1>4. IsTree(w)
  BY <1>3 DEF IsTree
<1>5. Side(w)
  BY <1>1, <1>4, ItemShape DEF Side
<1> QED BY <1>1, <1>2, <1>5 DEF w

\* And what is left by a file that is written into a directory.
LEMMA WithSide ==
  ASSUME NEW t, Side(t), NEW p \in Paths, NEW item \in Items,
         p \in DOMAIN t => ~t[p].dir,
         \A q \in Paths : IsStrictPrefix(q, p) => q \in DOMAIN t /\ t[q].dir
  PROVE  /\ Side(With(t, p, item))
         /\ DOMAIN With(t, p, item) = DOMAIN t \cup {p}
         /\ With(t, p, item)[p] = item
         /\ \A q \in DOMAIN t \ {p} : With(t, p, item)[q] = t[q]
<1> DEFINE w == With(t, p, item)
<1>1. /\ DOMAIN w = DOMAIN t \cup {p} /\ w[p] = item
      /\ \A q \in DOMAIN t \ {p} : w[q] = t[q]
  BY DEF With
<1> HIDE DEF w
<1>2. ASSUME NEW r \in DOMAIN w, NEW q \in Paths, IsStrictPrefix(q, r)
      PROVE  q \in DOMAIN w /\ w[q].dir
  <2>1. q \in DOMAIN t /\ t[q].dir
    BY <1>1, <1>2 DEF Side, IsTree
  <2>2. q # p
    BY <2>1
  <2> QED BY <1>1, <2>1, <2>2
<1>3. IsTree(w)
  BY <1>2 DEF IsTree
<1>4. Side(w)
  BY <1>1, <1>3 DEF Side
<1> QED BY <1>1, <1>4 DEF w

\* What the directories for a file add to the destination.
LEMMA ParentsSide ==
  ASSUME Side(dst), NEW p \in Paths, ~NoPlace(p)
  PROVE  /\ Side(Parents(p))
         /\ \A q \in DOMAIN dst : q \in DOMAIN Parents(p) /\ Parents(p)[q] = dst[q]
         /\ \A q \in DOMAIN Parents(p) : q \in DOMAIN dst \/ IsStrictPrefix(q, p)
         /\ \A q \in Paths : IsStrictPrefix(q, p) => q \in DOMAIN Parents(p) /\ Parents(p)[q].dir
         /\ p \in DOMAIN Parents(p) => p \in DOMAIN dst /\ ~dst[p].dir
<1>1. CASE p = Base
  <2>1. Parents(p) = dst
    BY <1>1 DEF Parents
  <2>2. \A q \in Paths : ~IsStrictPrefix(q, p)
    BY <1>1, BasePrefix, PrefixOrder DEF IsStrictPrefix
  <2> QED BY <2>1, <2>2 DEF NoPlace
<1>2. CASE p # Base
  <2>0. /\ Front(p) \in Paths /\ ~Blocked(dst, Front(p)) /\ Front(p) \in DOMAIN Parents(p)
        /\ \A q \in Paths : IsStrictPrefix(q, p) <=> IsPrefix(q, Front(p))
        /\ ~IsStrictPrefix(p, p)
    BY <1>2, Parent DEF NoPlace, IsStrictPrefix
  <2>1. CASE Parents(p) = WithDirs(dst, Front(p))
    <3>1. /\ Side(WithDirs(dst, Front(p)))
          /\ \A q : q \in DOMAIN WithDirs(dst, Front(p)) <=>
                    q \in DOMAIN dst \/ (q \in Paths /\ IsPrefix(q, Front(p)))
          /\ \A q \in DOMAIN dst : WithDirs(dst, Front(p))[q] = dst[q]
          /\ \A q \in Paths : IsPrefix(q, Front(p)) => WithDirs(dst, Front(p))[q].dir
      BY <2>0, DirsSide
    <3> QED BY <2>0, <2>1, <3>1 DEF NoPlace
  <2>2. CASE Parents(p) = dst
    <3>1. ASSUME NEW q \in Paths, IsStrictPrefix(q, p) PROVE q \in DOMAIN dst /\ dst[q].dir
      <4>1. Front(p) \in DOMAIN dst /\ dst[Front(p)].dir
        BY <2>0, <2>2, PrefixOrder DEF Blocked
      <4>2. q = Front(p) \/ IsStrictPrefix(q, Front(p))
        BY <2>0, <3>1 DEF IsStrictPrefix
      <4> QED BY <4>1, <4>2 DEF Side, IsTree
    <3> QED BY <2>2, <3>1 DEF NoPlace
  <2> QED BY <1>2, <2>1, <2>2 DEF Parents
<1> QED BY <1>1, <1>2

-----------------------------------------------------------------------------
(* The invariant *)

\* What lies in the way of a directory or a file of the source.
Clashing == {p \in Listed(src) \ {Base} : p \in Listed(before) /\ before[p].dir # src[p].dir}
Surplus == IF opts.delete THEN Listed(before) \ Listed(src) ELSE {}

\* Types, as trees.
SidesInv ==
  /\ Side(src) /\ Side(dst) /\ Side(before)
  /\ opts \in Options
  /\ outcome \in {"none", "running", "ok", "failed"}
  /\ todo \in [del : SUBSET Paths, dirs : SUBSET Paths, copy : SUBSET Paths]
  /\ Running \/ todo = Nothing

\* The plan fits what the run has still to do.
PlanInv == Running =>
  /\ todo.del \subseteq (Surplus \cup Clashing) \cap DOMAIN dst
  /\ todo.dirs \subseteq {p \in Listed(src) : src[p].dir}
  /\ todo.copy \subseteq {p \in Listed(src) : ~src[p].dir}
  /\ todo.del # {} => \A q \in DOMAIN dst : q \in DOMAIN before /\ dst[q] = before[q]

\* A file that is in place: copied, or there before and up to date.
Fits(p) ==
  \/ dst[p] = File(src[p].ver, Stored(src[p].mtime))
  \/ p \in DOMAIN before /\ ~ShouldUpdate(src[p], before[p]) /\ dst[p] = before[p]

\* Each item of the source is to come or in place, the surplus to go.
DirsInv == \A p \in Listed(src) :
  src[p].dir => p \in todo.dirs \/ (p \in DOMAIN dst /\ dst[p].dir)
FilesInv == \A p \in Listed(src) :
  ~src[p].dir => p \in todo.copy \/ (p \in DOMAIN dst /\ ~dst[p].dir /\ Fits(p))
SurplusInv == opts.delete => Listed(dst) \subseteq Listed(src) \cup todo.del

WorkInv == Running \/ outcome = "ok" => DirsInv /\ FilesInv /\ SurplusInv

SInv == SidesInv /\ PlanInv /\ WorkInv /\ KeepsTheRest

-----------------------------------------------------------------------------
(* What a deletion may meet *)

\* What a planned deletion meets, while deletions are being made.
LEMMA DeletionShape ==
  ASSUME SInv, Running, NEW r \in todo.del
  PROVE  /\ r \in Paths /\ r \in DOMAIN dst
         /\ r \in DOMAIN before /\ r \in Listed(before)
         /\ \/ r \notin Listed(src) /\ opts.delete
            \/ r \in Listed(src) /\ r # Base /\ before[r].dir # src[r].dir
         /\ \A q \in DOMAIN dst : q \in DOMAIN before /\ dst[q] = before[q]
<1>1. r \in Surplus \cup Clashing /\ r \in DOMAIN dst /\ r \in Paths
  BY DEF SInv, SidesInv, PlanInv
<1>2. r \in Listed(before)
  BY <1>1 DEF Surplus, Clashing
<1>3. r \in DOMAIN before
  BY <1>2, ListedMeans
<1> QED BY <1>1, <1>2, <1>3 DEF SInv, PlanInv, Surplus, Clashing

\* Above what both sides have as a directory or as a file nothing is deleted.
LEMMA Untouched ==
  ASSUME SInv, Running, NEW r \in todo.del,
         NEW p \in Listed(src), p \in DOMAIN before, before[p].dir = src[p].dir
  PROVE  ~IsPrefix(r, p)
<1> SUFFICES ASSUME IsPrefix(r, p) PROVE FALSE
  OBVIOUS
<1>0. /\ r \in Paths /\ r \in DOMAIN before /\ r \in Listed(before)
      /\ \/ r \notin Listed(src)
         \/ r \in Listed(src) /\ r # Base /\ before[r].dir # src[r].dir
      /\ p \in DOMAIN src /\ p \in Paths /\ r # p
      /\ Side(src) /\ Side(before)
  BY DeletionShape, ListedMeans DEF SInv, SidesInv, Side
<1>1. IsStrictPrefix(r, p)
  BY <1>0 DEF IsStrictPrefix
<1>2. r \in DOMAIN src /\ src[r].dir /\ before[r].dir
  BY <1>0, <1>1 DEF Side, IsTree
<1>3. r # Base
  BY <1>0, <1>2, ListedMeans
<1>4. r \in Listed(src)
  BY <1>2, <1>3, ListedMeans
<1> QED BY <1>0, <1>2, <1>4

\* Without --delete nothing lies below a deletion but what is replaced.
LEMMA OnlyReplaced ==
  ASSUME SInv, Running, NEW r \in todo.del, ~opts.delete,
         NEW p \in DOMAIN before, ~Replaced(p), p \in Listed(src) => before[p].dir
  PROVE  ~IsPrefix(r, p)
<1> SUFFICES ASSUME IsPrefix(r, p) PROVE FALSE
  OBVIOUS
<1>0. /\ r \in Paths /\ r \in DOMAIN before
      /\ r \in Listed(src) /\ before[r].dir # src[r].dir
      /\ Side(before) /\ Side(src) /\ p \in Paths
  BY DeletionShape DEF SInv, SidesInv, Side
<1>1. src[r].dir
  BY <1>0 DEF Replaced
<1>2. src[r].dir \in BOOLEAN /\ before[r].dir \in BOOLEAN
  BY <1>0, ListedMeans, ItemShape DEF Side
<1>3. r # p
  BY <1>0, <1>1, <1>2
<1>4. before[r].dir
  BY <1>0, <1>3 DEF IsStrictPrefix, Side, IsTree
<1> QED BY <1>0, <1>1, <1>2, <1>4

\* The next deletion takes none of the later ones away.
LEMMA NoneBelow ==
  ASSUME SInv, Running, NEW r \in todo.del, NextDeletion(r), NEW p \in todo.del, p # r
  PROVE  ~IsPrefix(r, p)
<1> SUFFICES ASSUME IsPrefix(r, p) PROVE FALSE
  OBVIOUS
<1>0. /\ r \in Paths /\ r \in DOMAIN before /\ r \in Listed(before)
      /\ p \in Paths /\ p \in DOMAIN before
      /\ Side(before) /\ Side(src)
      /\ DeletedBefore(r, p)
  BY DeletionShape DEF SInv, SidesInv, NextDeletion
<1>1. IsStrictPrefix(r, p)
  BY DEF IsStrictPrefix
<1>2. ~Before(p, r) /\ before[r].dir
  BY <1>0, <1>1, AboveFirst DEF Side, IsTree
<1>3. p \in Listed(src)
  BY <1>0, <1>2 DEF DeletedBefore
<1>4. r \in DOMAIN src /\ src[r].dir /\ r # Base
  BY <1>0, <1>1, <1>2, <1>3, ListedMeans DEF Side, IsTree
<1>5. r \in Listed(src)
  BY <1>4, ListedMeans
<1> QED BY <1>2, <1>4, <1>5, DeletionShape

-----------------------------------------------------------------------------
(* Failures *)

\* What a run without --delete has to leave alone, and a tree that has it.
Kept(p) == p \in DOMAIN before /\ ~Replaced(p) /\ (p \in Listed(src) => before[p].dir)
Keeps(t) == ~opts.delete => \A p : Kept(p) => p \in DOMAIN t /\ t[p] = before[p]

\* During a run nothing was lost so far.
LEMMA KeepsNow == ASSUME SInv, Running PROVE Keeps(dst)
BY DEF SInv, KeepsTheRest, Keeps, Kept, Running

\* If the new destination keeps the rest, the property holds after the step.
LEMMA KeepsThen ==
  ASSUME src' = src, opts' = opts, before' = before, Keeps(dst')
  PROVE  KeepsTheRest'
BY DEF Keeps, Kept, KeepsTheRest, Replaced

\* A run that ends with a tree that keeps the rest.
LEMMA RaisesInv ==
  ASSUME SInv, NEW t, Raises(t), Side(t), Keeps(t)
  PROVE  SInv'
<1>0. /\ dst' = t /\ todo' = Nothing /\ outcome' = "failed"
      /\ src' = src /\ opts' = opts /\ before' = before
  BY DEF Raises
<1>1. Nothing \in [del : SUBSET Paths, dirs : SUBSET Paths, copy : SUBSET Paths]
  BY DEF Nothing
<1>2. SidesInv'
  BY <1>0, <1>1 DEF SInv, SidesInv
<1>3. ~Running' /\ outcome' # "ok"
  BY <1>0 DEF Running
<1>4. KeepsTheRest'
  BY <1>0, KeepsThen
<1> QED BY <1>2, <1>3, <1>4 DEF SInv, PlanInv, WorkInv

\* Parents and files of the source that are written leave the rest alone.
LEMMA GrownKeeps ==
  ASSUME SInv, Running, NEW t, \A q \in DOMAIN dst : q \in DOMAIN t /\ t[q] = dst[q]
  PROVE  Keeps(t)
BY KeepsNow DEF Keeps

\* Nothing that a file of the source replaces is to be kept.
LEMMA WrittenKeeps ==
  ASSUME SInv, Running, NEW p \in todo.copy, NEW t,
         \A q \in DOMAIN dst : ~IsPrefix(p, q) => q \in DOMAIN t /\ t[q] = dst[q]
  PROVE  Keeps(t)
<1>1. p \in Listed(src) /\ ~src[p].dir
  BY DEF SInv, PlanInv
<1>2. \A q : Kept(q) => ~IsPrefix(p, q)
  BY <1>1 DEF Kept, Replaced
<1> QED BY <1>2, KeepsNow DEF Keeps

\* Nothing below a planned deletion is to be kept.
LEMMA ClearedKeeps ==
  ASSUME SInv, Running, NEW r \in todo.del, NEW t,
         \A q \in DOMAIN dst : ~IsPrefix(r, q) => q \in DOMAIN t /\ t[q] = dst[q]
  PROVE  Keeps(t)
<1>1. ~opts.delete => \A q : Kept(q) => ~IsPrefix(r, q)
  BY OnlyReplaced DEF Kept
<1> QED BY <1>1, KeepsNow DEF Keeps

\* A recursive deletion that stops half-way preserves the invariant.
LEMMA DeleteStopsInv == ASSUME SInv, DeleteStops PROVE SInv'
<1>1. PICK p \in todo.del :
        /\ Running
        /\ \E gone \in SUBSET {q \in DOMAIN dst : IsStrictPrefix(p, q)} :
             LET left == [q \in DOMAIN dst \ gone |-> dst[q]]
             IN  IsTree(left) /\ Raises(left)
  BY DEF DeleteStops
<1>2. PICK gone \in SUBSET {q \in DOMAIN dst : IsStrictPrefix(p, q)} :
        /\ IsTree([q \in DOMAIN dst \ gone |-> dst[q]])
        /\ Raises([q \in DOMAIN dst \ gone |-> dst[q]])
  BY <1>1
<1> DEFINE left == [q \in DOMAIN dst \ gone |-> dst[q]]
<1>3. /\ DOMAIN left = DOMAIN dst \ gone
      /\ \A q \in DOMAIN left : left[q] = dst[q]
      /\ IsTree(left) /\ Raises(left)
  BY <1>2
<1> HIDE DEF left
<1>4. Side(left)
  BY <1>3 DEF SInv, SidesInv, Side
<1>5. Keeps(left)
  BY <1>1, <1>2, <1>3, ClearedKeeps DEF IsStrictPrefix
<1> QED BY <1>3, <1>4, <1>5, RaisesInv

\* What is copied is a file of the source.
LEMMA CopyShape ==
  ASSUME SInv, NEW p \in todo.copy, Copying(p)
  PROVE  /\ p \in Paths /\ p \in Listed(src) /\ p \in DOMAIN src /\ ~src[p].dir
         /\ Running /\ todo.del = {} /\ todo.dirs = {}
         /\ src[p].ver \in Versions \cup {Torn} /\ src[p].mtime \in 0..Now
         /\ Stored(src[p].mtime) \in 0..Now
<1>1. p \in Listed(src) /\ ~src[p].dir /\ Running /\ todo.del = {} /\ todo.dirs = {}
  BY DEF SInv, PlanInv, Copying
<1>2. p \in DOMAIN src /\ p \in Paths /\ src[p] \in Items
  BY <1>1, ListedMeans DEF SInv, SidesInv, Side
<1>3. src[p].ver \in Versions \cup {Torn} /\ src[p].mtime \in 0..Now
  BY <1>1, <1>2, ItemShape
<1>4. Stored(src[p].mtime) \in 0..Now
  BY <1>3, SyncAssumption, SMT DEF Stored
<1> QED BY <1>1, <1>2, <1>3, <1>4

\* A file that is written where the copy finds its place.
LEMMA Written ==
  ASSUME SInv, NEW p \in todo.copy, Copying(p), ~NoPlace(p), NEW item \in Items
  PROVE  /\ Side(With(Parents(p), p, item))
         /\ With(Parents(p), p, item)[p] = item
         /\ p \in DOMAIN With(Parents(p), p, item)
         /\ p \in DOMAIN dst => ~dst[p].dir
         /\ \A q \in DOMAIN dst \ {p} : q \in DOMAIN With(Parents(p), p, item)
                                     /\ With(Parents(p), p, item)[q] = dst[q]
         /\ \A q \in DOMAIN With(Parents(p), p, item) :
              q \in DOMAIN dst \/ q = p
                \/ (IsStrictPrefix(q, p) /\ With(Parents(p), p, item)[q].dir)
<1>0. p \in Paths /\ Side(dst)
  BY CopyShape DEF SInv, SidesInv
<1>1. /\ Side(Parents(p))
      /\ \A q \in DOMAIN dst : q \in DOMAIN Parents(p) /\ Parents(p)[q] = dst[q]
      /\ \A q \in DOMAIN Parents(p) : q \in DOMAIN dst \/ IsStrictPrefix(q, p)
      /\ \A q \in Paths : IsStrictPrefix(q, p) => q \in DOMAIN Parents(p) /\ Parents(p)[q].dir
      /\ p \in DOMAIN Parents(p) => p \in DOMAIN dst /\ ~dst[p].dir
  BY <1>0, ParentsSide
<1>2. p \in DOMAIN Parents(p) => ~Parents(p)[p].dir
  BY <1>1
<1> DEFINE w == With(Parents(p), p, item)
<1>3. /\ Side(w) /\ DOMAIN w = DOMAIN Parents(p) \cup {p} /\ w[p] = item
      /\ \A q \in DOMAIN Parents(p) \ {p} : w[q] = Parents(p)[q]
  BY <1>0, <1>1, <1>2, WithSide
<1> HIDE DEF w
<1>4. \A q \in DOMAIN w : q \in DOMAIN dst \/ q = p \/ (IsStrictPrefix(q, p) /\ w[q].dir)
  <2> SUFFICES ASSUME NEW q \in DOMAIN w, q \notin DOMAIN dst, q # p
               PROVE  IsStrictPrefix(q, p) /\ w[q].dir
    OBVIOUS
  <2>1. IsStrictPrefix(q, p) /\ q \in Paths
    BY <1>1, <1>3 DEF Side
  <2> QED BY <1>1, <1>3, <2>1
<1>5. \A q \in DOMAIN dst \ {p} : q \in DOMAIN w /\ w[q] = dst[q]
  BY <1>1, <1>3
<1> QED BY <1>1, <1>3, <1>4, <1>5 DEF w

\* A copy that breaks off preserves the invariant.
LEMMA CopyStopsInv == ASSUME SInv, CopyStops PROVE SInv'
<1>1. PICK p \in todo.copy :
        /\ Copying(p) /\ ~NoPlace(p)
        /\ \/ Raises(Parents(p))
           \/ opts.toImage /\ Raises(Without(Parents(p), p))
           \/ \E ver \in {Torn, src[p].ver} :
                ~opts.toImage /\ Raises(With(Parents(p), p, File(ver, Now)))
  BY DEF CopyStops
<1>2. /\ p \in Paths /\ Running /\ Side(dst) /\ src[p].ver \in Versions \cup {Torn}
      /\ IsPrefix(p, p)
  BY <1>1, CopyShape, PrefixOrder DEF SInv, SidesInv
<1>3. /\ Side(Parents(p))
      /\ \A q \in DOMAIN dst : q \in DOMAIN Parents(p) /\ Parents(p)[q] = dst[q]
  BY <1>1, <1>2, ParentsSide
<1>4. CASE Raises(Parents(p))
  BY <1>2, <1>3, <1>4, GrownKeeps, RaisesInv
<1>5. CASE Raises(Without(Parents(p), p))
  <2>1. /\ Side(Without(Parents(p), p))
        /\ \A q : q \in DOMAIN Without(Parents(p), p) <=> q \in DOMAIN Parents(p) /\ ~IsPrefix(p, q)
        /\ \A q \in DOMAIN Without(Parents(p), p) : Without(Parents(p), p)[q] = Parents(p)[q]
    BY <1>2, <1>3, WithoutSide
  <2>2. \A q \in DOMAIN dst : ~IsPrefix(p, q) =>
           q \in DOMAIN Without(Parents(p), p) /\ Without(Parents(p), p)[q] = dst[q]
    BY <1>3, <2>1
  <2>3. Keeps(Without(Parents(p), p))
    BY <1>2, <2>2, WrittenKeeps
  <2> QED BY <1>5, <2>1, <2>3, RaisesInv
<1>6. ASSUME NEW ver \in {Torn, src[p].ver}, Raises(With(Parents(p), p, File(ver, Now)))
      PROVE  SInv'
  <2>1. File(ver, Now) \in Items
    <3>1. ver \in Versions \cup {Torn} /\ Now \in 0..Now
      BY <1>2, SyncAssumption, SMT
    <3> QED BY <3>1, ItemShape
  <2>2. /\ Side(With(Parents(p), p, File(ver, Now)))
        /\ \A q \in DOMAIN dst \ {p} : q \in DOMAIN With(Parents(p), p, File(ver, Now))
                                    /\ With(Parents(p), p, File(ver, Now))[q] = dst[q]
    BY <1>1, <2>1, Written
  <2>3. Keeps(With(Parents(p), p, File(ver, Now)))
    BY <1>2, <2>2, WrittenKeeps
  <2> QED BY <1>6, <2>2, <2>3, RaisesInv
<1> QED BY <1>1, <1>4, <1>5, <1>6

\* A killed run preserves the invariant: what a bulk session had still to link is
\* not what was there before.
LEMMA KilledInv == ASSUME SInv, Killed PROVE SInv'
<1>1. PICK gone \in SUBSET {q \in DOMAIN dst : q \notin DOMAIN before \/ dst[q] # before[q]} :
        /\ IsTree([q \in DOMAIN dst \ gone |-> dst[q]])
        /\ Raises([q \in DOMAIN dst \ gone |-> dst[q]])
  BY DEF Killed
<1> DEFINE left == [q \in DOMAIN dst \ gone |-> dst[q]]
<1>2. /\ DOMAIN left = DOMAIN dst \ gone
      /\ \A q \in DOMAIN left : left[q] = dst[q]
      /\ IsTree(left) /\ Raises(left)
  BY <1>1
<1> HIDE DEF left
<1>3. Side(left)
  BY <1>2 DEF SInv, SidesInv, Side
<1>4. Keeps(left)
  <2>1. ASSUME ~opts.delete, NEW p, Kept(p) PROVE p \in DOMAIN left /\ left[p] = before[p]
    <3>1. p \in DOMAIN dst /\ dst[p] = before[p] /\ p \in DOMAIN before
      BY <2>1, KeepsNow DEF Killed, Keeps, Kept
    <3> QED BY <1>1, <1>2, <3>1
  <2> QED BY <2>1 DEF Keeps
<1> QED BY <1>2, <1>3, <1>4, RaisesInv

-----------------------------------------------------------------------------
(* The steps of a run *)

\* A plan that is made from two listings covers what there is to do.
LEMMA StartInv == ASSUME SInv, Start PROVE SInv'
<1>0. /\ src' = src /\ dst' = dst /\ opts' = opts /\ before' = dst
      /\ \/ outcome' = "failed" /\ todo' = Nothing
         \/ outcome' = "running" /\ todo' = Plan
      /\ Side(src) /\ Side(dst)
  BY DEF Start, SInv, SidesInv
<1>1. /\ Extraneous \subseteq Paths /\ Conflicts \subseteq Paths
      /\ NewDirs \subseteq Paths /\ Outdated \subseteq Paths
  BY <1>0, ListedMeans DEF Extraneous, Conflicts, NewDirs, Outdated, Side
<1>2. SidesInv'
  <2>1. todo' \in [del : SUBSET Paths, dirs : SUBSET Paths, copy : SUBSET Paths]
    BY <1>0, <1>1 DEF Plan, Nothing
  <2> QED BY <1>0, <2>1 DEF SInv, SidesInv, Running
<1>3. KeepsTheRest'
  BY <1>0 DEF KeepsTheRest
<1>4. CASE outcome' = "failed"
  <2>1. ~Running' /\ outcome' # "ok"
    BY <1>4 DEF Running
  <2> QED BY <1>2, <1>3, <2>1 DEF SInv, PlanInv, WorkInv
<1>5. CASE todo' = Plan
  <2>0. /\ todo'.del = Extraneous \cup Conflicts /\ todo'.dirs = NewDirs
        /\ todo'.copy = Outdated
    BY <1>5 DEF Plan
  <2>1. todo'.del \subseteq (Surplus \cup Clashing)' \cap DOMAIN dst'
    <3>1. Extraneous = Surplus'
      BY <1>0 DEF Extraneous, Surplus
    <3>2. Conflicts \subseteq Clashing'
      BY <1>0 DEF Conflicts, Clashing, OfOtherKind
    <3>3. Extraneous \subseteq DOMAIN dst /\ Conflicts \subseteq DOMAIN dst
      BY ListedMeans DEF Extraneous, Conflicts, OfOtherKind
    <3> QED BY <1>0, <2>0, <3>1, <3>2, <3>3
  <2>2. PlanInv'
    <3>1. todo'.dirs \subseteq {p \in Listed(src) : src[p].dir}
      BY <2>0 DEF NewDirs
    <3>2. todo'.copy \subseteq {p \in Listed(src) : ~src[p].dir}
      BY <2>0 DEF Outdated
    <3> QED BY <1>0, <2>1, <3>1, <3>2 DEF PlanInv
  <2>3. DirsInv'
    <3> SUFFICES ASSUME NEW p \in Listed(src), src[p].dir
                 PROVE  p \in todo'.dirs \/ (p \in DOMAIN dst /\ dst[p].dir)
      BY <1>0 DEF DirsInv
    <3> QED BY <2>0, ListedMeans DEF NewDirs
  <2>4. FilesInv'
    <3> SUFFICES ASSUME NEW p \in Listed(src), ~src[p].dir, p \notin Outdated
                 PROVE  p \in DOMAIN dst /\ ~dst[p].dir /\ ~ShouldUpdate(src[p], dst[p])
      BY <1>0, <2>0 DEF FilesInv, Fits, ShouldUpdate
    <3> QED BY ListedMeans DEF Outdated
  <2>5. SurplusInv'
    BY <1>0, <2>0 DEF SurplusInv, Extraneous
  <2> QED BY <1>2, <1>3, <2>2, <2>3, <2>4, <2>5 DEF SInv, WorkInv
<1> QED BY <1>0, <1>4, <1>5

\* An item that is done is off the list, and nothing else is.
LEMMA DoneShape ==
  ASSUME SInv, NEW kind \in {"del", "dirs", "copy"}, NEW p, NEW t, Done(kind, p, t)
  PROVE  /\ src' = src /\ dst' = t /\ opts' = opts /\ before' = before /\ outcome' = outcome
         /\ todo' \in [del : SUBSET Paths, dirs : SUBSET Paths, copy : SUBSET Paths]
         /\ todo'.del = IF kind = "del" THEN todo.del \ {p} ELSE todo.del
         /\ todo'.dirs = IF kind = "dirs" THEN todo.dirs \ {p} ELSE todo.dirs
         /\ todo'.copy = IF kind = "copy" THEN todo.copy \ {p} ELSE todo.copy
<1>1. todo \in [del : SUBSET Paths, dirs : SUBSET Paths, copy : SUBSET Paths]
  BY DEF SInv, SidesInv
<1>2. todo' = [todo EXCEPT ![kind] = @ \ {p}]
  BY DEF Done
<1>3. CASE kind = "del"
  BY <1>1, <1>2, <1>3 DEF Done
<1>4. CASE kind = "dirs"
  BY <1>1, <1>2, <1>4 DEF Done
<1>5. CASE kind = "copy"
  BY <1>1, <1>2, <1>5 DEF Done
<1> QED BY <1>3, <1>4, <1>5

\* A deletion takes nothing that is in place.
LEMMA DeleteInv == ASSUME SInv, DeleteItem PROVE SInv'
<1>1. PICK r \in todo.del :
        /\ Running /\ NextDeletion(r)
        /\ IF Vanished(r) THEN Raises(dst) ELSE Done("del", r, Without(dst, r))
  BY DEF DeleteItem
<1>2. r \in DOMAIN dst /\ r \in Paths /\ IsPrefix(r, r) /\ Side(src) /\ Side(dst)
  BY <1>1, DeletionShape, PrefixOrder DEF SInv, SidesInv
<1>3. Done("del", r, Without(dst, r))
  BY <1>1, <1>2 DEF Vanished
<1> DEFINE w == Without(dst, r)
<1>4. /\ Side(w) /\ \A q : q \in DOMAIN w <=> q \in DOMAIN dst /\ ~IsPrefix(r, q)
      /\ \A q \in DOMAIN w : w[q] = dst[q]
  BY <1>2, WithoutSide
<1>5. /\ src' = src /\ dst' = w /\ opts' = opts /\ before' = before /\ outcome' = outcome
      /\ todo' \in [del : SUBSET Paths, dirs : SUBSET Paths, copy : SUBSET Paths]
      /\ todo'.del = todo.del \ {r} /\ todo'.dirs = todo.dirs /\ todo'.copy = todo.copy
  BY <1>3, DoneShape
<1> HIDE DEF w
<1>6. Running' /\ outcome = "running"
  BY <1>1, <1>5 DEF Running
<1>7. SidesInv'
  BY <1>4, <1>5, <1>6 DEF SInv, SidesInv
<1>8. KeepsTheRest'
  <2>1. Keeps(w)
    BY <1>1, <1>4, ClearedKeeps
  <2> QED BY <1>5, <2>1, KeepsThen
<1>9. PlanInv'
  <2>1. todo'.del \subseteq DOMAIN w
    <3>1. \A p \in todo'.del : p \in DOMAIN dst /\ ~IsPrefix(r, p)
      BY <1>1, <1>5, NoneBelow, DeletionShape
    <3> QED BY <1>4, <3>1
  <2>2. \A q \in DOMAIN w : q \in DOMAIN before /\ w[q] = before[q]
    BY <1>1, <1>4, DeletionShape
  <2>3. todo'.del \subseteq Surplus \cup Clashing
    BY <1>1, <1>5 DEF SInv, PlanInv
  <2>4. (Surplus \cup Clashing)' = Surplus \cup Clashing
    BY <1>5 DEF Surplus, Clashing
  <2>5. /\ todo'.dirs \subseteq {p \in Listed(src) : src[p].dir}
        /\ todo'.copy \subseteq {p \in Listed(src) : ~src[p].dir}
    BY <1>1, <1>5 DEF SInv, PlanInv
  <2> QED BY <1>5, <2>1, <2>2, <2>3, <2>4, <2>5 DEF PlanInv
<1>10. ASSUME NEW p \in Listed(src), p \in DOMAIN dst, dst[p].dir = src[p].dir
       PROVE  p \in DOMAIN w /\ w[p] = dst[p]
  <2>1. p \in DOMAIN before /\ before[p].dir = src[p].dir
    BY <1>1, <1>10, DeletionShape
  <2>2. ~IsPrefix(r, p)
    BY <1>1, <2>1, Untouched
  <2> QED BY <1>4, <1>10, <2>2
<1>11. DirsInv'
  <2> SUFFICES ASSUME NEW p \in Listed(src), src[p].dir, p \notin todo.dirs
               PROVE  p \in DOMAIN w /\ w[p].dir
    BY <1>5 DEF DirsInv
  <2>1. p \in DOMAIN dst /\ dst[p].dir
    BY <1>1 DEF SInv, WorkInv, DirsInv
  <2>2. p \in Paths /\ dst[p].dir = src[p].dir
    <3>1. p \in DOMAIN src
      BY ListedMeans
    <3> QED BY <1>2, <2>1, <3>1, ItemShape DEF Side
  <2> QED BY <1>10, <2>1, <2>2
<1>12. FilesInv'
  <2> SUFFICES ASSUME NEW p \in Listed(src), ~src[p].dir, p \notin todo.copy
               PROVE  /\ p \in DOMAIN w /\ ~w[p].dir
                      /\ \/ w[p] = File(src[p].ver, Stored(src[p].mtime))
                         \/ p \in DOMAIN before /\ ~ShouldUpdate(src[p], before[p]) /\ w[p] = before[p]
    BY <1>5 DEF FilesInv, Fits, Stored, ShouldUpdate
  <2>1. p \in DOMAIN dst /\ ~dst[p].dir /\ Fits(p)
    BY <1>1 DEF SInv, WorkInv, FilesInv
  <2>2. dst[p].dir = src[p].dir
    <3>1. p \in DOMAIN src
      BY ListedMeans
    <3> QED BY <1>2, <2>1, <3>1, ItemShape DEF Side
  <2>3. p \in DOMAIN w /\ w[p] = dst[p]
    BY <1>10, <2>1, <2>2
  <2> QED BY <2>1, <2>3 DEF Fits
<1>13. SurplusInv'
  <2> SUFFICES ASSUME opts.delete, NEW q \in Listed(w)
               PROVE  q \in Listed(src) \/ q \in todo.del \ {r}
    BY <1>5 DEF SurplusInv
  <2>1. q \in DOMAIN w /\ (q # Base \/ ~w[q].dir)
    BY ListedMeans
  <2>2. q \in DOMAIN dst /\ w[q] = dst[q] /\ q # r
    BY <1>2, <1>4, <2>1
  <2>3. q \in Listed(dst)
    BY <2>1, <2>2, ListedMeans
  <2> QED BY <1>1, <2>2, <2>3 DEF SInv, WorkInv, SurplusInv
<1> QED BY <1>7, <1>8, <1>9, <1>11, <1>12, <1>13 DEF SInv, WorkInv

\* Directories that are made leave what is there and surplus nowhere.
LEMMA MakeDirInv == ASSUME SInv, MakeDir PROVE SInv'
<1>1. PICK r \in todo.dirs :
        /\ Running /\ todo.del = {}
        /\ IF Blocked(dst, r) THEN Raises(dst) ELSE Done("dirs", r, WithDirs(dst, r))
  BY DEF MakeDir
<1>2. /\ r \in Listed(src) /\ src[r].dir /\ r \in DOMAIN src /\ r \in Paths /\ r # Base
      /\ Side(src) /\ Side(dst)
  <2>1. r \in Listed(src) /\ src[r].dir /\ Side(src) /\ Side(dst) /\ r \in Paths
    BY <1>1 DEF SInv, SidesInv, PlanInv
  <2> QED BY <2>1, ListedMeans
<1>3. CASE Blocked(dst, r)
  BY <1>1, <1>2, <1>3, KeepsNow, RaisesInv
<1>4. CASE ~Blocked(dst, r)
  <2> DEFINE w == WithDirs(dst, r)
  <2>1. /\ Side(w)
        /\ \A q : q \in DOMAIN w <=> q \in DOMAIN dst \/ (q \in Paths /\ IsPrefix(q, r))
        /\ \A q \in DOMAIN dst : w[q] = dst[q]
        /\ \A q \in Paths : IsPrefix(q, r) => w[q].dir
    BY <1>2, <1>4, DirsSide
  <2>2. /\ src' = src /\ dst' = w /\ opts' = opts /\ before' = before /\ outcome' = outcome
        /\ todo' \in [del : SUBSET Paths, dirs : SUBSET Paths, copy : SUBSET Paths]
        /\ todo'.del = {} /\ todo'.dirs = todo.dirs \ {r} /\ todo'.copy = todo.copy
    BY <1>1, <1>4, DoneShape
  <2> HIDE DEF w
  <2>3. Running'
    BY <1>1, <2>2 DEF Running
  <2>4. SidesInv'
    BY <2>1, <2>2, <2>3 DEF SInv, SidesInv
  <2>5. KeepsTheRest'
    <3>1. Keeps(w)
      BY <1>1, <2>1, GrownKeeps
    <3> QED BY <2>2, <3>1, KeepsThen
  <2>6. PlanInv'
    <3>1. /\ todo'.dirs \subseteq {p \in Listed(src) : src[p].dir}
          /\ todo'.copy \subseteq {p \in Listed(src) : ~src[p].dir}
      BY <1>1, <2>2 DEF SInv, PlanInv
    <3> QED BY <2>2, <3>1 DEF PlanInv
  <2>7. DirsInv'
    <3>1. r \in DOMAIN w /\ w[r].dir
      BY <1>2, <2>1, PrefixOrder
    <3> QED BY <1>1, <2>1, <2>2, <3>1 DEF SInv, WorkInv, DirsInv
  <2>8. FilesInv'
    BY <1>1, <2>1, <2>2 DEF SInv, WorkInv, FilesInv, Fits, Stored, ShouldUpdate
  <2>9. SurplusInv'
    <3> SUFFICES ASSUME opts.delete, NEW q \in Listed(w) PROVE q \in Listed(src)
      BY <2>2 DEF SurplusInv
    <3>1. q \in DOMAIN w /\ (q # Base \/ ~w[q].dir)
      BY ListedMeans
    <3>2. CASE q \in DOMAIN dst
      <4>1. q \in Listed(dst)
        BY <2>1, <3>1, <3>2, ListedMeans
      <4> QED BY <1>1, <4>1 DEF SInv, WorkInv, SurplusInv
    <3>3. CASE q \in Paths /\ IsPrefix(q, r)
      <4>1. q # Base
        BY <2>1, <3>1, <3>3
      <4>2. q \in DOMAIN src
        BY <1>2, <3>3 DEF IsStrictPrefix, Side, IsTree
      <4> QED BY <4>1, <4>2, ListedMeans
    <3> QED BY <2>1, <3>1, <3>2, <3>3
  <2> QED BY <2>4, <2>5, <2>6, <2>7, <2>8, <2>9 DEF SInv, WorkInv
<1> QED BY <1>3, <1>4

\* A copy puts its file in place and leaves the others there.
LEMMA CopyInv == ASSUME SInv, CopyItem PROVE SInv'
<1>1. PICK p \in todo.copy :
        /\ Copying(p)
        /\ IF NoPlace(p) THEN Raises(dst) ELSE Done("copy", p, Copied(p))
  BY DEF CopyItem
<1>2. /\ p \in Paths /\ p \in Listed(src) /\ p \in DOMAIN src /\ ~src[p].dir
      /\ Running /\ todo.del = {} /\ todo.dirs = {}
      /\ src[p].ver \in Versions \cup {Torn} /\ Stored(src[p].mtime) \in 0..Now
      /\ Side(src) /\ Side(dst) /\ IsPrefix(p, p)
  BY <1>1, CopyShape, PrefixOrder DEF SInv, SidesInv
<1>3. CASE NoPlace(p)
  BY <1>1, <1>2, <1>3, KeepsNow, RaisesInv
<1>4. CASE ~NoPlace(p)
  <2> DEFINE item == File(src[p].ver, Stored(src[p].mtime))
             w == With(Parents(p), p, item)
  <2>1. item \in Items /\ ~item.dir
    BY <1>2, ItemShape
  <2>2. /\ src' = src /\ dst' = w /\ opts' = opts /\ before' = before /\ outcome' = outcome
        /\ todo' \in [del : SUBSET Paths, dirs : SUBSET Paths, copy : SUBSET Paths]
        /\ todo'.del = {} /\ todo'.dirs = {} /\ todo'.copy = todo.copy \ {p}
    BY <1>1, <1>2, <1>4, DoneShape DEF Copied
  <2> HIDE DEF item
  <2>3. /\ Side(w) /\ w[p] = item /\ p \in DOMAIN w
        /\ p \in DOMAIN dst => ~dst[p].dir
        /\ \A q \in DOMAIN dst \ {p} : q \in DOMAIN w /\ w[q] = dst[q]
        /\ \A q \in DOMAIN w : q \in DOMAIN dst \/ q = p \/ (IsStrictPrefix(q, p) /\ w[q].dir)
    BY <1>1, <1>4, <2>1, Written
  <2> HIDE DEF w
  <2>4. Running'
    BY <1>2, <2>2 DEF Running
  <2>5. SidesInv'
    BY <2>2, <2>3, <2>4 DEF SInv, SidesInv
  <2>6. KeepsTheRest'
    <3>1. Keeps(w)
      BY <1>2, <2>3, WrittenKeeps
    <3> QED BY <2>2, <3>1, KeepsThen
  <2>7. PlanInv'
    <3>1. todo'.copy \subseteq {q \in Listed(src) : ~src[q].dir}
      BY <1>2, <2>2 DEF SInv, PlanInv
    <3> QED BY <2>2, <3>1 DEF PlanInv
  <2>8. DirsInv'
    <3> SUFFICES ASSUME NEW q \in Listed(src), src[q].dir
                 PROVE  q \in DOMAIN w /\ w[q].dir
      BY <2>2 DEF DirsInv
    <3>1. q \in DOMAIN dst /\ dst[q].dir /\ q # p
      BY <1>2 DEF SInv, WorkInv, DirsInv
    <3> QED BY <2>3, <3>1
  <2>9. FilesInv'
    <3> SUFFICES ASSUME NEW q \in Listed(src), ~src[q].dir, q \notin todo.copy \ {p}
                 PROVE  /\ q \in DOMAIN w /\ ~w[q].dir
                        /\ \/ w[q] = File(src[q].ver, Stored(src[q].mtime))
                           \/ q \in DOMAIN before /\ ~ShouldUpdate(src[q], before[q]) /\ w[q] = before[q]
      BY <2>2 DEF FilesInv, Fits, Stored, ShouldUpdate
    <3>1. CASE q = p
      BY <2>1, <2>3, <3>1 DEF item
    <3>2. CASE q # p
      <4>1. q \in DOMAIN dst /\ ~dst[q].dir /\ Fits(q)
        BY <1>2, <3>2 DEF SInv, WorkInv, FilesInv
      <4>2. q \in DOMAIN w /\ w[q] = dst[q]
        BY <2>3, <3>2, <4>1
      <4> QED BY <4>1, <4>2 DEF Fits
    <3> QED BY <3>1, <3>2
  <2>10. SurplusInv'
    <3> SUFFICES ASSUME opts.delete, NEW q \in Listed(w), q # p PROVE q \in Listed(src)
      BY <1>2, <2>2 DEF SurplusInv
    <3>1. q \in DOMAIN w /\ (q # Base \/ ~w[q].dir)
      BY ListedMeans
    <3>2. CASE q \in DOMAIN dst
      <4>1. q \in Listed(dst)
        BY <2>3, <3>1, <3>2, ListedMeans
      <4> QED BY <1>2, <4>1 DEF SInv, WorkInv, SurplusInv
    <3>3. CASE IsStrictPrefix(q, p) /\ w[q].dir
      <4>1. q # Base /\ q \in Paths
        BY <2>3, <3>1, <3>3 DEF Side
      <4>2. q \in DOMAIN src
        BY <1>2, <3>3, <4>1 DEF Side, IsTree
      <4> QED BY <4>1, <4>2, ListedMeans
    <3> QED BY <2>3, <3>1, <3>2, <3>3
  <2> QED BY <2>5, <2>6, <2>7, <2>8, <2>9, <2>10 DEF SInv, WorkInv
<1> QED BY <1>3, <1>4

\* The end of a run changes nothing.
LEMMA FinishInv == ASSUME SInv, Finish PROVE SInv'
<1>1. /\ Running /\ outcome' = "ok"
      /\ src' = src /\ dst' = dst /\ opts' = opts /\ todo' = todo /\ before' = before
      /\ todo = Nothing
  BY DEF Finish
<1>2. ~Running'
  BY <1>1 DEF Running
<1>3. SidesInv'
  BY <1>1 DEF SInv, SidesInv
<1>4. KeepsTheRest'
  BY <1>1, KeepsNow, KeepsThen
<1>5. WorkInv'
  BY <1>1 DEF SInv, WorkInv, DirsInv, FilesInv, SurplusInv, Fits, Stored, ShouldUpdate
<1> QED BY <1>2, <1>3, <1>4, <1>5 DEF SInv, PlanInv

-----------------------------------------------------------------------------
(* The theorems *)

\* Before the first run there is nothing to show.
LEMMA InitInv == Init => SInv
<1> SUFFICES ASSUME Init PROVE SInv
  OBVIOUS
<1>1. ASSUME NEW image, NEW t \in Trees(image) PROVE Side(t)
  <2>1. PICK S \in SUBSET Paths :
          t \in [S -> {Directory} \cup {File(v, m) : v \in Versions, m \in Times}]
    BY <1>1 DEF Trees
  <2>2. IsTree(t)
    BY <1>1 DEF Trees
  <2>3. {Directory} \cup {File(v, m) : v \in Versions, m \in Times} \subseteq Items
    BY SyncAssumption DEF Items
  <2> QED BY <2>1, <2>2, <2>3 DEF Side
<1>2. /\ Side(src) /\ Side(dst) /\ opts \in Options
      /\ todo = Nothing /\ outcome = "none" /\ before = dst
  BY <1>1 DEF Init, Fresh
<1>3. SidesInv
  BY <1>2 DEF SidesInv, Nothing
<1> QED BY <1>2, <1>3 DEF SInv, PlanInv, WorkInv, KeepsTheRest, Running

\* Every step preserves the invariant.
LEMMA NextInv == SInv /\ [Next]_vars => SInv'
<1> SUFFICES ASSUME SInv, [Next]_vars PROVE SInv'
  OBVIOUS
<1>1. CASE UNCHANGED vars
  BY <1>1 DEF vars, SInv, SidesInv, PlanInv, WorkInv, KeepsTheRest, Running, Replaced,
              DirsInv, FilesInv, SurplusInv, Fits, Stored, ShouldUpdate, Surplus, Clashing
<1>2. CASE Start
  BY <1>2, StartInv
<1>3. CASE Step
  BY <1>3, DeleteInv, MakeDirInv, CopyInv, FinishInv DEF Step
<1>4. CASE Failure
  BY <1>4, DeleteStopsInv, CopyStopsInv, KilledInv DEF Failure
<1> QED BY <1>1, <1>2, <1>3, <1>4 DEF Next

\* The invariant of run_sync: the sides are trees, the plan still fits them, and
\* what is not in place is still on the list.
THEOREM SyncInvariant == Spec => []SInv
BY InitInv, NextInv, PTL DEF Spec

\* Without --delete a run that succeeds, fails or is killed loses nothing but
\* what it replaces (run_sync, deletions and copies).
THEOREM AlwaysKeepsTheRest == Spec => []KeepsTheRest
<1>1. SInv => KeepsTheRest
  BY DEF SInv
<1> QED BY <1>1, SyncInvariant, PTL

\* No deletion meets what an earlier one has taken away, and both sides stay
\* trees (run_sync, the order of to_delete).
THEOREM PlanAlwaysFits == Spec => []PlanFits
<1>1. SInv => PlanFits
  <2> SUFFICES ASSUME SInv PROVE PlanFits
    OBVIOUS
  <2>1. TypeOK
    <3>1. \A t \in {src, dst} : Side(t)
      BY DEF SInv, SidesInv
    <3>2. \A t \in {src, dst}, p \in Paths : p \in DOMAIN t =>
            t[p] = Directory \/ t[p] \in {File(v, m) : v \in Versions \cup {Torn}, m \in 0..Now}
      BY <3>1 DEF Side, Items
    <3>3. \A kind \in DOMAIN todo : todo[kind] \subseteq Paths
      BY DEF SInv, SidesInv
    <3>4. IsTree(src) /\ IsTree(dst)
      BY <3>1 DEF Side
    <3> QED BY <3>2, <3>3, <3>4 DEF TypeOK, SInv, SidesInv
  <2>2. DeletionsFindTheirItem
    BY DeletionShape DEF DeletionsFindTheirItem, Vanished
  <2> QED BY <2>1, <2>2 DEF PlanFits
<1> QED BY <1>1, SyncInvariant, PTL

\* What a run has done when it returns 0.
LEMMA Accomplished ==
  ASSUME SInv, outcome = "ok", NEW p \in Listed(src)
  PROVE  /\ p \in DOMAIN src /\ src[p] \in Items
         /\ p \in DOMAIN dst /\ dst[p] \in Items /\ dst[p].dir = src[p].dir
         /\ p \in Listed(dst)
         /\ ~src[p].dir => Fits(p)
<1>1. ~Running /\ Side(src) /\ Side(dst)
  BY DEF Running, SInv, SidesInv
<1>2. todo.dirs = {} /\ todo.copy = {}
  BY <1>1 DEF SInv, SidesInv, Nothing
<1>3. p \in DOMAIN src /\ src[p] \in Items /\ p \in Paths
  BY <1>1, ListedMeans DEF Side
<1>4. p \in DOMAIN dst /\ (src[p].dir => dst[p].dir) /\ (~src[p].dir => ~dst[p].dir /\ Fits(p))
  BY <1>2 DEF SInv, WorkInv, DirsInv, FilesInv
<1>5. dst[p] \in Items
  BY <1>1, <1>4 DEF Side
<1>6. dst[p].dir = src[p].dir
  BY <1>3, <1>4, <1>5, ItemShape
<1>7. p \in Listed(dst)
  BY <1>4, <1>6, ListedMeans
<1> QED BY <1>3, <1>4, <1>5, <1>6, <1>7

\* With --delete nothing is left that the source does not have.
LEMMA NoSurplus == ASSUME SInv, outcome = "ok", opts.delete PROVE Listed(dst) = Listed(src)
<1>1. todo.del = {}
  BY DEF Running, SInv, SidesInv, Nothing
<1>2. Listed(dst) \subseteq Listed(src)
  BY <1>1 DEF SInv, WorkInv, SurplusInv
<1> QED BY <1>2, Accomplished

\* A run that returns 0 has brought everything over, whatever earlier runs left
\* half-way (run_sync, should_update).
THEOREM AlwaysBroughtOver == Spec => []BroughtOver
<1>1. SInv => BroughtOver
  <2> SUFFICES ASSUME SInv, outcome = "ok" PROVE
        /\ \A p \in Listed(src) :
             /\ p \in DOMAIN dst /\ dst[p].dir = src[p].dir
             /\ \/ dst[p].ver = src[p].ver
                \/ p \in DOMAIN before /\ LooksTheSame(src[p], before[p]) /\ dst[p] = before[p]
        /\ opts.delete => Listed(dst) = Listed(src)
    BY DEF BroughtOver
  <2>1. ASSUME NEW p \in Listed(src)
        PROVE  \/ dst[p].ver = src[p].ver
               \/ p \in DOMAIN before /\ LooksTheSame(src[p], before[p]) /\ dst[p] = before[p]
    <3>1. /\ src[p] \in Items /\ dst[p] \in Items /\ dst[p].dir = src[p].dir
          /\ ~src[p].dir => Fits(p)
      BY Accomplished
    <3>2. CASE src[p].dir
      BY <3>1, <3>2, ItemShape
    <3>3. CASE dst[p] = File(src[p].ver, Stored(src[p].mtime))
      BY <3>3, ItemShape
    <3>4. CASE /\ ~src[p].dir
               /\ p \in DOMAIN before /\ ~ShouldUpdate(src[p], before[p]) /\ dst[p] = before[p]
      <4>1. ~before[p].dir /\ src[p].mtime \in Nat /\ before[p].mtime \in Nat
        BY <3>1, <3>4, ItemShape
      <4>2. CASE opts.checksum
        BY <3>4, <4>2 DEF ShouldUpdate
      <4>3. CASE ~opts.checksum
        <5>1. /\ Size(src[p].ver) = Size(before[p].ver)
              /\ ~(IF opts.update THEN src[p].mtime > before[p].mtime
                   ELSE Second(src[p].mtime) # Second(before[p].mtime))
          BY <3>4, <4>3 DEF ShouldUpdate
        <5>2. IF opts.update THEN src[p].mtime <= before[p].mtime
              ELSE Second(src[p].mtime) = Second(before[p].mtime)
          BY <4>1, <5>1, SMT
        <5> QED BY <3>4, <4>1, <4>3, <5>1, <5>2 DEF LooksTheSame
      <4> QED BY <4>2, <4>3
    <3> QED BY <3>1, <3>2, <3>3, <3>4 DEF Fits
  <2> QED BY <2>1, Accomplished, NoSurplus
<1> QED BY <1>1, SyncInvariant, PTL

\* A time that a volume has rounded down is still of the same second.
LEMMA SameSecond == \A m \in Nat : Second(Stored(m)) = Second(m)
BY SMT DEF Second, Stored

\* After a run that returned 0 a second one finds nothing to do, but for -u with
\* times that a volume rounds down (should_update).
THEOREM AlwaysSecondRunIdle == Spec => []SecondRunIdle
<1>1. SInv => SecondRunIdle
  <2> SUFFICES ASSUME SInv, outcome = "ok", ~(opts.update /\ opts.toImage /\ ~opts.checksum)
               PROVE  Plan = Nothing
    BY DEF SecondRunIdle
  <2>1. Extraneous = {}
    BY NoSurplus DEF Extraneous
  <2>2. Conflicts = {}
    BY Accomplished DEF Conflicts, OfOtherKind
  <2>3. NewDirs = {}
    BY Accomplished DEF NewDirs
  <2>4. ASSUME NEW p \in Listed(src), ~src[p].dir
        PROVE  ~ShouldUpdate(src[p], dst[p])
    <3>1. Fits(p) /\ src[p] \in Items
      BY <2>4, Accomplished
    <3>2. CASE dst[p] = File(src[p].ver, Stored(src[p].mtime))
      <4>1. /\ dst[p].ver = src[p].ver /\ dst[p].mtime = Stored(src[p].mtime)
            /\ src[p].mtime \in Nat
        BY <3>1, <3>2, ItemShape
      <4>2. Second(dst[p].mtime) = Second(src[p].mtime)
        BY <4>1, SameSecond
      <4>3. opts.update /\ ~opts.checksum => ~(src[p].mtime > dst[p].mtime)
        BY <4>1, SMT DEF Stored
      <4> QED BY <4>1, <4>2, <4>3 DEF ShouldUpdate
    <3> QED BY <3>1, <3>2 DEF Fits
  <2>5. Outdated = {}
    BY <2>4, Accomplished DEF Outdated
  <2> QED BY <2>1, <2>2, <2>3, <2>5 DEF Plan, Nothing
<1> QED BY <1>1, SyncInvariant, PTL

\* What a run has put in place, or found there, it does not take away again
\* (run_sync).
THEOREM AlwaysNothingUndone == Spec => NothingUndone
<1>1. ASSUME SInv, [Next]_vars, Running, outcome' = "running", NEW p \in Paths, Reached(p)
      PROVE  Reached(p)'
  <2>0. /\ p \in Listed(src) /\ p \in DOMAIN dst /\ dst[p].dir = src[p].dir
        /\ ~src[p].dir => dst[p] = File(src[p].ver, Stored(src[p].mtime))
        /\ Side(dst)
    BY <1>1 DEF Reached, SInv, SidesInv
  <2>1. ASSUME src' = src, opts' = opts, p \in DOMAIN dst', dst'[p] = dst[p]
        PROVE  Reached(p)'
    BY <2>0, <2>1 DEF Reached, Stored
  <2>2. CASE DeleteItem
    <3>1. PICK r \in todo.del :
            IF Vanished(r) THEN Raises(dst) ELSE Done("del", r, Without(dst, r))
      BY <2>2 DEF DeleteItem
    <3>2. Done("del", r, Without(dst, r))
      BY <1>1, <3>1 DEF Raises
    <3>3. r \in Paths /\ ~IsPrefix(r, p)
      BY <1>1, <2>0, DeletionShape, Untouched
    <3>4. p \in DOMAIN Without(dst, r) /\ Without(dst, r)[p] = dst[p]
      BY <2>0, <3>3, WithoutSide
    <3> QED BY <2>1, <3>2, <3>4 DEF Done
  <2>3. CASE MakeDir
    <3>1. PICK r \in todo.dirs :
            IF Blocked(dst, r) THEN Raises(dst) ELSE Done("dirs", r, WithDirs(dst, r))
      BY <2>3 DEF MakeDir
    <3>2. Done("dirs", r, WithDirs(dst, r)) /\ ~Blocked(dst, r)
      BY <1>1, <3>1 DEF Raises
    <3>3. p \in DOMAIN WithDirs(dst, r) /\ WithDirs(dst, r)[p] = dst[p]
      BY <2>0 DEF WithDirs
    <3> QED BY <2>1, <3>2, <3>3 DEF Done
  <2>4. CASE CopyItem
    <3>1. PICK q \in todo.copy :
            /\ Copying(q)
            /\ IF NoPlace(q) THEN Raises(dst) ELSE Done("copy", q, Copied(q))
      BY <2>4 DEF CopyItem
    <3>2. Done("copy", q, Copied(q)) /\ ~NoPlace(q)
      BY <1>1, <3>1 DEF Raises
    <3>3. File(src[q].ver, Stored(src[q].mtime)) \in Items /\ ~src[q].dir
      BY <1>1, <3>1, CopyShape, ItemShape
    <3>4. /\ Copied(q)[q] = File(src[q].ver, Stored(src[q].mtime)) /\ q \in DOMAIN Copied(q)
          /\ \A r \in DOMAIN dst \ {q} : r \in DOMAIN Copied(q) /\ Copied(q)[r] = dst[r]
      BY <1>1, <3>1, <3>2, <3>3, Written DEF Copied
    <3>5. p \in DOMAIN Copied(q) /\ Copied(q)[p] = dst[p]
      BY <2>0, <3>3, <3>4
    <3> QED BY <2>1, <3>2, <3>5 DEF Done
  <2>5. CASE UNCHANGED vars
    BY <2>0, <2>1, <2>5 DEF vars
  <2>6. ~Start /\ ~Finish /\ ~Failure
    BY <1>1 DEF Start, Finish, Failure, DeleteStops, CopyStops, Killed, Raises
  <2> QED BY <1>1, <2>2, <2>3, <2>4, <2>5, <2>6 DEF Next, Step
<1>2. SInv /\ [Next]_vars =>
        [Running /\ outcome' = "running" => \A p \in Paths : Reached(p) => Reached(p)']_vars
  BY <1>1
<1> QED BY <1>2, SyncInvariant, PTL DEF Spec, NothingUndone
=============================================================================
