-------------------------- MODULE RescueScanProofs --------------------------
(***************************************************************************)
(* What the scan of rdb/rescue.py finds, whatever is on the disk: disjoint *)
(* candidates in the order of their cylinders, among them every PART block *)
(* that no other and no exact root of a file system stands against.        *)
(*                                                                         *)
(* The argument follows the three steps of the scan.  Merge keeps the PART *)
(* blocks, and adds no two roots that begin at one place; so where they    *)
(* begin and their blocks order the candidates (Sorted); and Prune keeps   *)
(* what it has disjoint and never drops a PART block again.                *)
(***************************************************************************)
EXTENDS RDBRescue, RDiskProofs

-----------------------------------------------------------------------------
(* Recursion and sorting *)

\* There is a function that is built up from 0 to N by steps g.
LEMMA Recursion ==
  ASSUME NEW X, NEW x0 \in X, NEW N \in Nat, NEW g \in [1..N -> [X -> X]]
  PROVE  \E f \in [0..N -> X] :
           f[0] = x0 /\ \A n \in 1..N : f[n] = g[n][f[n - 1]]
<1> DEFINE T == {k \in Nat : k <= N =>
                   \E f \in [0..k -> X] :
                     f[0] = x0 /\ \A n \in 1..k : f[n] = g[n][f[n - 1]]}
<1>1. 0 \in T
  <2> DEFINE f == [n \in 0..0 |-> x0]
  <2>1. f \in [0..0 -> X] /\ f[0] = x0 /\ 1..0 = {}
    OBVIOUS
  <2> HIDE DEF f
  <2> QED BY <2>1
<1>2. ASSUME NEW k \in Nat, k \in T PROVE k + 1 \in T
  <2> SUFFICES ASSUME k + 1 <= N
               PROVE  \E f \in [0..k+1 -> X] :
                        f[0] = x0 /\ \A n \in 1..k+1 : f[n] = g[n][f[n - 1]]
    OBVIOUS
  <2>1. PICK f \in [0..k -> X] :
          f[0] = x0 /\ \A n \in 1..k : f[n] = g[n][f[n - 1]]
    BY <1>2
  <2> DEFINE h == [n \in 0..k+1 |-> IF n <= k THEN f[n] ELSE g[k + 1][f[k]]]
  <2>2. g[k + 1][f[k]] \in X
    <3>1. f[k] \in X /\ k + 1 \in 1..N
      OBVIOUS
    <3> QED BY <3>1
  <2>3. h \in [0..k+1 -> X]
    BY <2>2
  <2>4. h[0] = x0 /\ \A n \in 0..k : h[n] = f[n]
    BY <2>1
  <2>5. h[k + 1] = g[k + 1][f[k]]
    OBVIOUS
  <2> HIDE DEF h
  <2>6. ASSUME NEW n \in 1..k+1 PROVE h[n] = g[n][h[n - 1]]
    <3>1. CASE n <= k
      <4>1. n \in 1..k /\ n \in 0..k /\ n - 1 \in 0..k
        BY <3>1
      <4> QED BY <4>1, <2>1, <2>4
    <3>2. CASE n = k + 1
      <4>1. n - 1 = k /\ k \in 0..k
        BY <3>2
      <4> QED BY <3>2, <4>1, <2>4, <2>5
    <3> QED BY <3>1, <3>2
  <2> QED BY <2>3, <2>4, <2>6
<1> HIDE DEF T
<1>3. N \in T
  BY <1>1, <1>2, Induction
<1> QED BY <1>3 DEF T

\* Sorted gives the elements of a finite set once each, in their order.
LEMMA SortedOrder ==
  ASSUME NEW S, IsFiniteSet(S), NEW R,
         \A c \in S : <<c, c>> \notin R,
         \A c, d \in S : c # d => <<c, d>> \in R \/ <<d, c>> \in R,
         \A c, d, e \in S : <<c, d>> \in R /\ <<d, e>> \in R => <<c, e>> \in R
  PROVE  /\ Sorted(S, R) \in Seq(S) /\ Len(Sorted(S, R)) = Cardinality(S)
         /\ \A c \in S : \E i \in 1..Len(Sorted(S, R)) : Sorted(S, R)[i] = c
         /\ \A i, j \in 1..Len(Sorted(S, R)) :
              i < j => /\ <<Sorted(S, R)[i], Sorted(S, R)[j]>> \in R
                       /\ Sorted(S, R)[i] # Sorted(S, R)[j]
<1> DEFINE below(c) == {e \in S : <<e, c>> \in R}
           rank == [c \in S |-> Cardinality(below(c))]
           n == Cardinality(S)
           s == Sorted(S, R)
<1>1. n \in Nat
  BY FS_CardinalityType
<1>2. ASSUME NEW c \in S
      PROVE  IsFiniteSet(below(c)) /\ rank[c] \in 0 .. n - 1
  <2>1. below(c) \in SUBSET S /\ c \notin below(c)
    OBVIOUS
  <2> HIDE DEF below
  <2>2. /\ IsFiniteSet(below(c)) /\ Cardinality(below(c)) <= Cardinality(S)
        /\ Cardinality(S) = Cardinality(below(c)) => S = below(c)
    BY <2>1, FS_Subset
  <2>3. Cardinality(below(c)) \in Nat
    BY <2>2, FS_CardinalityType
  <2>4. Cardinality(below(c)) # n
    BY <2>1, <2>2
  <2> QED BY <1>1, <2>2, <2>3, <2>4
<1>3. ASSUME NEW c \in S, NEW d \in S, <<c, d>> \in R PROVE rank[c] < rank[d]
  <2>1. below(c) \in SUBSET below(d) /\ c \in below(d) /\ c \notin below(c)
    BY <1>3
  <2>2. IsFiniteSet(below(d)) /\ rank[c] \in 0 .. n - 1 /\ rank[d] \in 0 .. n - 1
    BY <1>2
  <2>3. rank[c] = Cardinality(below(c)) /\ rank[d] = Cardinality(below(d))
    OBVIOUS
  <2> HIDE DEF below, rank
  <2>4. Cardinality(below(c)) <= Cardinality(below(d))
        /\ (Cardinality(below(d)) = Cardinality(below(c)) => below(d) = below(c))
    BY <2>1, <2>2, FS_Subset
  <2> HIDE DEF n
  <2> QED BY <1>1, <2>1, <2>2, <2>3, <2>4
<1>4. rank \in [S -> 0 .. n - 1]
  BY <1>2
<1>5. ASSUME NEW c \in S, NEW d \in S, rank[c] = rank[d] PROVE c = d
  <2>1. rank[c] \in 0 .. n - 1 /\ rank[d] \in 0 .. n - 1
    BY <1>2
  <2> HIDE DEF rank, n
  <2>2. ~(rank[c] < rank[d]) /\ ~(rank[d] < rank[c])
    BY <1>1, <1>5, <2>1
  <2> QED BY <1>3, <2>2
<1>6. /\ IsFiniteSet(0 .. n - 1) /\ Cardinality(0 .. n - 1) = n
  <2>1. 0 \in Int /\ n - 1 \in Int
    BY <1>1
  <2>2. /\ IsFiniteSet(0 .. n - 1)
        /\ Cardinality(0 .. n - 1) = IF 0 > n - 1 THEN 0 ELSE (n - 1) - 0 + 1
    BY <2>1, FS_Interval
  <2> HIDE DEF n
  <2> QED BY <1>1, <2>2
<1>7. rank \in Surjection(S, 0 .. n - 1)
  <2>1. rank \in Injection(S, 0 .. n - 1)
    BY <1>4, <1>5 DEF Injection, IsInjective
  <2> QED BY <2>1, <1>6, FS_Injection
<1>8. ASSUME NEW i \in 1..n PROVE \E c \in S : rank[c] = i - 1
  <2>1. i - 1 \in 0 .. n - 1
    BY <1>1
  <2> HIDE DEF rank, n
  <2> QED BY <2>1, <1>7 DEF Surjection
<1>9. s = [i \in 1..n |-> CHOOSE c \in S : Cardinality(below(c)) = i - 1]
  BY DEF Sorted
<1>10. ASSUME NEW i \in 1..n PROVE s[i] \in S /\ rank[s[i]] = i - 1
  <2>1. s[i] = CHOOSE c \in S : Cardinality(below(c)) = i - 1
    BY <1>9
  <2>2. \A c \in S : rank[c] = Cardinality(below(c))
    OBVIOUS
  <2> HIDE DEF rank, below, s, n
  <2>3. \E c \in S : Cardinality(below(c)) = i - 1
    BY <1>8, <2>2
  <2> QED BY <2>1, <2>2, <2>3
<1>11. s \in Seq(S) /\ Len(s) = n
  <2>1. s \in [1..n -> S]
    BY <1>9, <1>10
  <2> QED BY <1>1, <2>1
<1> HIDE DEF rank, s, n
<1>12. ASSUME NEW c \in S PROVE \E i \in 1..n : s[i] = c
  <2>1. rank[c] \in 0 .. n - 1
    BY <1>4
  <2>2. rank[c] + 1 \in 1..n /\ (rank[c] + 1) - 1 = rank[c]
    BY <1>1, <2>1
  <2>3. s[rank[c] + 1] \in S /\ rank[s[rank[c] + 1]] = rank[c]
    BY <1>10, <2>2
  <2>4. s[rank[c] + 1] = c
    BY <1>5, <2>3
  <2> QED BY <2>2, <2>4
<1>13. ASSUME NEW i \in 1..n, NEW j \in 1..n, i < j
       PROVE  <<s[i], s[j]>> \in R /\ s[i] # s[j]
  <2>1. /\ s[i] \in S /\ s[j] \in S /\ rank[s[i]] = i - 1 /\ rank[s[j]] = j - 1
        /\ i - 1 < j - 1 /\ ~(j - 1 < i - 1) /\ i - 1 # j - 1
    BY <1>1, <1>10, <1>13
  <2>2. s[i] # s[j]
    BY <2>1
  <2>3. <<s[j], s[i]>> \notin R
    <3> SUFFICES ASSUME <<s[j], s[i]>> \in R PROVE FALSE
      OBVIOUS
    <3>1. rank[s[j]] < rank[s[i]]
      BY <1>3, <2>1
    <3> QED BY <2>1, <3>1
  <2> QED BY <2>1, <2>2, <2>3
<1> QED BY <1>11, <1>12, <1>13 DEF s, n

-----------------------------------------------------------------------------
(* Candidates *)

Candidate == [name : Names, lo : LoCyl..(HiCyl + 1), hi : (LoCyl - 1)..(HiCyl + 1),
              exact : BOOLEAN, blk : 1..END]

\* What a candidate comes from: a PART block or a root.
FromPart(d, c) ==
  /\ c.blk \in 1..RdbHi /\ d[c.blk].magic = "PART" /\ c = PartCandidate(d, c.blk)
FromRoot(anchors, c) ==
  c.blk = END /\ \E a \in ToSet(anchors) : c = AnchorCandidate(a)
FromScan(d, anchors, c) ==
  /\ c \in Candidate /\ c.lo <= c.hi + 1
  /\ FromPart(d, c) \/ FromRoot(anchors, c)

\* No two of a set of candidates are the same to the order of InOrder.
Distinct(M) == \A c, e \in M : c.lo = e.lo /\ c.blk = e.blk => c = e

\* The numbers that the cylinders and blocks are.
LEMMA Numbers ==
  /\ RdbHi \in Nat /\ RdbHi > 0 /\ END = RdbHi + 1 /\ RDSK = 0
  /\ LoCyl \in Nat /\ LoCyl > 0 /\ HiCyl \in Nat /\ LoCyl <= HiCyl
  /\ Blocks = 0..RdbHi /\ 1..RdbHi \subseteq Blocks
BY AreaAssumption, SMT DEF END, RDSK, Blocks

\* The cylinders of a candidate are integers.
LEMMA Cylinders ==
  ASSUME NEW c \in Candidate
  PROVE  c.lo \in Int /\ c.hi \in Int
<1>1. LoCyl - 1 \in Int /\ HiCyl + 1 \in Int /\ LoCyl \in Int
  BY Numbers
<1> QED BY <1>1 DEF Candidate

\* What a PART block holds.
LEMMA PartTyped ==
  ASSUME NEW c \in Content, c.magic = "PART"
  PROVE  /\ c.next \in BlockNums /\ c.name \in Names
         /\ c.lo \in LoCyl..(HiCyl + 1) /\ c.hi \in (LoCyl - 1)..HiCyl /\ c.lo <= c.hi + 1
BY Kinds

\* The PART blocks of an image as candidates.
LEMMA PartsScanned ==
  ASSUME NEW d \in [Blocks -> Content], NEW anchors
  PROVE  /\ \A c \in PartCandidates(d) : FromScan(d, anchors, c) /\ FromPart(d, c)
         /\ \A b \in 1..RdbHi : d[b].magic = "PART" =>
              PartCandidate(d, b) \in PartCandidates(d) /\ PartCandidate(d, b).blk = b
         /\ IsFiniteSet(PartCandidates(d)) /\ Distinct(PartCandidates(d))
<1>1. ASSUME NEW b \in 1..RdbHi, d[b].magic = "PART"
      PROVE  /\ PartCandidate(d, b) \in Candidate /\ PartCandidate(d, b).blk = b
             /\ PartCandidate(d, b).lo <= PartCandidate(d, b).hi + 1
  <2>1. b \in Blocks /\ b \in 1..END /\ HiCyl \in Int /\ LoCyl \in Int
    BY Numbers, SMT
  <2>2. d[b] \in Content
    BY <2>1
  <2>3. /\ d[b].name \in Names /\ d[b].lo \in LoCyl..(HiCyl + 1)
        /\ d[b].hi \in (LoCyl - 1)..(HiCyl + 1) /\ d[b].lo <= d[b].hi + 1
    BY <1>1, <2>1, <2>2, PartTyped
  <2> QED BY <2>1, <2>3 DEF PartCandidate, Candidate
<1>2. ASSUME NEW c \in PartCandidates(d)
      PROVE  FromScan(d, anchors, c) /\ FromPart(d, c)
  <2>1. PICK b \in 1..RdbHi : d[b].magic = "PART" /\ c = PartCandidate(d, b)
    BY <1>2 DEF PartCandidates
  <2> QED BY <1>1, <2>1 DEF FromScan, FromPart
<1>3. ASSUME NEW c \in PartCandidates(d), NEW e \in PartCandidates(d), c.blk = e.blk
      PROVE  c = e
  BY <1>2, <1>3 DEF FromPart
<1>4. IsFiniteSet(PartCandidates(d))
  <2> DEFINE blk == [c \in PartCandidates(d) |-> c.blk]
  <2>1. blk \in [PartCandidates(d) -> 1..RdbHi]
    BY <1>2 DEF FromPart
  <2>2. blk \in Injection(PartCandidates(d), 1..RdbHi)
    BY <1>3, <2>1 DEF Injection, IsInjective
  <2>3. 1 \in Int /\ RdbHi \in Int
    BY Numbers
  <2>4. IsFiniteSet(1..RdbHi)
    BY <2>3, FS_Interval
  <2> QED BY <2>2, <2>4, FS_Injection
<1> QED BY <1>1, <1>2, <1>3, <1>4 DEF PartCandidates, Distinct

\* A root as a candidate.
LEMMA RootTyped ==
  ASSUME NEW a \in Anchors
  PROVE  /\ AnchorCandidate(a) \in Candidate /\ AnchorCandidate(a).blk = END
         /\ AnchorCandidate(a).lo = a.lo /\ AnchorCandidate(a).hi = a.hi
         /\ AnchorCandidate(a).exact = a.exact
         /\ a.lo <= a.hi /\ a.lo \in Int /\ a.hi \in Int
<1>1. /\ a \in [name : Names, lo : LoCyl..HiCyl, hi : LoCyl..(HiCyl + 1), exact : BOOLEAN]
      /\ a.lo <= a.hi
  BY AnchorAssumption
<1>2. /\ a.lo \in LoCyl..(HiCyl + 1) /\ a.hi \in (LoCyl - 1)..(HiCyl + 1)
      /\ END \in 1..END /\ a.lo \in Int /\ a.hi \in Int
  BY <1>1, Numbers, SMT
<1> QED BY <1>1, <1>2 DEF AnchorCandidate, Candidate

\* Merge adds a root where no other begins.
LEMMA MergeStep ==
  ASSUME NEW d, NEW anchors \in Seq(Anchors), NEW M, NEW a \in ToSet(anchors),
         \A c \in M : FromScan(d, anchors, c), IsFiniteSet(M), Distinct(M)
  PROVE  /\ \A c \in Merge(M, a) : FromScan(d, anchors, c)
         /\ IsFiniteSet(Merge(M, a)) /\ Distinct(Merge(M, a)) /\ M \subseteq Merge(M, a)
<1>1. CASE \E c \in M : c.lo <= a.lo /\ a.lo <= c.hi
  <2>1. Merge(M, a) = M
    BY <1>1 DEF Merge
  <2> QED BY <2>1
<1>2. CASE ~\E c \in M : c.lo <= a.lo /\ a.lo <= c.hi
  <2> DEFINE r == AnchorCandidate(a)
  <2>1. Merge(M, a) = M \cup {r}
    BY <1>2 DEF Merge
  <2>2. a \in Anchors
    <3>1. \A i \in DOMAIN anchors : anchors[i] \in Anchors
      BY LenProperties, ElementOfSeq
    <3> QED BY <3>1 DEF ToSet
  <2>3. /\ r \in Candidate /\ r.blk = END /\ r.lo = a.lo /\ r.hi = a.hi
        /\ a.lo <= a.hi /\ a.lo \in Int /\ a.hi \in Int
    BY <2>2, RootTyped
  <2>4. FromScan(d, anchors, r)
    <3>1. r.lo <= r.hi + 1
      BY <2>3
    <3> QED BY <2>3, <3>1 DEF FromScan, FromRoot
  <2> HIDE DEF r
  <2>5. ASSUME NEW c \in M, c.lo = r.lo PROVE c.blk # r.blk
    <3>1. SUFFICES ASSUME c.blk = END PROVE FALSE
      BY <2>3
    <3>2. FromRoot(anchors, c)
      BY <3>1, Numbers, SMT DEF FromScan, FromPart
    <3>3. PICK e \in ToSet(anchors) : c = AnchorCandidate(e)
      BY <3>2 DEF FromRoot
    <3>4. e \in Anchors
      <4>1. \A i \in DOMAIN anchors : anchors[i] \in Anchors
        BY LenProperties, ElementOfSeq
      <4> QED BY <4>1 DEF ToSet
    <3>5. c.lo = e.lo /\ c.hi = e.hi /\ e.lo <= e.hi /\ e.lo \in Int /\ e.hi \in Int
      BY <3>3, <3>4, RootTyped
    <3> QED BY <1>2, <2>3, <2>5, <3>5
  <2>6. Distinct(M \cup {r})
    BY <2>5 DEF Distinct
  <2>7. IsFiniteSet(M \cup {r})
    BY FS_AddElement
  <2> QED BY <2>1, <2>4, <2>6, <2>7
<1> QED BY <1>1, <1>2

-----------------------------------------------------------------------------
(* The steps of the scan *)

\* The sets of candidates as roots are merged, and the lists as they are pruned.
Merges(d, anchors, m) ==
  [i \in 0..Len(anchors) |->
     IF i = 0 THEN PartCandidates(d) ELSE Merge(m[i - 1], anchors[i])]
Prunes(order, p) ==
  [i \in 0..Len(order) |-> IF i = 0 THEN <<>> ELSE Prune(p[i - 1], order[i])]

\* There are such sets, and in the end the PART blocks and roots are in them.
LEMMA MergesDefined ==
  ASSUME NEW d, d \in [Blocks -> Content], NEW anchors, anchors \in Seq(Anchors)
  PROVE  \E m : m = Merges(d, anchors, m)
<1> DEFINE X == SUBSET Candidate
           N == Len(anchors)
<1>1. N \in Nat /\ \A i \in 1..N : anchors[i] \in Anchors
  BY LenProperties, ElementOfSeq
<1>2. PartCandidates(d) \in X
  BY PartsScanned DEF FromScan
<1>3. ASSUME NEW i \in 1..N, NEW x \in X PROVE Merge(x, anchors[i]) \in X
  <2>1. AnchorCandidate(anchors[i]) \in Candidate
    BY <1>1, RootTyped
  <2> QED BY <2>1 DEF Merge
<1> DEFINE step == [i \in 1..N |-> [x \in X |-> Merge(x, anchors[i])]]
<1>8. step \in [1..N -> [X -> X]]
  BY <1>3
<1>9. \A i \in 1..N, x \in X : step[i][x] = Merge(x, anchors[i])
  OBVIOUS
<1>10. N \in Nat
  BY <1>1
<1> HIDE DEF X, N, step
<1>11. \E f \in [0..N -> X] :
         f[0] = PartCandidates(d) /\ \A n \in 1..N : f[n] = step[n][f[n - 1]]
  BY ONLY <1>2, <1>8, <1>10, Recursion
<1>12. PICK f \in [0..N -> X] :
         f[0] = PartCandidates(d) /\ \A n \in 1..N : f[n] = step[n][f[n - 1]]
  BY <1>11
<1>4. \A n \in 1..N : f[n] = Merge(f[n - 1], anchors[n])
  <2> TAKE n \in 1..N
  <2>1. f[n - 1] \in X
    BY <1>10
  <2> QED BY <1>9, <1>12, <2>1
<1>5. ASSUME NEW n \in 0..N
      PROVE  f[n] = IF n = 0 THEN PartCandidates(d) ELSE Merge(f[n - 1], anchors[n])
  <2>1. n # 0 => n \in 1..N
    BY <1>10
  <2> QED BY <1>4, <1>12, <2>1
<1>6. f = [n \in 0..N |-> f[n]]
  BY <1>12
<1>7. f = Merges(d, anchors, f)
  BY <1>5, <1>6 DEF Merges, N
<1> QED BY <1>7

\* What the merges of all roots leave are PART blocks, all of them, and roots,
\* one at a place.
LEMMA Merged ==
  ASSUME NEW d \in [Blocks -> Content], NEW anchors \in Seq(Anchors),
         NEW m, m = Merges(d, anchors, m)
  PROVE  LET M == m[Len(anchors)]
         IN  /\ \A c \in M : FromScan(d, anchors, c)
             /\ IsFiniteSet(M) /\ Distinct(M) /\ PartCandidates(d) \subseteq M
<1> DEFINE N == Len(anchors)
           Sound(M) == /\ \A c \in M : FromScan(d, anchors, c)
                       /\ IsFiniteSet(M) /\ Distinct(M) /\ PartCandidates(d) \subseteq M
           T == {k \in Nat : k <= N => Sound(m[k])}
<1>1. N \in Nat /\ DOMAIN anchors = 1..N
  BY LenProperties
<1>2. /\ m[0] = PartCandidates(d)
      /\ \A i \in 1..N : m[i] = Merge(m[i - 1], anchors[i])
  <2>1. \A i \in 0..N : m[i] = IF i = 0 THEN PartCandidates(d) ELSE Merge(m[i - 1], anchors[i])
    BY DEF Merges
  <2> QED BY <1>1, <2>1
<1>3. 0 \in T
  <2>1. Sound(m[0])
    BY <1>2, PartsScanned
  <2> QED BY <2>1
<1>4. ASSUME NEW k \in Nat, k \in T PROVE k + 1 \in T
  <2> SUFFICES ASSUME k + 1 <= N PROVE Sound(m[k + 1])
    OBVIOUS
  <2>1. Sound(m[k])
    BY <1>1, <1>4
  <2>2. k + 1 \in 1..N /\ (k + 1) - 1 = k
    BY <1>1
  <2>3. m[k + 1] = Merge(m[k], anchors[k + 1]) /\ anchors[k + 1] \in ToSet(anchors)
    BY <1>1, <1>2, <2>2 DEF ToSet
  <2>4. /\ \A c \in Merge(m[k], anchors[k + 1]) : FromScan(d, anchors, c)
        /\ IsFiniteSet(Merge(m[k], anchors[k + 1])) /\ Distinct(Merge(m[k], anchors[k + 1]))
        /\ m[k] \subseteq Merge(m[k], anchors[k + 1])
    <3> HIDE DEF N, T
    <3> QED BY SMTT(40), <2>1, <2>3, MergeStep
  <2> QED BY <2>1, <2>3, <2>4
<1>5. N \in T
  <2> HIDE DEF T
  <2> QED BY <1>1, <1>3, <1>4, Induction
<1> QED BY <1>1, <1>5

\* What the scan goes through in the end: all candidates in order.
InOrderOf(M, o) ==
  /\ o \in Seq(M)
  /\ \A c \in M : \E i \in 1..Len(o) : o[i] = c
  /\ \A i, j \in 1..Len(o) : i < j =>
       /\ o[i] # o[j]
       /\ o[i].lo < o[j].lo \/ (o[i].lo = o[j].lo /\ o[i].blk < o[j].blk)

\* InOrder lists the candidates by where they begin.
LEMMA Ordered ==
  ASSUME NEW M, M \subseteq Candidate, IsFiniteSet(M), Distinct(M)
  PROVE  InOrderOf(M, InOrder(M))
<1> DEFINE Before(c, e) == c.lo < e.lo \/ (c.lo = e.lo /\ c.blk < e.blk)
           R == {p \in M \X M : Before(p[1], p[2])}
<1>1. InOrder(M) = Sorted(M, R)
  BY DEF InOrder
<1>2. \A c, e \in M : <<c, e>> \in R <=> Before(c, e)
  OBVIOUS
<1>3. \A c \in M : c.lo \in Int /\ c.blk \in Int
  <2>1. LoCyl \in Int /\ HiCyl + 1 \in Int /\ END \in Int
    BY Numbers
  <2> QED BY <2>1 DEF Candidate
<1>4. \A c \in M : ~Before(c, c)
  BY <1>3
<1>5. \A c, e \in M : c # e => Before(c, e) \/ Before(e, c)
  BY <1>3 DEF Distinct
<1>6. \A c, e, f \in M : Before(c, e) /\ Before(e, f) => Before(c, f)
  BY <1>3
<1> HIDE DEF Before, R
<1>7. /\ Sorted(M, R) \in Seq(M)
      /\ \A c \in M : \E i \in 1..Len(Sorted(M, R)) : Sorted(M, R)[i] = c
      /\ \A i, j \in 1..Len(Sorted(M, R)) :
           i < j => /\ <<Sorted(M, R)[i], Sorted(M, R)[j]>> \in R
                    /\ Sorted(M, R)[i] # Sorted(M, R)[j]
  BY <1>2, <1>4, <1>5, <1>6, SortedOrder
<1>8. \A i \in 1..Len(Sorted(M, R)) : Sorted(M, R)[i] \in M
  BY <1>7, ElementOfSeq
<1>9. \A i, j \in 1..Len(Sorted(M, R)) :
        i < j => Before(Sorted(M, R)[i], Sorted(M, R)[j])
  BY <1>2, <1>7, <1>8
<1> DEFINE o == Sorted(M, R)
<1>10. \A i, j \in 1..Len(o) :
         i < j => /\ o[i] # o[j]
                  /\ o[i].lo < o[j].lo \/ (o[i].lo = o[j].lo /\ o[i].blk < o[j].blk)
  BY <1>7, <1>9 DEF Before
<1>11. o \in Seq(M) /\ \A c \in M : \E i \in 1..Len(o) : o[i] = c
  BY <1>7
<1> HIDE DEF o
<1>12. InOrderOf(M, o)
  BY <1>10, <1>11 DEF InOrderOf
<1> QED BY <1>1, <1>12 DEF o

\* What Prune makes of its list p and the next candidate c: c after the whole
\* list, c for the last of the list, or the list as it was.
LEMMA PruneStep ==
  ASSUME NEW p, p \in Seq(Candidate), NEW c, c \in Candidate
  PROVE  LET q == Prune(p, c)
             n == Len(p)
         IN  /\ q \in Seq(Candidate) /\ n \in Nat
             /\ \/ /\ n > 0 => c.lo > p[n].hi
                   /\ Len(q) = n + 1 /\ q[n + 1] = c /\ \A i \in 1..n : q[i] = p[i]
                \/ /\ n > 0 /\ c.lo <= p[n].hi /\ c.exact /\ ~p[n].exact
                   /\ Len(q) = n /\ q[n] = c /\ \A i \in 1 .. n - 1 : q[i] = p[i]
                \/ /\ n > 0 /\ c.lo <= p[n].hi /\ (c.exact => p[n].exact)
                   /\ q = p
<1> DEFINE n == Len(p)
           q == Prune(p, c)
<1>1. n \in Nat /\ (p = <<>> <=> n = 0) /\ \A i \in 1..n : p[i] \in Candidate
  BY LenProperties, EmptySeq, ElementOfSeq
<1>2. Last(p) = p[n]
  BY DEF Last
<1>3. c.lo \in Int /\ \A i \in 1..n : p[i].hi \in Int
  <2>1. LoCyl - 1 \in Int /\ HiCyl + 1 \in Int /\ LoCyl \in Int
    BY Numbers
  <2> QED BY SMTT(40), <1>1, <2>1 DEF Candidate
<1>4. CASE p = <<>> \/ c.lo > p[n].hi
  <2>1. q = Append(p, c)
    BY <1>2, <1>4 DEF Prune
  <2>2. /\ q \in Seq(Candidate) /\ Len(q) = n + 1 /\ q[n + 1] = c
        /\ \A i \in 1..n : q[i] = p[i]
    BY <1>1, <2>1
  <2>3. n > 0 => c.lo > p[n].hi
    BY <1>1, <1>4
  <2> QED BY <1>1, <2>2, <2>3
<1>5. CASE p # <<>> /\ ~(c.lo > p[n].hi) /\ c.exact /\ ~p[n].exact
  <2>1. q = Append(Front(p), c)
    BY <1>2, <1>5 DEF Prune
  <2>2. n - 1 \in Nat /\ n \in 1..n /\ n > 0 /\ c.lo <= p[n].hi
    BY <1>1, <1>3, <1>5
  <2>3. Front(p) \in Seq(Candidate) /\ Len(Front(p)) = n - 1
        /\ \A i \in 1 .. n - 1 : Front(p)[i] = p[i]
    <3>1. Front(p) = SubSeq(p, 1, n - 1)
      BY DEF Front
    <3>2. 1 \in Int /\ n - 1 \in Int /\ \A i \in 1 .. n - 1 : p[i] \in Candidate
      BY <1>1, <2>2
    <3> HIDE DEF n
    <3>3. /\ SubSeq(p, 1, n - 1) \in Seq(Candidate)
          /\ Len(SubSeq(p, 1, n - 1)) = IF 1 <= n - 1 THEN (n - 1) - 1 + 1 ELSE 0
          /\ \A i \in 1 .. (n - 1) - 1 + 1 : SubSeq(p, 1, n - 1)[i] = p[1 + i - 1]
      BY <3>2, SubSeqProperties
    <3>4. \A i \in 1 .. n - 1 : i \in 1 .. (n - 1) - 1 + 1 /\ 1 + i - 1 = i
      BY <2>2
    <3>5. (IF 1 <= n - 1 THEN (n - 1) - 1 + 1 ELSE 0) = n - 1
      BY <2>2
    <3> QED BY <3>1, <3>3, <3>4, <3>5
  <2>4. /\ q \in Seq(Candidate) /\ Len(q) = n /\ q[n] = c
        /\ \A i \in 1 .. n - 1 : q[i] = p[i]
    BY <2>1, <2>2, <2>3
  <2> QED BY <1>1, <1>5, <2>2, <2>4
<1>6. CASE p # <<>> /\ ~(c.lo > p[n].hi) /\ ~(c.exact /\ ~p[n].exact)
  <2>1. q = p
    BY <1>2, <1>6 DEF Prune
  <2>2. n > 0 /\ n \in 1..n /\ c.lo <= p[n].hi
    BY <1>1, <1>3, <1>6
  <2> QED BY <1>1, <1>6, <2>1, <2>2
<1> QED BY <1>4, <1>5, <1>6

\* There is a function that the recursion of the pruning defines.
LEMMA PrunesDefined ==
  ASSUME NEW o, o \in Seq(Candidate)
  PROVE  \E p : p = Prunes(o, p)
<1> DEFINE X == Seq(Candidate)
           N == Len(o)
           step == [i \in 1..N |-> [x \in X |-> Prune(x, o[i])]]
<1>1. N \in Nat /\ \A i \in 1..N : o[i] \in Candidate
  BY LenProperties, ElementOfSeq
<1>2. ASSUME NEW i \in 1..N, NEW x \in X PROVE Prune(x, o[i]) \in X
  BY <1>1, PruneStep
<1>3. step \in [1..N -> [X -> X]]
  BY <1>2
<1>4. \A i \in 1..N, x \in X : step[i][x] = Prune(x, o[i])
  OBVIOUS
<1>5. N \in Nat /\ <<>> \in X
  BY <1>1, EmptySeq
<1> HIDE DEF X, N, step
<1>6. \E f \in [0..N -> X] : f[0] = <<>> /\ \A n \in 1..N : f[n] = step[n][f[n - 1]]
  BY ONLY SMTT(40), <1>3, <1>5, Recursion
<1>7. PICK f \in [0..N -> X] : f[0] = <<>> /\ \A n \in 1..N : f[n] = step[n][f[n - 1]]
  BY <1>6
<1>8. ASSUME NEW n \in 0..N
      PROVE  f[n] = IF n = 0 THEN <<>> ELSE Prune(f[n - 1], o[n])
  <2>1. CASE n = 0
    BY <1>7, <2>1
  <2>2. CASE n # 0
    <3>1. n \in 1..N /\ f[n - 1] \in X
      BY <1>5, <2>2
    <3> QED BY <1>4, <1>7, <2>2, <3>1
  <2> QED BY <2>1, <2>2
<1>9. f = [n \in 0..N |-> f[n]]
  BY <1>7
<1>10. f = Prunes(o, f)
  BY <1>8, <1>9 DEF Prunes, N
<1> QED BY <1>10

\* A list of different candidates, by where they are, which leaves no cylinder
\* to two of them.
Disjoint(p) ==
  \A i, j \in 1..Len(p) : i < j => p[i].hi < p[j].lo /\ p[i] # p[j]

\* The candidates that are pruned, by where they begin.
Ascending(o) ==
  /\ o \in Seq(Candidate) /\ \A i \in 1..Len(o) : o[i].lo <= o[i].hi + 1
  /\ \A i, j \in 1..Len(o) : i < j => o[i] # o[j] /\ o[i].lo <= o[j].lo
\* A list made from the first k of them, and those that it may not lack: exact
\* ones that no exact one before them reaches.
MadeOf(o, p, k) ==
  /\ p \in Seq(Candidate) /\ Disjoint(p)
  /\ \A i \in 1..Len(p) : \E j \in 1..k : p[i] = o[j]
Free(o, b) ==
  o[b].exact /\ \A i \in 1..Len(o) : i < b => (o[i].exact => o[i].hi < o[b].lo)
KeepsFree(o, p, k) ==
  \A b \in 1..Len(o) : Free(o, b) /\ b <= k => \E i \in 1..Len(p) : p[i] = o[b]

\* One more candidate of an ordered list is pruned: the list stays disjoint.
LEMMA PrunedOnce ==
  ASSUME NEW o, Ascending(o), NEW k \in Nat, k + 1 <= Len(o), NEW p, MadeOf(o, p, k)
  PROVE  MadeOf(o, Prune(p, o[k + 1]), k + 1)
<1>0. /\ o \in Seq(Candidate) /\ \A i \in 1..Len(o) : o[i].lo <= o[i].hi + 1
      /\ \A i, j \in 1..Len(o) : i < j => o[i] # o[j] /\ o[i].lo <= o[j].lo
      /\ p \in Seq(Candidate) /\ Disjoint(p)
      /\ \A i \in 1..Len(p) : \E j \in 1..k : p[i] = o[j]
  BY DEF Ascending, MadeOf
<1> DEFINE c == o[k + 1]
           q == Prune(p, c)
           n == Len(p)
<1>1. Len(o) \in Nat /\ k + 1 \in 1..Len(o) /\ 1..k \subseteq 1..Len(o) /\ 1..k \subseteq 1 .. k + 1
  <2>1. Len(o) \in Nat
    BY <1>0, LenProperties
  <2> QED BY <2>1
<1>2. c \in Candidate /\ n \in Nat /\ \A i \in 1..n : p[i] \in Candidate
  BY <1>0, <1>1, LenProperties, ElementOfSeq
<1>3. ASSUME NEW e \in Candidate PROVE e.lo \in Int /\ e.hi \in Int
  BY Cylinders
<1>4. ASSUME NEW i \in 1..n
      PROVE  p[i].lo <= c.lo /\ p[i] # c /\ p[i].lo <= p[i].hi + 1
  <2>1. PICK j \in 1..k : p[i] = o[j]
    BY <1>0
  <2>2. j \in 1..Len(o) /\ j < k + 1
    BY <1>1
  <2> QED BY <1>0, <1>1, <2>1, <2>2
<1>5. /\ q \in Seq(Candidate)
      /\ \/ /\ n > 0 => c.lo > p[n].hi
            /\ Len(q) = n + 1 /\ q[n + 1] = c /\ \A i \in 1..n : q[i] = p[i]
         \/ /\ n > 0 /\ c.lo <= p[n].hi /\ c.exact /\ ~p[n].exact
            /\ Len(q) = n /\ q[n] = c /\ \A i \in 1 .. n - 1 : q[i] = p[i]
         \/ /\ n > 0 /\ c.lo <= p[n].hi /\ (c.exact => p[n].exact)
            /\ q = p
  BY <1>0, <1>2, PruneStep
<1> HIDE DEF q, c, n
\* All but the last end before c begins.
<1>6. ASSUME NEW i \in 1..n, i < n PROVE p[i].hi < c.lo
  <2>1. n \in 1..n /\ p[i].hi < p[n].lo /\ p[n].lo <= c.lo
    BY <1>0, <1>2, <1>4, <1>6 DEF Disjoint, n
  <2>2. p[i].hi \in Int /\ p[n].lo \in Int /\ c.lo \in Int
    BY <1>2, <1>3, <2>1
  <2> QED BY <2>1, <2>2
<1>7. Disjoint(q) /\ \A i \in 1..Len(q) : q[i] = c \/ \E j \in 1..n : q[i] = p[j]
  <2>1. CASE /\ n > 0 => c.lo > p[n].hi
             /\ Len(q) = n + 1 /\ q[n + 1] = c /\ \A i \in 1..n : q[i] = p[i]
    <3>1. ASSUME NEW i \in 1..Len(q), NEW j \in 1..Len(q), i < j
          PROVE  q[i].hi < q[j].lo /\ q[i] # q[j]
      <4>1. i \in 1..n /\ q[i] = p[i] /\ n > 0
        BY <1>2, <2>1, <3>1
      <4>2. CASE j = n + 1
        <5>1. q[j] = c /\ p[i] # c
          BY <1>4, <2>1, <4>1, <4>2
        <5>2. p[i].hi < c.lo
          <6>1. CASE i = n
            <7>1. p[i].hi \in Int /\ c.lo \in Int
              BY <1>2, <1>3, <4>1
            <7> QED BY <2>1, <4>1, <6>1, <7>1
          <6>2. CASE i < n
            BY <1>6, <4>1, <6>2
          <6> QED BY <1>2, <4>1, <6>1, <6>2
        <5> QED BY <4>1, <5>1, <5>2
      <4>3. CASE j # n + 1
        <5>1. j \in 1..n /\ q[j] = p[j]
          BY <1>2, <2>1, <4>3
        <5> QED BY <1>0, <3>1, <4>1, <5>1 DEF Disjoint, n
      <4> QED BY <4>2, <4>3
    <3>2. ASSUME NEW i \in 1..Len(q) PROVE q[i] = c \/ \E j \in 1..n : q[i] = p[j]
      <4>1. i = n + 1 \/ i \in 1..n
        BY <1>2, <2>1
      <4> QED BY <2>1, <4>1
    <3> QED BY <3>1, <3>2 DEF Disjoint
  <2>2. CASE n > 0 /\ Len(q) = n /\ q[n] = c /\ \A i \in 1 .. n - 1 : q[i] = p[i]
    <3>1. ASSUME NEW i \in 1..Len(q), NEW j \in 1..Len(q), i < j
          PROVE  q[i].hi < q[j].lo /\ q[i] # q[j]
      <4>1. i \in 1..n /\ i < n /\ j \in 1..n /\ q[i] = p[i]
        BY <1>2, <2>2, <3>1
      <4>2. CASE j = n
        <5>1. q[j] = c /\ p[i] # c /\ p[i].hi < c.lo
          BY <1>4, <1>6, <2>2, <4>1, <4>2
        <5> QED BY <4>1, <5>1
      <4>3. CASE j # n
        <5>1. q[j] = p[j]
          BY <1>2, <2>2, <4>1, <4>3
        <5> QED BY <1>0, <3>1, <4>1, <5>1 DEF Disjoint, n
      <4> QED BY <4>2, <4>3
    <3>2. ASSUME NEW i \in 1..Len(q) PROVE q[i] = c \/ \E j \in 1..n : q[i] = p[j]
      <4>1. i = n \/ i \in 1 .. n - 1
        BY <1>2, <2>2
      <4>2. 1 .. n - 1 \subseteq 1..n
        BY <1>2
      <4> QED BY <2>2, <4>1, <4>2
    <3> QED BY <3>1, <3>2 DEF Disjoint
  <2>3. CASE q = p
    BY <1>0, <2>3 DEF n
  <2> QED BY <1>5, <2>1, <2>2, <2>3
<1>8. ASSUME NEW i \in 1..Len(q) PROVE \E j \in 1 .. k + 1 : q[i] = o[j]
  <2>1. CASE q[i] = c
    <3>1. k + 1 \in 1 .. k + 1
      OBVIOUS
    <3> QED BY <2>1, <3>1 DEF c
  <2>2. CASE \E j \in 1..n : q[i] = p[j]
    BY <1>0, <1>1, <2>2 DEF n
  <2> QED BY <1>7, <2>1, <2>2
<1> QED BY <1>5, <1>7, <1>8 DEF q, c, MadeOf

\* A candidate that is free is kept.
LEMMA KeptOnce ==
  ASSUME NEW o, Ascending(o), NEW k \in Nat, k + 1 <= Len(o),
         NEW p, MadeOf(o, p, k), KeepsFree(o, p, k)
  PROVE  KeepsFree(o, Prune(p, o[k + 1]), k + 1)
<1> SUFFICES ASSUME NEW b \in 1..Len(o), Free(o, b), b <= k + 1
             PROVE  \E i \in 1..Len(Prune(p, o[k + 1])) : Prune(p, o[k + 1])[i] = o[b]
  BY DEF KeepsFree
<1>0. /\ o \in Seq(Candidate) /\ p \in Seq(Candidate)
      /\ o[b].exact /\ \A i \in 1..Len(o) : i < b => (o[i].exact => o[i].hi < o[b].lo)
      /\ \A i \in 1..Len(p) : \E j \in 1..k : p[i] = o[j]
      /\ b <= k => \E i \in 1..Len(p) : p[i] = o[b]
  BY DEF Ascending, MadeOf, KeepsFree, Free
<1> DEFINE c == o[k + 1]
           q == Prune(p, c)
           n == Len(p)
<1>1. Len(o) \in Nat /\ k + 1 \in 1..Len(o)
  <2>1. Len(o) \in Nat
    BY <1>0, LenProperties
  <2> QED BY <2>1
<1>2. c \in Candidate /\ n \in Nat
  BY <1>0, <1>1, LenProperties, ElementOfSeq
<1>5. \/ /\ n > 0 => c.lo > p[n].hi
         /\ Len(q) = n + 1 /\ q[n + 1] = c /\ \A i \in 1..n : q[i] = p[i]
      \/ /\ n > 0 /\ c.lo <= p[n].hi /\ c.exact /\ ~p[n].exact
         /\ Len(q) = n /\ q[n] = c /\ \A i \in 1 .. n - 1 : q[i] = p[i]
      \/ /\ n > 0 /\ c.lo <= p[n].hi /\ (c.exact => p[n].exact)
         /\ q = p
  BY <1>0, <1>2, PruneStep
<1> HIDE DEF q, n
<1>6. CASE b <= k
  <2>1. PICK i \in 1..n : p[i] = o[b]
    BY <1>0, <1>6 DEF n
  <2>2. p[i].exact
    BY <1>0, <2>1
  <2>3. CASE /\ Len(q) = n + 1 /\ q[n + 1] = c /\ \A j \in 1..n : q[j] = p[j]
    <3>1. i \in 1..Len(q)
      BY <1>2, <2>3
    <3> QED BY <2>1, <2>3, <3>1 DEF q
  <2>4. CASE /\ ~p[n].exact /\ Len(q) = n /\ \A j \in 1 .. n - 1 : q[j] = p[j]
    <3>1. i # n /\ i \in 1 .. n - 1 /\ i \in 1..Len(q)
      BY <1>2, <2>2, <2>4
    <3> QED BY <2>1, <2>4, <3>1 DEF q
  <2>5. CASE q = p
    BY <2>1, <2>5 DEF q, n
  <2> QED BY <1>5, <2>3, <2>4, <2>5
<1>7. CASE b = k + 1
  <2>1. CASE /\ Len(q) = n + 1 /\ q[n + 1] = c
    <3>1. n + 1 \in 1..Len(q)
      BY <1>2, <2>1
    <3> QED BY <1>7, <2>1, <3>1 DEF q
  <2>2. CASE n > 0 /\ Len(q) = n /\ q[n] = c
    <3>1. n \in 1..Len(q)
      BY <1>2, <2>2
    <3> QED BY <1>7, <2>2, <3>1 DEF q
  <2>3. CASE n > 0 /\ c.lo <= p[n].hi /\ p[n].exact
    <3>1. n \in 1..Len(p)
      BY <1>2, <2>3 DEF n
    <3>2. PICK j \in 1..k : p[n] = o[j]
      BY <1>0, <3>1
    <3>3. j \in 1..Len(o) /\ j < b
      BY <1>1, <1>7
    <3>4. p[n].hi < c.lo
      BY <1>0, <1>7, <2>3, <3>2, <3>3
    <3>5. p[n].hi \in Int /\ c.lo \in Int
      <4>1. o[j] \in Candidate
        BY <1>0, <3>3, ElementOfSeq
      <4>2. o[j].hi \in Int
        BY <4>1, Cylinders
      <4>3. c.lo \in Int
        BY <1>2, Cylinders
      <4> QED BY <3>2, <4>2, <4>3
    <3> QED BY <2>3, <3>4, <3>5
  <2> QED BY <1>0, <1>5, <1>7, <2>1, <2>2, <2>3
<1> QED BY <1>6, <1>7

\* What is pruned from an ordered list.
LEMMA Pruned ==
  ASSUME NEW o, Ascending(o), NEW p, p = Prunes(o, p)
  PROVE  MadeOf(o, p[Len(o)], Len(o)) /\ KeepsFree(o, p[Len(o)], Len(o))
<1> DEFINE N == Len(o)
           T == {k \in Nat : k <= N => MadeOf(o, p[k], k) /\ KeepsFree(o, p[k], k)}
<1>1. N \in Nat
  BY LenProperties DEF Ascending
<1>2. p[0] = <<>> /\ \A i \in 1..N : p[i] = Prune(p[i - 1], o[i])
  <2>1. \A i \in 0..N : p[i] = IF i = 0 THEN <<>> ELSE Prune(p[i - 1], o[i])
    BY DEF Prunes
  <2> HIDE DEF N
  <2> QED BY <1>1, <2>1
<1>3. 0 \in T
  <2>1. p[0] \in Seq(Candidate) /\ Len(p[0]) = 0 /\ 1..Len(p[0]) = {}
    BY <1>2, EmptySeq
  <2>2. \A b \in 1..N : ~(b <= 0)
    BY <1>1
  <2> QED BY <2>1, <2>2 DEF Disjoint, MadeOf, KeepsFree
<1>4. ASSUME NEW k \in Nat, k \in T PROVE k + 1 \in T
  <2> SUFFICES ASSUME k + 1 <= N
               PROVE  MadeOf(o, p[k + 1], k + 1) /\ KeepsFree(o, p[k + 1], k + 1)
    OBVIOUS
  <2>1. MadeOf(o, p[k], k) /\ KeepsFree(o, p[k], k)
    BY <1>1, <1>4
  <2>2. k + 1 \in 1..N /\ (k + 1) - 1 = k
    BY <1>1
  <2>3. p[k + 1] = Prune(p[k], o[k + 1])
    BY <1>2, <2>2
  <2> QED BY <2>1, <2>3, PrunedOnce, KeptOnce
<1>5. N \in T
  <2> HIDE DEF T
  <2> QED BY <1>1, <1>3, <1>4, Induction
<1> QED BY <1>1, <1>5

PartsApart(d) ==
  \A b, c \in Blocks :
    b # c /\ d[b].magic = "PART" /\ d[c].magic = "PART" => Apart(d[b], d[c])
Covered(anchors, p) == \E a \in ToSet(anchors) : a.exact /\ a.lo < p.lo /\ p.lo <= a.hi

\* The scan finds disjoint candidates by their cylinders, each of them a PART
\* block or a root, and if the PART blocks are apart all those that have
\* cylinders, but where an exact root covers the first of them.
LEMMA Scanned ==
  ASSUME NEW d, d \in [Blocks -> Content], NEW anchors, anchors \in Seq(Anchors)
  PROVE  LET s == scan(d, anchors)
         IN  /\ s \in Seq(Candidate) /\ Disjoint(s)
             /\ \A i \in 1..Len(s) : FromScan(d, anchors, s[i])
             /\ PartsApart(d) =>
                  \A b \in 1..RdbHi :
                    /\ d[b].magic = "PART" /\ d[b].lo <= d[b].hi /\ ~Covered(anchors, d[b])
                    => \E i \in 1..Len(s) : s[i] = PartCandidate(d, b)
<1> DEFINE m == CHOOSE f : f = Merges(d, anchors, f)
           M == m[Len(anchors)]
           o == InOrder(M)
           p == CHOOSE f : f = Prunes(o, f)
           s == p[Len(o)]
<1>1. scan(d, anchors) = s
  BY DEF scan, Merges, Prunes
<1>2. m = Merges(d, anchors, m)
  BY MergesDefined
<1> HIDE DEF m
<1>3. /\ \A c \in M : FromScan(d, anchors, c)
      /\ IsFiniteSet(M) /\ Distinct(M) /\ PartCandidates(d) \subseteq M
  BY <1>2, Merged
<1> HIDE DEF M
<1>4. InOrderOf(M, o)
  <2>1. M \subseteq Candidate
    BY <1>3 DEF FromScan
  <2> QED BY <1>3, <2>1, Ordered
<1> HIDE DEF o
<1>5. o \in Seq(Candidate) /\ \A i \in 1..Len(o) : o[i] \in M /\ FromScan(d, anchors, o[i])
  <2>1. o \in Seq(M)
    BY <1>4 DEF InOrderOf
  <2>2. M \subseteq Candidate
    BY <1>3 DEF FromScan
  <2> QED BY <1>3, <2>1, <2>2, SeqMonotonic, ElementOfSeq
<1>6. p = Prunes(o, p)
  BY <1>5, PrunesDefined
<1> HIDE DEF p
<1>7. \A i \in 1..Len(o) : o[i].lo <= o[i].hi + 1
  BY <1>5 DEF FromScan
<1>13. ASSUME NEW i \in 1..Len(o) PROVE o[i].lo \in Int /\ o[i].hi \in Int
  BY <1>5, Cylinders DEF FromScan
<1>8. \A i, j \in 1..Len(o) : i < j => o[i] # o[j] /\ o[i].lo <= o[j].lo
  <2>1. \A i, j \in 1..Len(o) : i < j =>
          o[i] # o[j] /\ (o[i].lo < o[j].lo \/ o[i].lo = o[j].lo)
    BY <1>4 DEF InOrderOf
  <2>2. SUFFICES ASSUME NEW i \in 1..Len(o), NEW j \in 1..Len(o), i < j
                 PROVE  o[i] # o[j] /\ o[i].lo <= o[j].lo
    OBVIOUS
  <2>3. o[i].lo \in Int /\ o[j].lo \in Int
    BY <1>13
  <2>4. o[i] # o[j] /\ (o[i].lo < o[j].lo \/ o[i].lo = o[j].lo)
    BY <2>1, <2>2
  <2> QED BY <2>3, <2>4
<1>14. MadeOf(o, s, Len(o)) /\ KeepsFree(o, s, Len(o))
  <2>1. Ascending(o)
    BY <1>5, <1>7, <1>8 DEF Ascending
  <2> QED BY <1>6, <2>1, Pruned
<1>9. /\ s \in Seq(Candidate) /\ Disjoint(s)
      /\ \A i \in 1..Len(s) : \E j \in 1..Len(o) : s[i] = o[j]
      /\ \A b \in 1..Len(o) : Free(o, b) => \E i \in 1..Len(s) : s[i] = o[b]
  <2>1. \A b \in 1..Len(o) : b <= Len(o)
    BY <1>5, LenProperties
  <2> QED BY <1>14, <2>1 DEF MadeOf, KeepsFree
<1>10. \A i \in 1..Len(s) : FromScan(d, anchors, s[i])
  BY <1>5, <1>9
<1>11. ASSUME PartsApart(d), NEW b \in 1..RdbHi, d[b].magic = "PART", d[b].lo <= d[b].hi,
              ~Covered(anchors, d[b])
       PROVE  \E i \in 1..Len(s) : s[i] = PartCandidate(d, b)
  <2> DEFINE c == PartCandidate(d, b)
  <2>1. /\ c \in M /\ c.exact /\ c.lo = d[b].lo /\ c.hi = d[b].hi /\ c.blk = b
        /\ c.lo \in Int /\ c.hi \in Int
    <3>1. c \in PartCandidates(d)
      BY <1>11, PartsScanned
    <3>2. c.lo \in Int /\ c.hi \in Int
      BY <1>3, <3>1, Cylinders DEF FromScan
    <3> QED BY <1>3, <3>1, <3>2 DEF PartCandidate
  <2>2. PICK k \in 1..Len(o) : o[k] = c
    BY <1>4, <2>1 DEF InOrderOf
  <2>3. ASSUME NEW i \in 1..Len(o), i < k, o[i].exact PROVE o[i].hi < c.lo
    <3>1. /\ o[i] # c /\ (o[i].lo < c.lo \/ (o[i].lo = c.lo /\ o[i].blk < b))
          /\ FromScan(d, anchors, o[i]) /\ o[i].lo \in Int /\ o[i].hi \in Int
      <4>1. \A x, y \in 1..Len(o) : x < y =>
              o[x] # o[y] /\ (o[x].lo < o[y].lo \/ (o[x].lo = o[y].lo /\ o[x].blk < o[y].blk))
        BY <1>4 DEF InOrderOf
      <4>2. o[i] # o[k] /\ (o[i].lo < o[k].lo \/ (o[i].lo = o[k].lo /\ o[i].blk < o[k].blk))
        BY <2>3, <4>1
      <4> QED BY <1>5, <1>13, <2>1, <2>2, <4>2
    <3>2. CASE FromPart(d, o[i])
      <4> DEFINE x == o[i].blk
      <4>1. /\ x \in 1..RdbHi /\ d[x].magic = "PART" /\ o[i] = PartCandidate(d, x)
            /\ o[i].lo = d[x].lo /\ o[i].hi = d[x].hi
        BY <3>2 DEF FromPart, PartCandidate
      <4>2. x # b /\ x \in Blocks /\ b \in Blocks
        BY <3>1, <4>1, Numbers
      <4>3. Apart(d[x], d[b])
        BY <1>11, <4>1, <4>2 DEF PartsApart
      <4>4. o[i].hi < c.lo \/ c.hi < o[i].lo
        BY <2>1, <4>1, <4>3 DEF Apart
      <4> HIDE DEF c, x
      <4> QED BY <1>11, <2>1, <3>1, <4>4
    <3>3. CASE FromRoot(anchors, o[i])
      <4>1. PICK a \in ToSet(anchors) : o[i] = AnchorCandidate(a)
        BY <3>3 DEF FromRoot
      <4>2. /\ o[i].blk = END /\ o[i].lo = a.lo /\ o[i].hi = a.hi /\ a.exact
        BY <2>3, <4>1 DEF AnchorCandidate
      <4>3. ~(o[i].lo < c.lo /\ c.lo <= o[i].hi)
        BY <1>11, <2>1, <4>2 DEF Covered
      <4>4. ~(o[i].blk < b)
        BY <4>2, Numbers
      <4> HIDE DEF c
      <4> QED BY <2>1, <3>1, <4>3, <4>4
    <3> QED BY <3>1, <3>2, <3>3 DEF FromScan
  <2>4. Free(o, k)
    BY <2>1, <2>2, <2>3 DEF Free
  <2> QED BY <1>9, <2>2, <2>4
<1> QED BY <1>1, <1>9, <1>10, <1>11

\* The evidence of a scan are lists of roots.
LEMMA EvidenceLists ==
  ASSUME NEW anchors \in Evidence
  PROVE  anchors \in Seq(Anchors)
<1>1. CASE anchors = <<>>
  BY <1>1, EmptySeq
<1>2. ASSUME NEW a \in Anchors, anchors = <<a>> PROVE anchors \in Seq(Anchors)
  BY <1>2
<1>3. ASSUME NEW e \in Anchors \X Anchors, anchors = e PROVE anchors \in Seq(Anchors)
  <2>1. e = <<e[1], e[2]>> /\ e[1] \in Anchors /\ e[2] \in Anchors
    OBVIOUS
  <2>2. <<e[1], e[2]>> \in Seq(Anchors)
    BY <2>1
  <2> QED BY <1>3, <2>1, <2>2
<1> QED BY <1>1, <1>2, <1>3 DEF Evidence

-----------------------------------------------------------------------------
(* What the commands write *)

\* dirty_blocks lists what changed.
LEMMA DirtyBlocks ==
  ASSUME NEW C, C \subseteq Blocks
  PROVE  /\ dirty_blocks(C) \in Seq(C)
         /\ \A b \in C : \E i \in 1..Len(dirty_blocks(C)) : dirty_blocks(C)[i] = b
<1> DEFINE R == {p \in C \X C : p[1] < p[2]}
<1>1. \A b, c \in C : <<b, c>> \in R <=> b < c
  OBVIOUS
<1>2. \A b \in C : b \in Int
  BY Numbers
<1>3. IsFiniteSet(C)
  <2>1. 0 \in Int /\ RdbHi \in Int /\ C \in SUBSET (0..RdbHi)
    BY Numbers
  <2>2. IsFiniteSet(0..RdbHi)
    BY <2>1, FS_Interval
  <2> QED BY <2>1, <2>2, FS_Subset
<1>4. \A b \in C : <<b, b>> \notin R
  BY <1>1, <1>2
<1>5. \A b, c \in C : b # c => <<b, c>> \in R \/ <<c, b>> \in R
  BY <1>1, <1>2
<1>6. \A b, c, e \in C : <<b, c>> \in R /\ <<c, e>> \in R => <<b, e>> \in R
  BY <1>1, <1>2
<1>7. dirty_blocks(C) = Sorted(C, R)
  BY DEF dirty_blocks
<1> HIDE DEF R
<1> QED BY <1>3, <1>4, <1>5, <1>6, <1>7, SortedOrder

\* The PART blocks of t are PART blocks of d, and describe the same partitions.
SubParts(d, t) ==
  \A b \in Blocks : t[b].magic = "PART" =>
    d[b].magic = "PART" /\ PartRow(t[b]) = PartRow(d[b])

\* The partitions of a table stand in the order of their cylinders.
Rising(R) == \A i, j \in 1..Len(R) : i < j => R[i].hi < R[j].lo

Row == [name : Names, lo : Int, hi : Int]

\* The partitions that rebuild adds are those of the candidates, cut off where
\* they would not be apart; those of PART blocks are what the blocks describe.
LEMMA AddList ==
  ASSUME NEW d, d \in [Blocks -> Content], NEW s, s \in Seq(Candidate), Disjoint(s)
  PROVE  LET a == [i \in DOMAIN s |-> ToAdd(s, i)]
         IN  /\ a \in Seq(Row) /\ Rising(a)
             /\ \A i \in 1..Len(s) : FromPart(d, s[i]) => PartRow(d[s[i].blk]) \in ToSet(a)
<1> DEFINE n == Len(s)
           a == [i \in DOMAIN s |-> ToAdd(s, i)]
<1>1. n \in Nat /\ DOMAIN s = 1..n /\ \A i \in 1..n : s[i] \in Candidate
  BY LenProperties, ElementOfSeq
<1>2. ASSUME NEW i \in 1..n
      PROVE  /\ s[i].name \in Names /\ s[i].lo \in Int /\ s[i].hi \in Int
             /\ i < n => i + 1 \in 1..n /\ s[i + 1].lo \in Int /\ s[i].hi < s[i + 1].lo
             /\ HiCyl \in Int
  <2>1. s[i].name \in Names /\ s[i].lo \in Int /\ s[i].hi \in Int
    BY <1>1, Cylinders DEF Candidate
  <2>2. ASSUME i < n PROVE i + 1 \in 1..n /\ s[i + 1].lo \in Int /\ s[i].hi < s[i + 1].lo
    <3>1. i + 1 \in 1..n /\ i < i + 1
      BY <1>1, <2>2
    <3> QED BY <1>1, <3>1, Cylinders DEF Disjoint
  <2> QED BY <2>1, <2>2, Numbers
<1>3. ASSUME NEW i \in 1..n
      PROVE  \E h \in Int : /\ a[i] = [name |-> s[i].name, lo |-> s[i].lo, hi |-> h]
                           /\ h <= s[i].hi /\ (s[i].hi <= HiCyl => h = s[i].hi)
  <2>1. PICK y : y = IF i < n THEN s[i + 1].lo - 1 ELSE HiCyl
    OBVIOUS
  <2>2. PICK x : x = IF s[i].hi <= HiCyl THEN s[i].hi ELSE HiCyl
    OBVIOUS
  <2>3. PICK h : h = IF x <= y THEN x ELSE y
    OBVIOUS
  <2>4. a[i] = [name |-> s[i].name, lo |-> s[i].lo, hi |-> h]
    BY <1>1, <2>1, <2>2, <2>3 DEF ToAdd
  <2>5. y \in Int /\ (s[i].hi <= HiCyl => s[i].hi <= y)
    <3> HIDE DEF n, a
    <3> QED BY <1>1, <1>2, <2>1
  <2>6. h \in Int /\ h <= s[i].hi /\ (s[i].hi <= HiCyl => h = s[i].hi)
    <3> HIDE DEF n, a
    <3> QED BY <1>2, <2>2, <2>3, <2>5
  <2> QED BY <2>4, <2>6
<1> HIDE DEF n, a
<1>4. ASSUME NEW i \in 1..n
      PROVE  /\ a[i] \in Row /\ a[i].lo = s[i].lo /\ a[i].hi <= s[i].hi /\ a[i].hi \in Int
             /\ s[i].hi <= HiCyl => a[i].hi = s[i].hi
  <2>1. PICK h \in Int : /\ a[i] = [name |-> s[i].name, lo |-> s[i].lo, hi |-> h]
                        /\ h <= s[i].hi /\ (s[i].hi <= HiCyl => h = s[i].hi)
    BY <1>3
  <2>2. a[i].lo = s[i].lo /\ a[i].hi = h
    BY <2>1
  <2>3. a[i] \in Row
    BY <1>2, <2>1 DEF Row
  <2>4. a[i].hi <= s[i].hi /\ (s[i].hi <= HiCyl => a[i].hi = s[i].hi)
    BY <2>1, <2>2
  <2> QED BY <2>2, <2>3, <2>4
<1>5. DOMAIN a = 1..n /\ a \in Seq(Row) /\ Len(a) = n
  <2>1. a = [i \in 1..n |-> a[i]]
    BY <1>1 DEF a
  <2>2. a \in [1..n -> Row]
    BY <1>4, <2>1
  <2> QED BY <1>1, <2>2
<1>6. Rising(a)
  <2>1. ASSUME NEW i \in 1..n, NEW j \in 1..n, i < j PROVE a[i].hi < a[j].lo
    <3>1. s[i].hi < s[j].lo
      BY <2>1 DEF Disjoint, n
    <3> QED BY <1>2, <1>4, <3>1
  <2> QED BY <1>5, <2>1 DEF Rising
<1>7. ASSUME NEW i \in 1..n, FromPart(d, s[i]) PROVE PartRow(d[s[i].blk]) \in ToSet(a)
  <2>1. /\ s[i].blk \in Blocks /\ d[s[i].blk] \in Content /\ d[s[i].blk].magic = "PART"
        /\ s[i].name = d[s[i].blk].name
        /\ s[i].lo = d[s[i].blk].lo /\ s[i].hi = d[s[i].blk].hi
    BY <1>7, Numbers DEF FromPart, PartCandidate
  <2>2. s[i].hi <= HiCyl
    <3>1. d[s[i].blk].hi \in (LoCyl - 1)..HiCyl
      BY <2>1, PartTyped
    <3> QED BY <1>2, <2>1, <3>1, Numbers
  <2>3. a[i].hi = s[i].hi
    BY <1>4, <2>2
  <2>4. a[i] = PartRow(d[s[i].blk])
    <3>1. PICK h \in Int : a[i] = [name |-> s[i].name, lo |-> s[i].lo, hi |-> h]
      BY <1>3
    <3>2. h = s[i].hi
      BY <2>3, <3>1
    <3> QED BY <2>1, <3>1, <3>2 DEF PartRow
  <2> QED BY <1>5, <2>4 DEF ToSet
<1> QED BY <1>5, <1>6, <1>7 DEF a, n
=============================================================================
