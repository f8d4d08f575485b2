----------------------------- MODULE RDiskProofs -----------------------------
(***************************************************************************)
(* For every area, every range of cylinders and all names and drivers: the *)
(* partition table of rdisk.py can be read at every instant, whatever was  *)
(* added and deleted before and wherever calls were cut off, its drivers   *)
(* are whole, and every call takes effect at one write.                    *)
(*                                                                         *)
(* The argument.  The chains are given as sequences of blocks (Chain), and *)
(* a walk finds just these (ChainWalk).  A call first writes blocks that   *)
(* no chain has (Frame), then makes one write that brings the chains from  *)
(* before the call to after it (AppendPart, RemovePart, AppendDriver), and *)
(* what it still writes then concerns no chain; StageInv says which writes *)
(* are still to come.  Chains of different kinds have no block in common   *)
(* because each block has one magic, and those of different drivers none   *)
(* because each chunk names its driver.                                    *)
(***************************************************************************)
EXTENDS RDisk, FiniteSetTheorems, SequenceTheorems, WellFoundedInduction, TLAPS

-----------------------------------------------------------------------------
(* Walks *)

\* Where the i-th link of a chain of blocks w leads to.
Link(w, i) == IF i <= Len(w) THEN w[i] ELSE END

\* The blocks w are a chain of this magic from first to END.
Chain(d, first, magic, w) ==
  /\ w \in Seq(Blocks)
  /\ \A i, j \in 1..Len(w) : w[i] = w[j] => i = j
  /\ first = Link(w, 1)
  /\ \A i \in 1..Len(w) : d[w[i]].magic = magic /\ d[w[i]].next = Link(w, i + 1)

\* What holds of 0 and of the successor of each number it holds of.
LEMMA Induction ==
  ASSUME NEW T, 0 \in T, \A n \in Nat : n \in T => n + 1 \in T
  PROVE  \A n \in Nat : n \in T
<1> DEFINE C == {n \in Nat : n \notin T}
<1> SUFFICES ASSUME C # {} PROVE FALSE
  OBVIOUS
<1>1. PICK x \in C : \A y \in C : ~(<<y, x>> \in OpToRel(<,Nat))
  <2> C \subseteq Nat
    OBVIOUS
  <2> HIDE DEF C
  <2> QED BY NatLessThanWellFounded, WFMin
<1>2. \A y \in C : ~(y < x)
  BY <1>1 DEF OpToRel
<1>3. x \in Nat /\ x \notin T /\ x # 0 /\ x - 1 \in Nat
  BY SMT
<1>4. x - 1 \in T
  BY <1>2, <1>3, SMT
<1>5. (x - 1) + 1 = x
  BY <1>3, SMT
<1> QED BY <1>3, <1>4, <1>5

\* The walks of at most n blocks, from those of one block less.
Layer(d, magic, g) ==
  [b \in BlockNums |-> IF b = END \/ d[b].magic # magic THEN <<>>
                       ELSE <<b>> \o g[d[b].next]]
Layers(d, magic, f, k) ==
  [n \in 0..k |-> IF n = 0 THEN [b \in BlockNums |-> <<>>]
                  ELSE Layer(d, magic, f[n - 1])]

\* There is a function that the recursion of Walk defines.
LEMMA WalkDefined ==
  ASSUME NEW d, NEW magic
  PROVE  \E f : /\ f = Layers(d, magic, f, RdbHi + 1)
                /\ \A first \in BlockNums :
                     Walk(d, first, magic) = f[RdbHi + 1][first]
<1> DEFINE T == {k \in Nat : \E f : f = Layers(d, magic, f, k)}
<1>1. 0 \in T
  <2> DEFINE g == [n \in 0..0 |-> [b \in BlockNums |-> <<>>]]
  <2>1. g = Layers(d, magic, g, 0)
    BY DEF Layers
  <2> QED BY <2>1
<1>2. ASSUME NEW k \in Nat, k \in T PROVE k + 1 \in T
  <2>1. PICK f : f = Layers(d, magic, f, k)
    BY <1>2
  <2> DEFINE g == [n \in 0..k+1 |-> IF n <= k THEN f[n] ELSE Layer(d, magic, f[k])]
  <2>2. ASSUME NEW n \in 0..k+1
        PROVE  g[n] = IF n = 0 THEN [b \in BlockNums |-> <<>>]
                      ELSE Layer(d, magic, g[n - 1])
    <3>1. CASE n = 0
      <4>1. 0 \in 0..k /\ g[n] = f[0]
        BY <3>1
      <4>2. f[0] = [b \in BlockNums |-> <<>>]
        BY <2>1, <4>1 DEF Layers
      <4> QED BY <3>1, <4>1, <4>2
    <3>2. CASE n # 0 /\ n <= k
      <4>1. n \in 0..k /\ n - 1 \in 0..k /\ n - 1 \in 0..k+1 /\ n - 1 <= k
        BY <3>2
      <4>2. g[n] = f[n] /\ g[n - 1] = f[n - 1]
        BY <3>2, <4>1
      <4>3. f[n] = Layer(d, magic, f[n - 1])
        BY <2>1, <3>2, <4>1 DEF Layers
      <4> QED BY <3>2, <4>2, <4>3
    <3>3. CASE n = k + 1
      <4>1. k \in 0..k+1 /\ g[k] = f[k] /\ n - 1 = k /\ n # 0
        BY <3>3
      <4>2. g[n] = Layer(d, magic, f[k])
        BY <3>3
      <4> QED BY <4>1, <4>2
    <3> QED BY <3>1, <3>2, <3>3
  <2>3. g = Layers(d, magic, g, k + 1)
    <3> HIDE DEF g
    <3>1. g = [n \in 0..k+1 |-> g[n]]
      BY DEF g
    <3> QED BY <2>2, <3>1 DEF Layers
  <2>4. k + 1 \in Nat
    OBVIOUS
  <2> QED BY <2>3, <2>4
<1>3. RdbHi + 1 \in T
  <2>1. RdbHi + 1 \in Nat
    BY AreaAssumption, SMT
  <2> HIDE DEF T
  <2> QED BY <1>1, <1>2, <2>1, Induction
<1>4. PICK h : h = Layers(d, magic, h, RdbHi + 1)
  BY <1>3
<1> DEFINE F == CHOOSE f : f = Layers(d, magic, f, RdbHi + 1)
<1>5. F = Layers(d, magic, F, RdbHi + 1)
  BY <1>4
<1>6. ASSUME NEW first \in BlockNums
      PROVE  Walk(d, first, magic) = F[RdbHi + 1][first]
  BY DEF Walk, Layers, Layer
<1> HIDE DEF F
<1> QED BY <1>5, <1>6

\* No chain is longer than the area.
LEMMA ChainLength ==
  ASSUME NEW d, NEW first, NEW magic, NEW w, Chain(d, first, magic, w)
  PROVE  Len(w) \in Nat /\ Len(w) <= RdbHi + 1
<1>1. w \in Seq(Blocks) /\ Len(w) \in Nat /\ w \in [1..Len(w) -> Blocks]
  BY LenProperties DEF Chain
<1>2. w \in Injection(1..Len(w), Blocks)
  BY <1>1 DEF Chain, Injection, IsInjective
<1>3. IsFiniteSet(Blocks) /\ Cardinality(Blocks) = RdbHi + 1
  <2>1. 0 \in Int /\ RdbHi \in Int /\ 0 <= RdbHi
    BY AreaAssumption, SMT
  <2>2. IsFiniteSet(0..RdbHi) /\ Cardinality(0..RdbHi) = RdbHi - 0 + 1
    BY <2>1, FS_Interval
  <2> QED BY <2>1, <2>2, SMT DEF Blocks
<1>4. Cardinality(1..Len(w)) <= Cardinality(Blocks)
  BY <1>2, <1>3, FS_Injection
<1>5. Cardinality(1..Len(w)) = Len(w)
  BY <1>1, FS_Interval, SMTT(30)
<1> QED BY <1>1, <1>3, <1>4, <1>5

\* A walk finds the chain that there is, and comes to its end.
LEMMA ChainWalk ==
  ASSUME NEW d, NEW first, NEW magic, NEW w, Chain(d, first, magic, w)
  PROVE  Walk(d, first, magic) = w /\ Ends(d, first, magic)
<1>1. /\ w \in Seq(Blocks) /\ Len(w) \in Nat /\ Len(w) <= RdbHi + 1
      /\ \A i \in 1..Len(w) : w[i] \in Blocks
      /\ RdbHi \in Nat
  BY ChainLength, AreaAssumption, ElementOfSeq DEF Chain
<1>2. PICK f : /\ f = Layers(d, magic, f, RdbHi + 1)
               /\ \A b \in BlockNums : Walk(d, b, magic) = f[RdbHi + 1][b]
  BY WalkDefined
<1>3. \A b \in Blocks : b \in BlockNums /\ b # END
  BY <1>1, SMT DEF Blocks, BlockNums, END
<1> DEFINE N == RdbHi + 1
           T == {n \in Nat : n <= N =>
                   \A i \in 1 .. Len(w) + 1 :
                     Len(w) + 1 - i <= n => f[n][Link(w, i)] = SubSeq(w, i, Len(w))}
<1>4. \A n \in Nat : n <= N => f[n][END] = <<>>
  <2> TAKE n \in Nat
  <2> HAVE n <= N
  <2>1. n \in 0..N /\ END \in BlockNums
    BY <1>1, SMT DEF BlockNums
  <2> QED BY <1>2, <2>1 DEF Layers, Layer
<1>5. SubSeq(w, Len(w) + 1, Len(w)) = <<>> /\ Link(w, Len(w) + 1) = END
  BY <1>1, SubSeqEmpty, SMT DEF Link
<1>6. 0 \in T
  <2> SUFFICES ASSUME NEW i \in 1 .. Len(w) + 1, Len(w) + 1 - i <= 0
               PROVE  f[0][Link(w, i)] = SubSeq(w, i, Len(w))
    BY <1>1
  <2>1. i = Len(w) + 1
    BY <1>1, SMT
  <2>2. Link(w, i) = END /\ SubSeq(w, i, Len(w)) = <<>>
    BY <1>5, <2>1
  <2>3. f[0][END] = <<>>
    BY <1>1, <1>4
  <2> QED BY <2>2, <2>3
<1>7. ASSUME NEW n \in Nat, n \in T PROVE n + 1 \in T
  <2> SUFFICES ASSUME n + 1 <= N, NEW i \in 1 .. Len(w) + 1, Len(w) + 1 - i <= n + 1
               PROVE  f[n + 1][Link(w, i)] = SubSeq(w, i, Len(w))
    OBVIOUS
  <2>1. CASE i = Len(w) + 1
    <3>1. Link(w, i) = END /\ SubSeq(w, i, Len(w)) = <<>>
      BY <1>5, <2>1
    <3>2. f[n + 1][END] = <<>>
      BY <1>4
    <3> QED BY <3>1, <3>2
  <2>2. CASE i # Len(w) + 1
    <3>1. /\ i \in 1..Len(w) /\ i + 1 \in 1 .. Len(w) + 1
          /\ Len(w) + 1 - (i + 1) <= n /\ n <= N
      BY <1>1, <2>2, SMT
    <3>2. Link(w, i) = w[i] /\ w[i] \in BlockNums /\ w[i] # END
      BY <1>1, <1>3, <3>1, SMT DEF Link
    <3>3. d[w[i]].magic = magic /\ d[w[i]].next = Link(w, i + 1)
      BY <3>1 DEF Chain
    <3>4. f[n + 1] = Layer(d, magic, f[n])
      <4>1. n + 1 \in 0..N /\ n + 1 # 0 /\ (n + 1) - 1 = n
        BY <1>1, SMT
      <4> QED BY <1>2, <4>1 DEF Layers
    <3>5. f[n + 1][w[i]] = <<w[i]>> \o f[n][Link(w, i + 1)]
      BY <3>2, <3>3, <3>4 DEF Layer
    <3>6. f[n][Link(w, i + 1)] = SubSeq(w, i + 1, Len(w))
      BY <1>7, <3>1
    <3>7. <<w[i]>> \o SubSeq(w, i + 1, Len(w)) = SubSeq(w, i, Len(w))
      <4>1. Len(w) \in i .. Len(w)
        BY <1>1, <3>1, SMT
      <4> QED BY <1>1, <3>1, <4>1, SubSeqRecursiveFirst
    <3> QED BY <3>2, <3>5, <3>6, <3>7
  <2> QED BY <2>1, <2>2
<1>8. N \in T
  <2>1. N \in Nat
    BY <1>1
  <2> HIDE DEF T, N
  <2> QED BY <1>6, <1>7, <2>1, Induction
<1>9. first \in BlockNums /\ f[N][first] = SubSeq(w, 1, Len(w))
  <2>1. 1 \in 1 .. Len(w) + 1 /\ Len(w) + 1 - 1 <= N /\ first = Link(w, 1)
    BY <1>1 DEF Chain
  <2>2. Link(w, 1) \in BlockNums
    BY <1>1, <1>3, SMT DEF Link, BlockNums
  <2> QED BY <1>8, <2>1, <2>2
<1>10. Walk(d, first, magic) = w
  BY <1>1, <1>2, <1>9, SubSeqFull
<1>11. Ends(d, first, magic)
  <2>1. CASE w = <<>>
    <3>1. first = END
      BY <2>1 DEF Chain, Link
    <3> QED BY <1>10, <2>1, <3>1 DEF Ends
  <2>2. CASE w # <<>>
    <3>1. Len(w) \in 1..Len(w)
      BY <1>1, <2>2, EmptySeq, SMT
    <3>2. d[w[Len(w)]].next = END
      BY <1>5, <3>1 DEF Chain
    <3> QED BY <1>10, <2>2, <3>2 DEF Ends, Last
  <2> QED BY <2>1, <2>2
<1> QED BY <1>10, <1>11

-----------------------------------------------------------------------------
(* Changes of a chain *)

\* A chain depends on the kind and the links of its blocks only.
LEMMA ChainSame ==
  ASSUME NEW d, NEW e, NEW first, NEW magic, NEW w, Chain(d, first, magic, w),
         \A i \in 1..Len(w) : e[w[i]].magic = d[w[i]].magic /\ e[w[i]].next = d[w[i]].next
  PROVE  Chain(e, first, magic, w)
BY DEF Chain

\* A block is linked to the end of a chain.
LEMMA ChainAppend ==
  ASSUME NEW d, NEW e, NEW first, NEW magic, NEW w, Chain(d, first, magic, w),
         NEW b \in Blocks, \A i \in 1..Len(w) : w[i] # b,
         e[b].magic = magic, e[b].next = END,
         \A i \in 1..Len(w) : /\ e[w[i]].magic = d[w[i]].magic
                              /\ e[w[i]].next = IF i = Len(w) THEN b ELSE d[w[i]].next
  PROVE  Chain(e, IF first = END THEN b ELSE first, magic, Append(w, b))
<1> DEFINE v == Append(w, b)
<1>1. w \in Seq(Blocks) /\ Len(w) \in Nat /\ \A i \in 1..Len(w) : w[i] \in Blocks /\ w[i] # END
  <2>1. \A c \in Blocks : c # END
    BY AreaAssumption, SMT DEF Blocks, END
  <2> QED BY <2>1, LenProperties, ElementOfSeq DEF Chain
<1>2. /\ v \in Seq(Blocks) /\ Len(v) = Len(w) + 1
      /\ \A i \in 1..Len(w) : v[i] = w[i]
      /\ v[Len(w) + 1] = b
  BY <1>1, AppendProperties
<1> HIDE DEF v
<1>3. ASSUME NEW i \in 1..Len(v), NEW j \in 1..Len(v), v[i] = v[j] PROVE i = j
  <2>1. CASE i <= Len(w) /\ j <= Len(w)
    <3>1. i \in 1..Len(w) /\ j \in 1..Len(w)
      BY <1>1, <1>2, <2>1
    <3>2. w[i] = w[j]
      BY <1>2, <1>3, <3>1
    <3> QED BY <3>1, <3>2 DEF Chain
  <2>2. CASE i = Len(w) + 1 /\ j <= Len(w)
    <3>1. j \in 1..Len(w) /\ v[j] = w[j] /\ v[i] = b
      BY <1>1, <1>2, <2>2
    <3> QED BY <1>3, <3>1
  <2>3. CASE i <= Len(w) /\ j = Len(w) + 1
    <3>1. i \in 1..Len(w) /\ v[i] = w[i] /\ v[j] = b
      BY <1>1, <1>2, <2>3
    <3> QED BY <1>3, <3>1
  <2>4. i <= Len(w) \/ i = Len(w) + 1
    BY <1>1, <1>2
  <2>5. j <= Len(w) \/ j = Len(w) + 1
    BY <1>1, <1>2
  <2>6. i = Len(w) + 1 /\ j = Len(w) + 1 => i = j
    OBVIOUS
  <2> QED BY <2>1, <2>2, <2>3, <2>4, <2>5, <2>6
<1>4. (IF first = END THEN b ELSE first) = Link(v, 1)
  <2>1. CASE Len(w) = 0
    BY <1>1, <1>2, <2>1, SMT DEF Chain, Link
  <2>2. CASE Len(w) # 0
    <3>1. 1 \in 1..Len(w) /\ 1 <= Len(v)
      BY <1>1, <1>2, <2>2
    <3>2. first = w[1] /\ first # END /\ v[1] = w[1]
      BY <1>1, <1>2, <3>1 DEF Chain, Link
    <3> QED BY <3>1, <3>2 DEF Link
  <2> QED BY <2>1, <2>2
<1>5. ASSUME NEW i \in 1..Len(v)
      PROVE  e[v[i]].magic = magic /\ e[v[i]].next = Link(v, i + 1)
  <2>1. CASE i = Len(w) + 1
    <3>1. v[i] = b /\ Link(v, i + 1) = END
      BY <1>1, <1>2, <2>1 DEF Link
    <3> QED BY <3>1
  <2>2. CASE i = Len(w) /\ i # Len(w) + 1
    <3>1. i \in 1..Len(w) /\ v[i] = w[i] /\ Link(v, i + 1) = b
      BY <1>1, <1>2, <2>2 DEF Link
    <3> QED BY <2>2, <3>1 DEF Chain
  <2>3. CASE i < Len(w)
    <3>1. i \in 1..Len(w) /\ i + 1 \in 1..Len(w) /\ i # Len(w) /\ v[i] = w[i]
      BY <1>1, <1>2, <2>3
    <3>2. Link(v, i + 1) = Link(w, i + 1)
      BY <1>1, <1>2, <3>1 DEF Link
    <3> QED BY <3>1, <3>2 DEF Chain
  <2> QED BY <1>1, <1>2, <2>1, <2>2, <2>3
<1>6. Chain(e, IF first = END THEN b ELSE first, magic, v)
  BY <1>2, <1>3, <1>4, <1>5 DEF Chain
<1> QED BY <1>6 DEF v

\* What RemoveAt leaves at each place.
LEMMA Removed ==
  ASSUME NEW T, NEW w \in Seq(T), NEW i \in 1..Len(w)
  PROVE  /\ RemoveAt(w, i) \in Seq(T) /\ Len(RemoveAt(w, i)) = Len(w) - 1
         /\ \A j \in 1 .. Len(w) - 1 :
              RemoveAt(w, i)[j] = IF j < i THEN w[j] ELSE w[j + 1]
<1> DEFINE l == SubSeq(w, 1, i - 1)
           r == SubSeq(w, i + 1, Len(w))
<1>0. Len(w) \in Nat /\ \A j \in 1..Len(w) : w[j] \in T
  BY LenProperties, ElementOfSeq
<1>1. l \in Seq(T) /\ Len(l) = i - 1 /\ \A j \in 1 .. i - 1 : l[j] = w[j]
  BY <1>0, SMT
<1>2. r \in Seq(T) /\ Len(r) = Len(w) - i /\ \A j \in 1 .. Len(w) - i : r[j] = w[i + j]
  BY <1>0, SMT
<1>3. RemoveAt(w, i) = l \o r
  BY DEF RemoveAt
<1> HIDE DEF l, r
<1>4. /\ l \o r \in Seq(T) /\ Len(l \o r) = Len(l) + Len(r)
      /\ \A j \in 1 .. Len(l) + Len(r) : (l \o r)[j] = IF j <= Len(l) THEN l[j] ELSE r[j - Len(l)]
  BY <1>1, <1>2, ConcatProperties
<1>5. ASSUME NEW j \in 1 .. Len(w) - 1
      PROVE  (l \o r)[j] = IF j < i THEN w[j] ELSE w[j + 1]
  <2>1. j \in 1 .. Len(l) + Len(r)
    BY <1>0, <1>1, <1>2
  <2>2. CASE j < i
    BY <1>0, <1>1, <1>4, <2>1, <2>2, SMT
  <2>3. CASE ~(j < i)
    <3>1. j - Len(l) \in 1 .. Len(w) - i /\ i + (j - Len(l)) = j + 1 /\ ~(j <= Len(l))
      BY <1>0, <1>1, <2>3
    <3>2. r[j - Len(l)] = w[j + 1]
      BY <1>2, <3>1
    <3> QED BY <1>4, <2>1, <2>3, <3>1, <3>2
  <2> QED BY <2>2, <2>3
<1>6. Len(l) + Len(r) = Len(w) - 1
  BY <1>0, <1>1, <1>2
<1> QED BY <1>3, <1>4, <1>5, <1>6

\* The block before the i-th skips it.
LEMMA ChainRemove ==
  ASSUME NEW d, NEW e, NEW first, NEW magic, NEW w, Chain(d, first, magic, w),
         NEW i \in 1..Len(w),
         \A j \in 1..Len(w) : j # i =>
           /\ e[w[j]].magic = d[w[j]].magic
           /\ e[w[j]].next = IF j = i - 1 THEN d[w[i]].next ELSE d[w[j]].next
  PROVE  Chain(e, IF i = 1 THEN d[w[1]].next ELSE first, magic, RemoveAt(w, i))
<1> DEFINE v == RemoveAt(w, i)
<1>1. w \in Seq(Blocks) /\ Len(w) \in Nat
  BY LenProperties DEF Chain
<1>2. /\ v \in Seq(Blocks) /\ Len(v) = Len(w) - 1
      /\ \A j \in 1 .. Len(w) - 1 : v[j] = IF j < i THEN w[j] ELSE w[j + 1]
  BY <1>1, Removed
<1> HIDE DEF v
<1>3. ASSUME NEW j \in 1..Len(v), NEW k \in 1..Len(v), v[j] = v[k] PROVE j = k
  <2> DEFINE jj == IF j < i THEN j ELSE j + 1
             kk == IF k < i THEN k ELSE k + 1
  <2>1. jj \in 1..Len(w) /\ kk \in 1..Len(w)
    BY <1>1, <1>2, SMT
  <2>2. v[j] = w[jj] /\ v[k] = w[kk]
    BY <1>1, <1>2, SMT
  <2>3. jj = kk
    BY <1>3, <2>1, <2>2 DEF Chain
  <2> QED BY <2>3, SMT
<1>4. (IF i = 1 THEN d[w[1]].next ELSE first) = Link(v, 1)
  <2>1. CASE i = 1
    <3>1. d[w[1]].next = Link(w, 2)
      BY <2>1 DEF Chain
    <3>2. Link(w, 2) = Link(v, 1)
      BY <1>1, <1>2, <2>1, SMT DEF Link
    <3> QED BY <2>1, <3>1, <3>2
  <2>2. CASE i # 1
    <3>1. 1 \in 1 .. Len(w) - 1 /\ 1 < i
      BY <1>1, <2>2
    <3>2. v[1] = w[1] /\ Link(v, 1) = w[1] /\ Link(w, 1) = w[1]
      BY <1>1, <1>2, <3>1 DEF Link
    <3> QED BY <2>2, <3>2 DEF Chain
  <2> QED BY <2>1, <2>2
<1>5. ASSUME NEW j \in 1..Len(v)
      PROVE  e[v[j]].magic = magic /\ e[v[j]].next = Link(v, j + 1)
  <2>1. CASE j >= i
    <3>1. v[j] = w[j + 1] /\ j + 1 \in 1..Len(w) /\ j + 1 # i /\ j + 1 # i - 1
      BY <1>1, <1>2, <2>1
    <3> DEFINE k == j + 1
    <3>2. e[v[j]].magic = magic /\ e[v[j]].next = Link(w, j + 2)
      <4>1. v[j] = w[k] /\ k \in 1..Len(w) /\ k # i /\ k # i - 1 /\ k + 1 = j + 2
        BY <3>1
      <4> HIDE DEF k
      <4>2. e[w[k]].magic = d[w[k]].magic /\ e[w[k]].next = d[w[k]].next
        BY <4>1
      <4>3. d[w[k]].magic = magic /\ d[w[k]].next = Link(w, k + 1)
        BY <4>1 DEF Chain
      <4> QED BY <4>1, <4>2, <4>3
    <3>3. Link(w, j + 2) = Link(v, j + 1)
      <4>1. CASE j + 1 <= Len(v)
        <5>1. j + 1 \in 1..Len(w) - 1 /\ ~(j + 1 < i) /\ j + 2 <= Len(w)
          BY <1>1, <1>2, <2>1, <4>1
        <5>2. v[j + 1] = w[j + 2]
          BY <1>2, <5>1
        <5> QED BY <4>1, <5>1, <5>2 DEF Link
      <4>2. CASE ~(j + 1 <= Len(v))
        <5>1. ~(j + 2 <= Len(w))
          BY <1>1, <1>2, <4>2
        <5> QED BY <4>2, <5>1 DEF Link
      <4> QED BY <4>1, <4>2
    <3> QED BY <3>2, <3>3
  <2>2. CASE j = i - 1
    <3>1. v[j] = w[j] /\ j \in 1..Len(w) /\ j # i /\ i \in 1..Len(w)
      BY <1>1, <1>2, <2>2
    <3>2. e[v[j]].magic = magic /\ e[v[j]].next = d[w[i]].next
      BY <2>2, <3>1 DEF Chain
    <3>3. d[w[i]].next = Link(w, i + 1)
      BY DEF Chain
    <3>4. Link(w, i + 1) = Link(v, j + 1)
      BY <1>1, <1>2, <2>2, SMT DEF Link
    <3> QED BY <3>2, <3>3, <3>4
  <2>3. CASE j < i - 1
    <3>1. v[j] = w[j] /\ j \in 1..Len(w) /\ j # i /\ j # i - 1
      BY <1>1, <1>2, <2>3
    <3>2. e[v[j]].magic = magic /\ e[v[j]].next = Link(w, j + 1)
      BY <3>1 DEF Chain
    <3>3. Link(w, j + 1) = Link(v, j + 1)
      BY <1>1, <1>2, <2>3, SMTT(30) DEF Link
    <3> QED BY <3>2, <3>3
  <2> QED BY <1>1, <1>2, <2>1, <2>2, <2>3
<1>6. Chain(e, IF i = 1 THEN d[w[1]].next ELSE first, magic, v)
  BY <1>2, <1>3, <1>4, <1>5 DEF Chain
<1> QED BY <1>6 DEF v

-----------------------------------------------------------------------------
(* Tables *)

Apart(p, q) == p.hi < q.lo \/ q.hi < p.lo

\* The RDSK block and the chains of the image d: partitions P, drivers F, and
\* for each driver the chunks of its code.
PartTable(d, P) ==
  /\ Chain(d, d[RDSK].partition_list, "PART", P)
  /\ \A i, j \in 1..Len(P) : i # j => Apart(d[P[i]], d[P[j]])
Chunks(d, b, w) ==
  /\ Chain(d, d[b].seg_list, "LSEG", w)
  /\ Len(w) \in DriverSizes
  /\ \A k \in 1..Len(w) : d[w[k]].of = d[b].dos_type /\ d[w[k]].chunk = k
DriverTable(d, F, S) ==
  /\ Chain(d, d[RDSK].fs_header_list, "FSHD", F)
  /\ \A i, j \in 1..Len(F) : i # j => d[F[i]].dos_type # d[F[j]].dos_type
  /\ S \in Seq(Seq(Blocks)) /\ Len(S) = Len(F)
  /\ \A i \in 1..Len(F) : Chunks(d, F[i], S[i])
IsTable(d, P, F, S) ==
  /\ d \in [Blocks -> Content] /\ d[RDSK].magic = "RDSK"
  /\ PartTable(d, P)
  /\ DriverTable(d, F, S)

\* The blocks of a table.
Used(P, F, S) ==
  {b \in Blocks : \/ b = RDSK
                  \/ \E i \in 1..Len(P) : b = P[i]
                  \/ \E i \in 1..Len(F) : b = F[i] \/ \E k \in 1..Len(S[i]) : b = S[i][k]}

\* The kinds of blocks have different fields.
LEMMA Kinds ==
  ASSUME NEW c \in Content
  PROVE  /\ c.magic = "RDSK" => c \in [magic : {"RDSK"}, partition_list : BlockNums,
                                       fs_header_list : BlockNums, high_rdsk_block : Blocks]
         /\ c.magic = "PART" => c \in [magic : {"PART"}, next : BlockNums, name : Names,
                                       lo : LoCyl..(HiCyl + 1), hi : (LoCyl - 1)..HiCyl]
                               /\ c.lo <= c.hi + 1
         /\ c.magic = "FSHD" => c \in [magic : {"FSHD"}, next : BlockNums,
                                       dos_type : DosTypes, seg_list : BlockNums]
BY DEF Content, Blank

\* A block with another link.
Linked(c, b) == [c EXCEPT !.next = b]

\* LinkedBlock, a block is otherwise what it was.
LEMMA LinkedBlock ==
  ASSUME NEW c \in Content, c.magic \in {"PART", "FSHD"}, NEW b \in BlockNums
  PROVE  LET n == Linked(c, b)
         IN  /\ n \in Content /\ n.magic = c.magic /\ n.next = b
             /\ c.magic = "PART" => n.name = c.name /\ n.lo = c.lo /\ n.hi = c.hi
             /\ c.magic = "FSHD" => n.dos_type = c.dos_type /\ n.seg_list = c.seg_list
<1>1. CASE c.magic = "PART"
  BY <1>1, Kinds DEF Content, Linked
<1>2. CASE c.magic = "FSHD"
  BY <1>2, Kinds DEF Content, Linked
<1> QED BY <1>1, <1>2

\* A chain has no END in it, and begins with END if it is empty.
LEMMA ChainBlocks ==
  ASSUME NEW d, NEW first, NEW magic, NEW w, Chain(d, first, magic, w)
  PROVE  /\ w \in Seq(Blocks) /\ Len(w) \in Nat
         /\ \A i \in 1..Len(w) : w[i] \in Blocks /\ w[i] # END
         /\ first = END <=> w = <<>>
         /\ w = <<>> <=> Len(w) = 0
         /\ first \in BlockNums
<1>1. w \in Seq(Blocks) /\ Len(w) \in Nat /\ \A i \in 1..Len(w) : w[i] \in Blocks
  BY LenProperties, ElementOfSeq DEF Chain
<1>2. \A c \in Blocks : c # END
  BY AreaAssumption, SMT DEF Blocks, END
<1>3. w = <<>> <=> Len(w) = 0
  BY <1>1, EmptySeq
<1>4. first = IF 1 <= Len(w) THEN w[1] ELSE END
  BY DEF Chain, Link
<1>5. Len(w) # 0 => first \in Blocks /\ first # END
  BY <1>1, <1>2, <1>4
<1>6. Len(w) = 0 => first = END
  BY <1>4
<1> QED BY <1>1, <1>2, <1>3, <1>5, <1>6 DEF BlockNums

\* What a program reads of a table.
LEMMA TableRead ==
  ASSUME NEW d, NEW P, NEW F, NEW S, IsTable(d, P, F, S)
  PROVE  /\ PartChain(d) = P /\ FsChain(d) = F /\ Readable(d)
         /\ \A i \in 1..Len(F) : /\ SegChain(d, d[F[i]]) = S[i]
                                 /\ Ends(d, d[F[i]].seg_list, "LSEG")
<1>1. /\ Walk(d, d[RDSK].partition_list, "PART") = P
      /\ Ends(d, d[RDSK].partition_list, "PART")
  BY ChainWalk DEF IsTable, PartTable
<1>2. /\ Walk(d, d[RDSK].fs_header_list, "FSHD") = F
      /\ Ends(d, d[RDSK].fs_header_list, "FSHD")
  BY ChainWalk DEF IsTable, DriverTable
<1>3. ASSUME NEW i \in 1..Len(F)
      PROVE  SegChain(d, d[F[i]]) = S[i] /\ Ends(d, d[F[i]].seg_list, "LSEG")
  <2>1. Chain(d, d[F[i]].seg_list, "LSEG", S[i])
    BY DEF IsTable, DriverTable, Chunks
  <2> QED BY <2>1, ChainWalk DEF SegChain
<1> QED BY <1>1, <1>2, <1>3 DEF PartChain, FsChain, Readable, HasTable, IsTable

\* Where the blocks of a table are.
LEMMA TableBlocks ==
  ASSUME NEW d, NEW P, NEW F, NEW S, IsTable(d, P, F, S)
  PROVE  /\ RDSK \in Used(P, F, S)
         /\ P \in Seq(Blocks) /\ Len(P) \in Nat
         /\ F \in Seq(Blocks) /\ Len(F) \in Nat
         /\ \A i \in 1..Len(P) : /\ P[i] \in Used(P, F, S) /\ P[i] \in Blocks
                                 /\ P[i] # RDSK /\ d[P[i]].magic = "PART"
         /\ \A i \in 1..Len(F) :
              /\ F[i] \in Used(P, F, S) /\ F[i] \in Blocks
              /\ F[i] # RDSK /\ d[F[i]].magic = "FSHD"
              /\ S[i] \in Seq(Blocks) /\ Len(S[i]) \in Nat
              /\ \A k \in 1..Len(S[i]) : /\ S[i][k] \in Used(P, F, S) /\ S[i][k] \in Blocks
                                         /\ S[i][k] # RDSK /\ d[S[i][k]].magic = "LSEG"
<1>1. RDSK \in Blocks
  BY AreaAssumption, SMT DEF RDSK, Blocks
<1>2. Chain(d, d[RDSK].partition_list, "PART", P) /\ Chain(d, d[RDSK].fs_header_list, "FSHD", F)
  BY DEF IsTable, PartTable, DriverTable
<1>3. \A i \in 1..Len(F) : Chain(d, d[F[i]].seg_list, "LSEG", S[i])
  BY DEF IsTable, DriverTable, Chunks
<1>4. d[RDSK].magic = "RDSK"
  BY DEF IsTable
<1>5. ASSUME NEW i \in 1..Len(P)
      PROVE  P[i] \in Blocks /\ P[i] # RDSK /\ d[P[i]].magic = "PART"
  BY <1>2, <1>4, ChainBlocks DEF Chain
<1>6. ASSUME NEW i \in 1..Len(F)
      PROVE  F[i] \in Blocks /\ F[i] # RDSK /\ d[F[i]].magic = "FSHD"
  BY <1>2, <1>4, ChainBlocks DEF Chain
<1>7. ASSUME NEW i \in 1..Len(F)
      PROVE  S[i] \in Seq(Blocks) /\ Len(S[i]) \in Nat
  BY <1>3, ChainBlocks
<1>8. ASSUME NEW i \in 1..Len(F), NEW k \in 1..Len(S[i])
      PROVE  S[i][k] \in Blocks /\ S[i][k] # RDSK /\ d[S[i][k]].magic = "LSEG"
  <2>1. Chain(d, d[F[i]].seg_list, "LSEG", S[i])
    BY <1>3
  <2> QED BY <2>1, <1>4, ChainBlocks DEF Chain
<1>9. P \in Seq(Blocks) /\ Len(P) \in Nat /\ F \in Seq(Blocks) /\ Len(F) \in Nat
  BY <1>2, ChainBlocks
<1> QED BY <1>1, <1>5, <1>6, <1>7, <1>8, <1>9 DEF Used

\* What a reader of the image sees of a partition and of a driver.
Partition == [name : Names, lo : LoCyl..(HiCyl + 1), hi : (LoCyl - 1)..HiCyl]
Driver == [dos_type : DosTypes, segs : DriverSizes]
PartRow(c) == [name |-> c.name, lo |-> c.lo, hi |-> c.hi]
DriverRow(c, w) == [dos_type |-> c.dos_type, segs |-> Len(w)]

\* The rows that a reader of a table sees, in the order of its chains.
LEMMA Rows ==
  ASSUME NEW d, NEW P, NEW F, NEW S, IsTable(d, P, F, S)
  PROVE  /\ PartsOn(d) \in Seq(Partition) /\ Len(PartsOn(d)) = Len(P)
         /\ \A i \in 1..Len(P) : PartsOn(d)[i] = PartRow(d[P[i]])
         /\ DriversOn(d) \in Seq(Driver) /\ Len(DriversOn(d)) = Len(F)
         /\ \A i \in 1..Len(F) : DriversOn(d)[i] = DriverRow(d[F[i]], S[i])
<1>1. /\ Len(P) \in Nat /\ DOMAIN P = 1..Len(P)
      /\ Len(F) \in Nat /\ DOMAIN F = 1..Len(F)
  BY TableBlocks, LenProperties
<1>2. PartsOn(d) = [i \in 1..Len(P) |-> PartRow(d[P[i]])]
  BY <1>1, TableRead DEF PartsOn, PartRow
<1>3. DriversOn(d) = [i \in 1..Len(F) |-> DriverRow(d[F[i]], S[i])]
  <2>1. DriversOn(d) = [i \in 1..Len(F) |->
          [dos_type |-> d[F[i]].dos_type, segs |-> Len(SegChain(d, d[F[i]]))]]
    BY <1>1, TableRead DEF DriversOn
  <2>2. \A i \in 1..Len(F) : SegChain(d, d[F[i]]) = S[i]
    BY TableRead
  <2> QED BY <2>1, <2>2 DEF DriverRow
<1>4. ASSUME NEW i \in 1..Len(P) PROVE PartRow(d[P[i]]) \in Partition
  <2>1. P[i] \in Blocks /\ d[P[i]].magic = "PART"
    BY TableBlocks
  <2>2. d[P[i]] \in Content
    BY <2>1 DEF IsTable
  <2> QED BY <2>1, <2>2, Kinds DEF PartRow, Partition
<1>5. ASSUME NEW i \in 1..Len(F) PROVE DriverRow(d[F[i]], S[i]) \in Driver
  <2>1. F[i] \in Blocks /\ d[F[i]].magic = "FSHD"
    BY TableBlocks
  <2>2. d[F[i]] \in Content
    BY <2>1 DEF IsTable
  <2>3. Len(S[i]) \in DriverSizes
    BY DEF IsTable, DriverTable, Chunks
  <2> QED BY <2>1, <2>2, <2>3, Kinds DEF DriverRow, Driver
<1>6. PartsOn(d) \in [1..Len(P) -> Partition] /\ DriversOn(d) \in [1..Len(F) -> Driver]
  BY <1>2, <1>3, <1>4, <1>5
<1>7. PartsOn(d) \in Seq(Partition) /\ Len(PartsOn(d)) = Len(P)
  BY <1>1, <1>6
<1>8. DriversOn(d) \in Seq(Driver) /\ Len(DriversOn(d)) = Len(F)
  BY <1>1, <1>6
<1> QED BY <1>2, <1>3, <1>7, <1>8

\* Two tables look alike if their rows do.
LEMMA SameParts ==
  ASSUME NEW d, NEW e, NEW P, NEW F, NEW S, NEW G, NEW R,
         IsTable(d, P, F, S), IsTable(e, P, G, R),
         \A i \in 1..Len(P) : PartRow(e[P[i]]) = PartRow(d[P[i]])
  PROVE  PartsOn(e) = PartsOn(d)
BY Rows, SeqEqual

\* The drivers of two images with the same chains have the same rows if they
\* have the same types.
LEMMA SameDrivers ==
  ASSUME NEW d, NEW e, NEW P, NEW Q, NEW F, NEW S,
         IsTable(d, P, F, S), IsTable(e, Q, F, S),
         \A i \in 1..Len(F) : e[F[i]].dos_type = d[F[i]].dos_type
  PROVE  DriversOn(e) = DriversOn(d)
<1>1. \A i \in 1..Len(F) : DriverRow(e[F[i]], S[i]) = DriverRow(d[F[i]], S[i])
  BY DEF DriverRow
<1> QED BY <1>1, Rows, SeqEqual

\* Nothing of a table depends on the blocks that it does not use, nor on
\* high_rdsk_block.
LEMMA Frame ==
  ASSUME NEW d, NEW P, NEW F, NEW S, IsTable(d, P, F, S),
         NEW e \in [Blocks -> Content],
         e[RDSK].magic = "RDSK",
         e[RDSK].partition_list = d[RDSK].partition_list,
         e[RDSK].fs_header_list = d[RDSK].fs_header_list,
         \A b \in Used(P, F, S) \ {RDSK} : e[b] = d[b]
  PROVE  /\ IsTable(e, P, F, S)
         /\ InMemory(e, P) = InMemory(d, P) /\ InMemory(e, F) = InMemory(d, F)
         /\ PartsOn(e) = PartsOn(d) /\ DriversOn(e) = DriversOn(d)
<1>1. /\ \A i \in 1..Len(P) : e[P[i]] = d[P[i]]
      /\ \A i \in 1..Len(F) : /\ e[F[i]] = d[F[i]]
                              /\ \A k \in 1..Len(S[i]) : e[S[i][k]] = d[S[i][k]]
  BY TableBlocks
<1>2. PartTable(e, P)
  <2>1. Chain(e, e[RDSK].partition_list, "PART", P)
    BY <1>1, ChainSame DEF IsTable, PartTable
  <2> QED BY <1>1, <2>1 DEF IsTable, PartTable
<1>3. ASSUME NEW i \in 1..Len(F) PROVE Chunks(e, F[i], S[i])
  <2>1. Chunks(d, F[i], S[i])
    BY DEF IsTable, DriverTable
  <2>2. Chain(e, d[F[i]].seg_list, "LSEG", S[i])
    BY <1>1, <2>1, ChainSame DEF Chunks
  <2> QED BY <1>1, <2>1, <2>2 DEF Chunks
<1>4. DriverTable(e, F, S)
  <2>1. Chain(e, e[RDSK].fs_header_list, "FSHD", F)
    BY <1>1, ChainSame DEF IsTable, DriverTable
  <2> QED BY <1>1, <1>3, <2>1 DEF IsTable, DriverTable
<1>5. InMemory(e, P) = InMemory(d, P) /\ InMemory(e, F) = InMemory(d, F)
  <2>1. DOMAIN P = 1..Len(P) /\ DOMAIN F = 1..Len(F)
    BY TableBlocks, LenProperties
  <2> QED BY <1>1, <2>1 DEF InMemory
<1>6. IsTable(e, P, F, S)
  BY <1>2, <1>4 DEF IsTable
<1>7. PartsOn(e) = PartsOn(d)
  BY <1>1, <1>6, SameParts
<1>8. DriversOn(e) = DriversOn(d)
  BY <1>1, <1>6, SameDrivers
<1> QED BY <1>5, <1>6, <1>7, <1>8

-----------------------------------------------------------------------------
(* Changes of a table *)

\* A PART block that stands apart is linked to the end of its chain.
LEMMA AppendPart ==
  ASSUME NEW d, NEW P, NEW F, NEW S, IsTable(d, P, F, S),
         NEW b \in Blocks \ Used(P, F, S),
         d[b].magic = "PART", d[b].next = END,
         \A i \in 1..Len(P) : Apart(d[b], d[P[i]]) /\ Apart(d[P[i]], d[b]),
         NEW e \in [Blocks -> Content],
         e[RDSK].magic = "RDSK",
         e[RDSK].fs_header_list = d[RDSK].fs_header_list,
         e[RDSK].partition_list = IF P = <<>> THEN b ELSE d[RDSK].partition_list,
         \A x \in Blocks \ {RDSK} :
           e[x] = IF P # <<>> /\ x = P[Len(P)] THEN Linked(d[x], b) ELSE d[x]
  PROVE  /\ IsTable(e, Append(P, b), F, S) /\ InMemory(e, F) = InMemory(d, F)
         /\ PartsOn(e) = Append(PartsOn(d), PartRow(d[b]))
         /\ DriversOn(e) = DriversOn(d)
<1> DEFINE Q == Append(P, b)
<1>0. b # RDSK /\ b \in BlockNums
  BY TableBlocks DEF BlockNums
<1>1. /\ P \in Seq(Blocks) /\ Len(P) \in Nat /\ (P = <<>> <=> Len(P) = 0)
      /\ (P = <<>> <=> d[RDSK].partition_list = END)
  BY ChainBlocks DEF IsTable, PartTable
<1>2. /\ Q \in Seq(Blocks) /\ Len(Q) = Len(P) + 1
      /\ \A i \in 1..Len(P) : Q[i] = P[i]
      /\ Q[Len(P) + 1] = b
  BY <1>1, AppendProperties
<1>3. \A i \in 1..Len(P) : P[i] # b
  BY TableBlocks
<1>4. ASSUME NEW i \in 1..Len(P)
      PROVE  /\ e[P[i]].magic = "PART" /\ d[P[i]].magic = "PART"
             /\ e[P[i]].name = d[P[i]].name
             /\ e[P[i]].lo = d[P[i]].lo /\ e[P[i]].hi = d[P[i]].hi
             /\ e[P[i]].next = IF i = Len(P) THEN b ELSE d[P[i]].next
  <2>1. /\ P[i] \in Blocks \ {RDSK} /\ d[P[i]].magic = "PART" /\ d[P[i]] \in Content
        /\ P # <<>> /\ Len(P) \in 1..Len(P)
    BY <1>1, TableBlocks DEF IsTable
  <2>2. P[i] = P[Len(P)] <=> i = Len(P)
    BY <2>1 DEF IsTable, PartTable, Chain
  <2>3. CASE i = Len(P)
    <3>1. e[P[i]] = Linked(d[P[i]], b)
      BY <2>1, <2>2, <2>3
    <3> QED BY <1>0, <2>1, <2>3, <3>1, LinkedBlock
  <2>4. CASE i # Len(P)
    <3>1. e[P[i]] = d[P[i]]
      BY <2>1, <2>2, <2>4
    <3> QED BY <2>1, <2>4, <3>1
  <2> QED BY <2>3, <2>4
<1>5. e[b] = d[b]
  <2>1. P # <<>> => b # P[Len(P)]
    BY <1>1, <1>3
  <2> QED BY <1>0, <2>1
<1>6. \A i \in 1..Len(F) : /\ e[F[i]] = d[F[i]]
                           /\ \A k \in 1..Len(S[i]) : e[S[i][k]] = d[S[i][k]]
  <2>1. P # <<>> => d[P[Len(P)]].magic = "PART"
    BY <1>1, TableBlocks
  <2>2. ASSUME NEW x \in Blocks \ {RDSK}, d[x].magic # "PART" PROVE e[x] = d[x]
    BY <2>1, <2>2
  <2>3. ASSUME NEW v \in 1..Len(F)
        PROVE  /\ F[v] \in Blocks \ {RDSK} /\ d[F[v]].magic # "PART"
               /\ \A k \in 1..Len(S[v]) : S[v][k] \in Blocks \ {RDSK} /\ d[S[v][k]].magic # "PART"
    BY TableBlocks
  <2> QED BY ZenonT(40), <2>2, <2>3
<1>7. PartTable(e, Q)
  <2>1. Chain(e, IF d[RDSK].partition_list = END THEN b ELSE d[RDSK].partition_list, "PART", Q)
    <3>1. Chain(d, d[RDSK].partition_list, "PART", P)
      BY DEF IsTable, PartTable
    <3>2. e[b].magic = "PART" /\ e[b].next = END
      BY <1>5
    <3>3. \A i \in 1..Len(P) : /\ e[P[i]].magic = d[P[i]].magic
                               /\ e[P[i]].next = IF i = Len(P) THEN b ELSE d[P[i]].next
      BY <1>4
    <3> QED BY <1>3, <3>1, <3>2, <3>3, ChainAppend
  <2>2. ASSUME NEW i \in 1..Len(Q), NEW j \in 1..Len(Q), i # j
        PROVE  Apart(e[Q[i]], e[Q[j]])
    <3>1. \A k \in 1..Len(Q) : k \in 1..Len(P) \/ k = Len(P) + 1
      BY <1>1, <1>2
    <3>2. CASE i \in 1..Len(P) /\ j \in 1..Len(P)
      <4>1. Apart(d[P[i]], d[P[j]])
        BY <2>2, <3>2 DEF IsTable, PartTable
      <4> QED BY <1>2, <1>4, <3>2, <4>1 DEF Apart
    <3>3. CASE i = Len(P) + 1 /\ j \in 1..Len(P)
      <4>1. Apart(d[b], d[P[j]]) /\ Q[i] = b /\ Q[j] = P[j]
        BY <1>2, <3>3
      <4> QED BY <1>4, <1>5, <3>3, <4>1 DEF Apart
    <3>4. CASE j = Len(P) + 1 /\ i \in 1..Len(P)
      <4>1. Apart(d[P[i]], d[b]) /\ Q[j] = b /\ Q[i] = P[i]
        BY <1>2, <3>4
      <4> QED BY <1>4, <1>5, <3>4, <4>1 DEF Apart
    <3> QED BY <2>2, <3>1, <3>2, <3>3, <3>4
  <2>3. e[RDSK].partition_list = IF d[RDSK].partition_list = END THEN b ELSE d[RDSK].partition_list
    BY <1>1
  <2> QED BY <2>1, <2>2, <2>3 DEF PartTable
<1>8. ASSUME NEW i \in 1..Len(F) PROVE Chunks(e, F[i], S[i])
  <2>1. Chunks(d, F[i], S[i])
    BY DEF IsTable, DriverTable
  <2>2. Chain(e, d[F[i]].seg_list, "LSEG", S[i])
    BY <1>6, <2>1, ChainSame DEF Chunks
  <2> QED BY <1>6, <2>1, <2>2 DEF Chunks
<1>9. DriverTable(e, F, S)
  <2>1. Chain(e, e[RDSK].fs_header_list, "FSHD", F)
    <3>1. Chain(d, d[RDSK].fs_header_list, "FSHD", F)
      BY DEF IsTable, DriverTable
    <3> QED BY <1>6, <3>1, ChainSame
  <2> QED BY <1>6, <1>8, <2>1 DEF IsTable, DriverTable
<1>10. InMemory(e, F) = InMemory(d, F)
  <2>1. DOMAIN F = 1..Len(F)
    BY TableBlocks, LenProperties
  <2> QED BY <1>6, <2>1 DEF InMemory
<1>11. IsTable(e, Q, F, S)
  BY <1>7, <1>9 DEF IsTable
<1>12. DriversOn(e) = DriversOn(d)
  BY <1>6, <1>11, SameDrivers
<1>13. PartsOn(e) = Append(PartsOn(d), PartRow(d[b]))
  <2> HIDE DEF Q
  <2>1. /\ PartsOn(d) \in Seq(Partition) /\ Len(PartsOn(d)) = Len(P)
        /\ \A i \in 1..Len(P) : PartsOn(d)[i] = PartRow(d[P[i]])
    BY Rows
  <2>2. /\ PartsOn(e) \in Seq(Partition) /\ Len(PartsOn(e)) = Len(Q)
        /\ \A i \in 1..Len(Q) : PartsOn(e)[i] = PartRow(e[Q[i]])
    BY <1>11, Rows
  <2>3. PartRow(d[b]) \in Partition
    BY Kinds DEF IsTable, PartRow, Partition
  <2> DEFINE A == Append(PartsOn(d), PartRow(d[b]))
  <2>4. /\ A \in Seq(Partition) /\ Len(A) = Len(P) + 1
        /\ \A i \in 1..Len(P) : A[i] = PartRow(d[P[i]])
        /\ A[Len(P) + 1] = PartRow(d[b])
    BY <2>1, <2>3, AppendProperties
  <2> HIDE DEF A
  <2>5. ASSUME NEW i \in 1..Len(Q) PROVE PartsOn(e)[i] = A[i]
    <3>1. CASE i = Len(P) + 1
      BY <1>2, <1>5, <2>2, <2>4, <3>1
    <3>2. CASE i # Len(P) + 1
      <4>1. i \in 1..Len(P)
        BY <1>1, <1>2, <3>2
      <4>2. PartRow(e[P[i]]) = PartRow(d[P[i]])
        BY <1>4, <4>1 DEF PartRow
      <4> QED BY <1>2, <2>2, <2>4, <4>1, <4>2
    <3> QED BY <3>1, <3>2
  <2>6. PartsOn(e) = A
    BY <1>2, <2>2, <2>4, <2>5, SeqEqual
  <2> QED BY <2>6 DEF A
<1> QED BY <1>10, <1>11, <1>12, <1>13

\* A PART block is taken out of its chain.
LEMMA RemovePart ==
  ASSUME NEW d, NEW P, NEW F, NEW S, IsTable(d, P, F, S),
         NEW i \in 1..Len(P),
         NEW e \in [Blocks -> Content],
         e[RDSK].magic = "RDSK",
         e[RDSK].fs_header_list = d[RDSK].fs_header_list,
         e[RDSK].partition_list = IF i = 1 THEN d[P[1]].next ELSE d[RDSK].partition_list,
         \A x \in Blocks \ {RDSK} :
           e[x] = IF i # 1 /\ x = P[i - 1] THEN Linked(d[x], d[P[i]].next) ELSE d[x]
  PROVE  /\ IsTable(e, RemoveAt(P, i), F, S) /\ InMemory(e, F) = InMemory(d, F)
         /\ PartsOn(e) = RemoveAt(PartsOn(d), i)
         /\ DriversOn(e) = DriversOn(d)
<1> DEFINE Q == RemoveAt(P, i)
<1>1. P \in Seq(Blocks) /\ Len(P) \in Nat /\ (i # 1 => i - 1 \in 1..Len(P))
  BY TableBlocks
<1>2. d[P[i]].next \in BlockNums
  <2>1. P[i] \in Blocks /\ d[P[i]].magic = "PART"
    BY TableBlocks
  <2>2. d[P[i]] \in Content
    BY <2>1 DEF IsTable
  <2> QED BY <2>1, <2>2, Kinds
<1>3. /\ Q \in Seq(Blocks) /\ Len(Q) = Len(P) - 1
      /\ \A j \in 1 .. Len(P) - 1 : Q[j] = IF j < i THEN P[j] ELSE P[j + 1]
  BY <1>1, Removed
<1>4. ASSUME NEW j \in 1..Len(P)
      PROVE  /\ e[P[j]].magic = "PART" /\ d[P[j]].magic = "PART"
             /\ e[P[j]].name = d[P[j]].name
             /\ e[P[j]].lo = d[P[j]].lo /\ e[P[j]].hi = d[P[j]].hi
             /\ e[P[j]].next = IF j = i - 1 THEN d[P[i]].next ELSE d[P[j]].next
  <2>0. P[j] \in Blocks \ {RDSK} /\ d[P[j]].magic = "PART"
    BY TableBlocks
  <2>1. P[j] \in Blocks \ {RDSK} /\ d[P[j]].magic = "PART" /\ d[P[j]] \in Content
    BY <2>0 DEF IsTable
  <2>2. i # 1 => (P[j] = P[i - 1] <=> j = i - 1)
    BY <1>1 DEF IsTable, PartTable, Chain
  <2>3. CASE j = i - 1
    <3>1. i # 1 /\ e[P[j]] = Linked(d[P[j]], d[P[i]].next)
      BY <1>1, <2>1, <2>2, <2>3
    <3> QED BY <1>2, <2>1, <2>3, <3>1, LinkedBlock
  <2>4. CASE j # i - 1
    <3>1. e[P[j]] = d[P[j]]
      BY <2>1, <2>2, <2>4
    <3> QED BY <2>1, <2>4, <3>1
  <2> QED BY <2>3, <2>4
<1>6. \A j \in 1..Len(F) : /\ e[F[j]] = d[F[j]]
                           /\ \A k \in 1..Len(S[j]) : e[S[j][k]] = d[S[j][k]]
  <2>1. i # 1 => d[P[i - 1]].magic = "PART"
    BY <1>1, TableBlocks
  <2>2. ASSUME NEW x \in Blocks \ {RDSK}, d[x].magic # "PART" PROVE e[x] = d[x]
    BY <2>1, <2>2
  <2>3. ASSUME NEW v \in 1..Len(F)
        PROVE  /\ F[v] \in Blocks \ {RDSK} /\ d[F[v]].magic # "PART"
               /\ \A k \in 1..Len(S[v]) : S[v][k] \in Blocks \ {RDSK} /\ d[S[v][k]].magic # "PART"
    BY TableBlocks
  <2> QED BY <2>2, <2>3
<1>7. PartTable(e, Q)
  <2>1. Chain(e, IF i = 1 THEN d[P[1]].next ELSE d[RDSK].partition_list, "PART", Q)
    <3>1. Chain(d, d[RDSK].partition_list, "PART", P)
      BY DEF IsTable, PartTable
    <3>2. \A j \in 1..Len(P) : j # i =>
            /\ e[P[j]].magic = d[P[j]].magic
            /\ e[P[j]].next = IF j = i - 1 THEN d[P[i]].next ELSE d[P[j]].next
      BY <1>4
    <3> QED BY <3>1, <3>2, ChainRemove
  <2>2. ASSUME NEW j \in 1..Len(Q), NEW k \in 1..Len(Q), j # k
        PROVE  Apart(e[Q[j]], e[Q[k]])
    <3> DEFINE jj == IF j < i THEN j ELSE j + 1
               kk == IF k < i THEN k ELSE k + 1
    <3>1. jj \in 1..Len(P) /\ kk \in 1..Len(P) /\ jj # kk
      BY <1>1, <1>3, <2>2, SMT
    <3>2. Q[j] = P[jj] /\ Q[k] = P[kk]
      BY <1>1, <1>3, SMTT(30)
    <3> HIDE DEF jj, kk
    <3>3. Apart(d[P[jj]], d[P[kk]])
      BY <3>1 DEF IsTable, PartTable
    <3> QED BY <1>4, <3>1, <3>2, <3>3 DEF Apart
  <2> QED BY <2>1, <2>2 DEF PartTable
<1>8. ASSUME NEW j \in 1..Len(F) PROVE Chunks(e, F[j], S[j])
  <2>1. Chunks(d, F[j], S[j])
    BY DEF IsTable, DriverTable
  <2>2. Chain(e, d[F[j]].seg_list, "LSEG", S[j])
    BY <1>6, <2>1, ChainSame DEF Chunks
  <2> QED BY <1>6, <2>1, <2>2 DEF Chunks
<1>9. DriverTable(e, F, S)
  <2>1. Chain(e, e[RDSK].fs_header_list, "FSHD", F)
    <3>1. Chain(d, d[RDSK].fs_header_list, "FSHD", F)
      BY DEF IsTable, DriverTable
    <3> QED BY <1>6, <3>1, ChainSame
  <2> QED BY <1>6, <1>8, <2>1 DEF IsTable, DriverTable
<1>10. InMemory(e, F) = InMemory(d, F)
  <2>1. DOMAIN F = 1..Len(F)
    BY TableBlocks, LenProperties
  <2> QED BY <1>6, <2>1 DEF InMemory
<1>11. IsTable(e, Q, F, S)
  BY <1>7, <1>9 DEF IsTable
<1>12. DriversOn(e) = DriversOn(d)
  BY <1>6, <1>11, SameDrivers
<1>13. PartsOn(e) = RemoveAt(PartsOn(d), i)
  <2>1. /\ PartsOn(d) \in Seq(Partition) /\ Len(PartsOn(d)) = Len(P)
        /\ \A j \in 1..Len(P) : PartsOn(d)[j] = PartRow(d[P[j]])
    BY Rows
  <2>2. /\ PartsOn(e) \in Seq(Partition) /\ Len(PartsOn(e)) = Len(Q)
        /\ \A j \in 1..Len(Q) : PartsOn(e)[j] = PartRow(e[Q[j]])
    BY <1>11, Rows
  <2> DEFINE A == RemoveAt(PartsOn(d), i)
  <2>3. /\ A \in Seq(Partition) /\ Len(A) = Len(P) - 1
        /\ \A j \in 1 .. Len(P) - 1 :
             A[j] = IF j < i THEN PartsOn(d)[j] ELSE PartsOn(d)[j + 1]
    BY <2>1, Removed
  <2> HIDE DEF A
  <2>4. ASSUME NEW j \in 1..Len(Q) PROVE PartsOn(e)[j] = A[j]
    <3> DEFINE jj == IF j < i THEN j ELSE j + 1
    <3>1. jj \in 1..Len(P) /\ j \in 1 .. Len(P) - 1
      BY <1>1, <1>3, SMT
    <3>2. Q[j] = P[jj] /\ A[j] = PartsOn(d)[jj]
      BY <1>3, <2>3, <3>1
    <3> HIDE DEF jj
    <3>3. PartRow(e[P[jj]]) = PartRow(d[P[jj]])
      BY <1>4, <3>1 DEF PartRow
    <3> QED BY <2>1, <2>2, <3>1, <3>2, <3>3
  <2>5. PartsOn(e) = A
    BY <1>3, <2>2, <2>3, <2>4, SeqEqual
  <2> QED BY <2>5 DEF A
<1> QED BY <1>10, <1>11, <1>12, <1>13

\* A header and its chunks, which stand apart, are linked to the end of their
\* chain.
LEMMA AppendDriver ==
  ASSUME NEW d, NEW P, NEW F, NEW S, IsTable(d, P, F, S),
         NEW b \in Blocks \ Used(P, F, S), NEW w,
         d[b].magic = "FSHD", d[b].next = END,
         Chunks(d, b, w),
         \A i \in 1..Len(F) : d[b].dos_type # d[F[i]].dos_type,
         NEW e \in [Blocks -> Content],
         e[RDSK].magic = "RDSK",
         e[RDSK].partition_list = d[RDSK].partition_list,
         e[RDSK].fs_header_list = IF F = <<>> THEN b ELSE d[RDSK].fs_header_list,
         \A x \in Blocks \ {RDSK} :
           e[x] = IF F # <<>> /\ x = F[Len(F)] THEN Linked(d[x], b) ELSE d[x]
  PROVE  /\ IsTable(e, P, Append(F, b), Append(S, w)) /\ InMemory(e, P) = InMemory(d, P)
         /\ PartsOn(e) = PartsOn(d)
         /\ DriversOn(e) = Append(DriversOn(d), DriverRow(d[b], w))
<1> DEFINE G == Append(F, b)
           R == Append(S, w)
<1>0. b # RDSK /\ b \in BlockNums
  BY TableBlocks DEF BlockNums
<1>1. /\ F \in Seq(Blocks) /\ Len(F) \in Nat /\ (F = <<>> <=> Len(F) = 0)
      /\ (F = <<>> <=> d[RDSK].fs_header_list = END)
  BY ChainBlocks DEF IsTable, DriverTable
<1>2. /\ G \in Seq(Blocks) /\ Len(G) = Len(F) + 1
      /\ \A i \in 1..Len(F) : G[i] = F[i]
      /\ G[Len(F) + 1] = b
  BY <1>1, AppendProperties
<1>w. /\ w \in Seq(Blocks) /\ Len(w) \in Nat
      /\ \A k \in 1..Len(w) : w[k] \in Blocks \ {RDSK} /\ d[w[k]].magic = "LSEG"
  <2>1. Chain(d, d[b].seg_list, "LSEG", w)
    BY DEF Chunks
  <2>2. \A k \in 1..Len(w) : d[w[k]].magic = "LSEG" /\ d[RDSK].magic = "RDSK"
    BY <2>1 DEF Chain, IsTable
  <2> QED BY <2>1, <2>2, ChainBlocks
<1>r. /\ R \in Seq(Seq(Blocks)) /\ Len(R) = Len(F) + 1
      /\ \A i \in 1..Len(F) : R[i] = S[i]
      /\ R[Len(F) + 1] = w
  <2>1. S \in Seq(Seq(Blocks)) /\ Len(S) = Len(F)
    BY DEF IsTable, DriverTable
  <2> QED BY <1>w, <2>1, AppendProperties
<1> HIDE DEF G, R
<1>3. \A i \in 1..Len(F) : F[i] # b
  BY TableBlocks
<1>4. ASSUME NEW i \in 1..Len(F)
      PROVE  /\ e[F[i]].magic = "FSHD" /\ d[F[i]].magic = "FSHD"
             /\ e[F[i]].dos_type = d[F[i]].dos_type /\ e[F[i]].seg_list = d[F[i]].seg_list
             /\ e[F[i]].next = IF i = Len(F) THEN b ELSE d[F[i]].next
  <2>0. F[i] \in Blocks \ {RDSK} /\ d[F[i]].magic = "FSHD"
    BY TableBlocks
  <2>1. d[F[i]] \in Content /\ F # <<>> /\ Len(F) \in 1..Len(F)
    BY <1>1, <2>0 DEF IsTable
  <2>2. F[i] = F[Len(F)] <=> i = Len(F)
    BY <2>1 DEF IsTable, DriverTable, Chain
  <2>3. CASE i = Len(F)
    <3>1. e[F[i]] = Linked(d[F[i]], b)
      BY <2>0, <2>1, <2>2, <2>3
    <3> QED BY <1>0, <2>0, <2>1, <2>3, <3>1, LinkedBlock
  <2>4. CASE i # Len(F)
    <3>1. e[F[i]] = d[F[i]]
      BY <2>0, <2>2, <2>4
    <3> QED BY <2>0, <2>4, <3>1
  <2> QED BY <2>3, <2>4
<1>5. \A x \in Blocks \ {RDSK} : d[x].magic # "FSHD" => e[x] = d[x]
  <2>1. F # <<>> => d[F[Len(F)]].magic = "FSHD"
    BY <1>1, TableBlocks
  <2> QED BY <2>1
<1>6. e[b] = d[b]
  <2>1. F # <<>> => b # F[Len(F)]
    BY <1>1, <1>3
  <2> QED BY <1>0, <2>1
<1>7. /\ \A i \in 1..Len(P) : e[P[i]] = d[P[i]]
      /\ \A i \in 1..Len(F) : \A k \in 1..Len(S[i]) : e[S[i][k]] = d[S[i][k]]
      /\ \A k \in 1..Len(w) : e[w[k]] = d[w[k]]
  <2>1. \A i \in 1..Len(P) : P[i] \in Blocks \ {RDSK} /\ d[P[i]].magic # "FSHD"
    BY TableBlocks
  <2>2. \A i \in 1..Len(F) : \A k \in 1..Len(S[i]) :
          S[i][k] \in Blocks \ {RDSK} /\ d[S[i][k]].magic # "FSHD"
    BY TableBlocks
  <2>3. \A k \in 1..Len(w) : w[k] \in Blocks \ {RDSK} /\ d[w[k]].magic # "FSHD"
    BY <1>w
  <2> QED BY <1>5, <2>1, <2>2, <2>3
<1>8. PartTable(e, P)
  <2>1. Chain(d, d[RDSK].partition_list, "PART", P)
    BY DEF IsTable, PartTable
  <2>2. Chain(e, e[RDSK].partition_list, "PART", P)
    BY <1>7, <2>1, ChainSame
  <2> QED BY <1>7, <2>2 DEF IsTable, PartTable
<1>9. ASSUME NEW i \in 1..Len(G) PROVE Chunks(e, G[i], R[i])
  <2>1. CASE i = Len(F) + 1
    <3>1. Chain(e, d[b].seg_list, "LSEG", w)
      BY <1>7, ChainSame DEF Chunks
    <3>2. Chunks(e, b, w)
      BY <1>6, <1>7, <3>1 DEF Chunks
    <3> QED BY <1>2, <1>r, <2>1, <3>2
  <2>2. CASE i # Len(F) + 1
    <3>1. i \in 1..Len(F) /\ G[i] = F[i] /\ R[i] = S[i]
      BY <1>1, <1>2, <1>r, <2>2
    <3>2. Chunks(d, F[i], S[i])
      BY <3>1 DEF IsTable, DriverTable
    <3>3. Chain(e, d[F[i]].seg_list, "LSEG", S[i])
      BY <1>7, <3>1, <3>2, ChainSame DEF Chunks
    <3>4. Chunks(e, F[i], S[i])
      BY <1>4, <1>7, <3>1, <3>2, <3>3 DEF Chunks
    <3> QED BY <3>1, <3>4
  <2> QED BY <2>1, <2>2
<1>10. DriverTable(e, G, R)
  <2>1. Chain(e, e[RDSK].fs_header_list, "FSHD", G)
    <3>1. Chain(d, d[RDSK].fs_header_list, "FSHD", F)
      BY DEF IsTable, DriverTable
    <3>2. e[b].magic = "FSHD" /\ e[b].next = END
      BY <1>6
    <3>3. \A i \in 1..Len(F) : /\ e[F[i]].magic = d[F[i]].magic
                               /\ e[F[i]].next = IF i = Len(F) THEN b ELSE d[F[i]].next
      BY <1>4
    <3>4. Chain(e, IF d[RDSK].fs_header_list = END THEN b ELSE d[RDSK].fs_header_list, "FSHD", G)
      BY <1>3, <3>1, <3>2, <3>3, ChainAppend DEF G
    <3> QED BY <1>1, <3>4
  <2>2. ASSUME NEW i \in 1..Len(G), NEW j \in 1..Len(G), i # j
        PROVE  e[G[i]].dos_type # e[G[j]].dos_type
    <3>1. \A k \in 1..Len(G) : k \in 1..Len(F) \/ k = Len(F) + 1
      BY <1>1, <1>2
    <3>2. CASE i \in 1..Len(F) /\ j \in 1..Len(F)
      <4>1. d[F[i]].dos_type # d[F[j]].dos_type
        BY <2>2, <3>2 DEF IsTable, DriverTable
      <4> QED BY <1>2, <1>4, <3>2, <4>1
    <3>3. CASE i = Len(F) + 1 /\ j \in 1..Len(F)
      BY <1>2, <1>4, <1>6, <3>3
    <3>4. CASE j = Len(F) + 1 /\ i \in 1..Len(F)
      BY <1>2, <1>4, <1>6, <3>4
    <3> QED BY <2>2, <3>1, <3>2, <3>3, <3>4
  <2> QED BY <1>2, <1>r, <1>9, <2>1, <2>2 DEF DriverTable
<1>11. IsTable(e, P, G, R)
  BY <1>8, <1>10 DEF IsTable
<1>12. InMemory(e, P) = InMemory(d, P)
  <2>1. DOMAIN P = 1..Len(P)
    BY TableBlocks, LenProperties
  <2> QED BY <1>7, <2>1 DEF InMemory
<1>13. PartsOn(e) = PartsOn(d)
  BY <1>7, <1>11, SameParts
<1>14. DriversOn(e) = Append(DriversOn(d), DriverRow(d[b], w))
  <2>1. /\ DriversOn(d) \in Seq(Driver) /\ Len(DriversOn(d)) = Len(F)
        /\ \A i \in 1..Len(F) : DriversOn(d)[i] = DriverRow(d[F[i]], S[i])
    BY Rows
  <2>2. /\ DriversOn(e) \in Seq(Driver) /\ Len(DriversOn(e)) = Len(G)
        /\ \A i \in 1..Len(G) : DriversOn(e)[i] = DriverRow(e[G[i]], R[i])
    BY <1>11, Rows
  <2>3. DriverRow(d[b], w) \in Driver
    BY Kinds DEF IsTable, Chunks, DriverRow, Driver
  <2> DEFINE A == Append(DriversOn(d), DriverRow(d[b], w))
  <2>4. /\ A \in Seq(Driver) /\ Len(A) = Len(F) + 1
        /\ \A i \in 1..Len(F) : A[i] = DriverRow(d[F[i]], S[i])
        /\ A[Len(F) + 1] = DriverRow(d[b], w)
    BY <2>1, <2>3, AppendProperties
  <2> HIDE DEF A
  <2>5. ASSUME NEW i \in 1..Len(G) PROVE DriversOn(e)[i] = A[i]
    <3>1. CASE i = Len(F) + 1
      BY <1>2, <1>6, <1>r, <2>2, <2>4, <3>1
    <3>2. CASE i # Len(F) + 1
      <4>1. i \in 1..Len(F)
        BY <1>1, <1>2, <3>2
      <4>2. DriverRow(e[F[i]], S[i]) = DriverRow(d[F[i]], S[i])
        BY <1>4, <4>1 DEF DriverRow
      <4> QED BY <1>2, <1>r, <2>2, <2>4, <4>1, <4>2
    <3> QED BY <3>1, <3>2
  <2>6. DriversOn(e) = A
    BY <1>2, <2>2, <2>4, <2>5, SeqEqual
  <2> QED BY <2>6 DEF A
<1> QED BY <1>11, <1>12, <1>13, <1>14 DEF G, R

\* A fresh RDSK block has an empty table behind it.
LEMMA FreshTable ==
  ASSUME NEW d \in [Blocks -> Content], d[RDSK] = FreshRDB
  PROVE  /\ IsTable(d, <<>>, <<>>, <<>>)
         /\ PartsOn(d) = <<>> /\ DriversOn(d) = <<>>
         /\ InMemory(d, <<>>) = <<>>
<1>1. /\ d[RDSK].magic = "RDSK" /\ d[RDSK].partition_list = END
      /\ d[RDSK].fs_header_list = END
  BY DEF FreshRDB, RDBlock
<1>2. ASSUME NEW magic PROVE Chain(d, END, magic, <<>>)
  <2>1. <<>> \in Seq(Blocks) /\ Len(<<>>) = 0
    BY EmptySeq
  <2>2. 1..Len(<<>>) = {} /\ ~(1 <= Len(<<>>))
    BY <2>1
  <2> QED BY <2>1, <2>2 DEF Chain, Link
<1>3. <<>> \in Seq(Seq(Blocks)) /\ Len(<<>>) = 0 /\ 1..Len(<<>>) = {}
  BY EmptySeq
<1>4. IsTable(d, <<>>, <<>>, <<>>)
  BY <1>1, <1>2, <1>3 DEF IsTable, PartTable, DriverTable
<1>5. PartsOn(d) \in Seq(Partition) /\ Len(PartsOn(d)) = 0
      /\ DriversOn(d) \in Seq(Driver) /\ Len(DriversOn(d)) = 0
  BY <1>3, <1>4, Rows
<1>6. PartsOn(d) = <<>> /\ DriversOn(d) = <<>>
  BY <1>5, EmptySeq
<1>7. InMemory(d, <<>>) = <<>>
  BY DEF InMemory
<1> QED BY <1>4, <1>6, <1>7

-----------------------------------------------------------------------------
(* The invariant *)

Table == INSTANCE PartitionTable
  WITH parts <- PartsOn(disk), drivers <- DriversOn(disk)

HeldBlock == [blk : Blocks, data : Content]

TypeInv ==
  /\ disk \in [Blocks -> Content]
  /\ rdb \in Content /\ rdb.magic = "RDSK"
  /\ parts \in Seq(HeldBlock) /\ fs \in Seq(HeldBlock) /\ pending \in Seq(HeldBlock)
  /\ opened \in BOOLEAN
  /\ reread \in {"none", "parts", "fs"}
  /\ crashes \in 0..MaxUpsets /\ inits \in 0..MaxUpsets

\* The field follows the calls, but for a crash.
HighInv(P, F, S) ==
  crashes = 0 => \A x \in Used(P, F, S) :
                   x <= (IF opened THEN rdb ELSE disk[RDSK]).high_rdsk_block

\* The PART blocks that are not linked are those that the call in progress is
\* about to link or to scrub.
ScanInv(P, L) ==
  crashes = 0 /\ inits = 0 =>
    \A x \in Blocks : disk[x].magic = "PART" => x \in L \/ \E i \in 1..Len(P) : x = P[i]

Held(P, F) == opened /\ parts = InMemory(disk, P) /\ fs = InMemory(disk, F)

\* The writes that link b to the end of a chain w, with r the RDSK block.
Links(d, r, w, b) ==
  IF w = <<>> THEN <<Write(RDSK, r)>>
  ELSE <<Write(w[Len(w)], Linked(d[w[Len(w)]], b)), Write(RDSK, r)>>
LinkTo(w, b) == Links(disk, rdb, w, b)

HeadsPart(P, b) ==
  /\ rdb.partition_list = IF P = <<>> THEN b ELSE disk[RDSK].partition_list
  /\ rdb.fs_header_list = disk[RDSK].fs_header_list
HeadsDriver(F, b) ==
  /\ rdb.fs_header_list = IF F = <<>> THEN b ELSE disk[RDSK].fs_header_list
  /\ rdb.partition_list = disk[RDSK].partition_list

\* A PART block that may be linked.
NewPart(c, P) ==
  /\ c \in Content /\ c.magic = "PART" /\ c.next = END
  /\ \A i \in 1..Len(P) : /\ Apart(c, disk[P[i]]) /\ Apart(disk[P[i]], c)
                          /\ c.name # disk[P[i]].name

\* The stages of the calls: what is still to be written, and the PART blocks L
\* that stand apart.
Quiet(P, F, L) ==
  /\ pending = <<>> /\ reread = "none" /\ L = {}
  /\ opened => rdb = disk[RDSK] /\ Held(P, F)

WritesPart(P, F, S, L) == \E b \in Blocks \ Used(P, F, S), c \in Content :
  /\ Held(P, F) /\ NewPart(c, P) /\ HeadsPart(P, b) /\ b <= rdb.high_rdsk_block
  /\ pending = <<Write(b, c)>> \o LinkTo(P, b)
  /\ reread = "parts" /\ L = {}

LinksPart(P, F, S, L) == \E b \in Blocks \ Used(P, F, S) :
  /\ Held(P, F) /\ NewPart(disk[b], P) /\ HeadsPart(P, b) /\ b <= rdb.high_rdsk_block
  /\ pending = LinkTo(P, b)
  /\ reread = "parts" /\ L = {b}

UnlinksPart(P, F, S, L) == \E i \in 1..Len(P) :
  /\ Held(P, F)
  /\ rdb = IF i = 1 THEN [disk[RDSK] EXCEPT !.partition_list = disk[P[1]].next] ELSE disk[RDSK]
  /\ pending = <<IF i = 1 THEN Write(RDSK, rdb)
                 ELSE Write(P[i - 1], Linked(disk[P[i - 1]], disk[P[i]].next)),
                 Write(P[i], Blank)>>
  /\ reread = "parts" /\ L = {}

ScrubsPart(P, F, S, L) == \E b \in Blocks \ Used(P, F, S) :
  /\ opened /\ fs = InMemory(disk, F) /\ rdb = disk[RDSK]
  /\ pending = <<Write(b, Blank)>>
  /\ reread = "parts" /\ L = {b}

\* A driver of type t with the header b and the chunks w, which nobody uses.
NewDriver(t, b, w, P, F, S) ==
  /\ t \in DosTypes /\ \A i \in 1..Len(F) : t # disk[F[i]].dos_type
  /\ b \in Blocks \ Used(P, F, S) /\ b <= rdb.high_rdsk_block
  /\ w \in Seq(Blocks) /\ Len(w) \in DriverSizes
  /\ \A i, j \in 1..Len(w) : w[i] = w[j] => i = j
  /\ \A i \in 1..Len(w) : w[i] \notin Used(P, F, S) /\ w[i] # b /\ w[i] <= rdb.high_rdsk_block
ChunkBlock(t, w, i) == LoadSegBlock(Link(w, i + 1), t, i)
HeaderBlock(t, w) == FSHeaderBlock(t, Link(w, 1))
\* The chunks that are written after the first k.
ChunkWrites(t, w, k) ==
  [i \in 1 .. Len(w) - k |-> Write(w[k + i], ChunkBlock(t, w, k + i))]

WritesDriver(P, F, S, L) ==
  \E t \in DosTypes, b \in Blocks, w \in Seq(Blocks) : \E k \in 0..Len(w) :
    /\ Held(P, F) /\ NewDriver(t, b, w, P, F, S) /\ HeadsDriver(F, b)
    /\ \A i \in 1..k : disk[w[i]] = ChunkBlock(t, w, i)
    /\ pending = ChunkWrites(t, w, k) \o (<<Write(b, HeaderBlock(t, w))>> \o LinkTo(F, b))
    /\ reread = "fs" /\ L = {}

LinksDriver(P, F, S, L) ==
  \E t \in DosTypes, b \in Blocks, w \in Seq(Blocks) :
    /\ Held(P, F) /\ NewDriver(t, b, w, P, F, S) /\ HeadsDriver(F, b)
    /\ \A i \in 1..Len(w) : disk[w[i]] = ChunkBlock(t, w, i)
    /\ disk[b] = HeaderBlock(t, w)
    /\ pending = LinkTo(F, b)
    /\ reread = "fs" /\ L = {}

\* All is linked; the RDSK block follows, for its high_rdsk_block.
Closes(P, F, L) ==
  /\ opened
  /\ \/ reread = "parts" /\ fs = InMemory(disk, F)
     \/ reread = "fs" /\ parts = InMemory(disk, P)
  /\ rdb.partition_list = disk[RDSK].partition_list
  /\ rdb.fs_header_list = disk[RDSK].fs_header_list
  /\ pending = <<Write(RDSK, rdb)>> /\ L = {}

Stage(P, F, S, L) ==
  \/ Quiet(P, F, L)
  \/ WritesPart(P, F, S, L) \/ LinksPart(P, F, S, L)
  \/ UnlinksPart(P, F, S, L) \/ ScrubsPart(P, F, S, L)
  \/ WritesDriver(P, F, S, L) \/ LinksDriver(P, F, S, L)
  \/ Closes(P, F, L)

StageInv(P, F, S, L) ==
  IsTable(disk, P, F, S) /\ HighInv(P, F, S) /\ ScanInv(P, L) /\ Stage(P, F, S, L)
RInv == TypeInv /\ \E P, F, S, L : StageInv(P, F, S, L)

\* What the calls of RDisk do to the table that a reader of the disk sees, or
\* nothing.
CallChange == Table!AddPartition \/ Table!DeletePartition \/ Table!AddDriver \/ Table!Create
TableStep == [CallChange]_(Table!table)

-----------------------------------------------------------------------------
(* The writes of a call *)

\* A call makes the first of its writes and is left with the others.
LEMMA FirstWrite ==
  ASSUME NEW h \in HeldBlock, NEW rest \in Seq(HeldBlock)
  PROVE  /\ <<h>> \o rest \in Seq(HeldBlock)
         /\ Head(<<h>> \o rest) = h /\ Tail(<<h>> \o rest) = rest
<1>1. <<h>> \in Seq(HeldBlock) /\ Len(<<h>>) = 1 /\ <<h>>[1] = h
  OBVIOUS
<1> DEFINE q == <<h>> \o rest
<1>2. /\ q \in Seq(HeldBlock) /\ Len(q) = 1 + Len(rest) /\ Len(rest) \in Nat
      /\ \A i \in 1 .. 1 + Len(rest) : q[i] = IF i <= 1 THEN h ELSE rest[i - 1]
  BY <1>1, ConcatProperties, LenProperties
<1> HIDE DEF q
<1>3. q # <<>> /\ q[1] = h
  BY <1>2, EmptySeq
<1>4. /\ Tail(q) \in Seq(HeldBlock) /\ Len(Tail(q)) = Len(rest)
      /\ \A i \in 1..Len(rest) : Tail(q)[i] = q[i + 1]
  BY <1>2, <1>3, HeadTailProperties
<1>5. ASSUME NEW i \in 1..Len(rest) PROVE Tail(q)[i] = rest[i]
  <2>1. i + 1 \in 1 .. 1 + Len(rest) /\ ~(i + 1 <= 1) /\ (i + 1) - 1 = i
    BY <1>2
  <2> QED BY <1>2, <1>4, <2>1
<1>6. Tail(q) = rest
  BY <1>4, <1>5, SeqEqual
<1>7. Head(q) = h
  BY <1>2, <1>3, SMT
<1> QED BY <1>2, <1>6, <1>7 DEF q

\* The links of a chain are writes, the RDSK block the last of them.
LEMMA LinkWrites ==
  ASSUME TypeInv, NEW w \in Seq(Blocks), NEW b \in Blocks,
         w # <<>> => disk[w[Len(w)]].magic \in {"PART", "FSHD"}
  PROVE  /\ LinkTo(w, b) \in Seq(HeldBlock) /\ LinkTo(w, b) # <<>>
         /\ w = <<>> => /\ Head(LinkTo(w, b)) = Write(RDSK, rdb)
                        /\ Tail(LinkTo(w, b)) = <<>>
         /\ w # <<>> =>
              LET last == w[Len(w)]
              IN  /\ last \in Blocks /\ Linked(disk[last], b) \in Content
                  /\ Head(LinkTo(w, b)) = Write(last, Linked(disk[last], b))
                  /\ Tail(LinkTo(w, b)) = <<Write(RDSK, rdb)>>
<1>1. RDSK \in Blocks /\ b \in BlockNums
  BY AreaAssumption, SMT DEF RDSK, Blocks, BlockNums
<1>2. Write(RDSK, rdb) \in HeldBlock
  BY <1>1 DEF TypeInv, Write, HeldBlock
<1>3. CASE w = <<>>
  BY <1>2, <1>3 DEF LinkTo, Links
<1>4. CASE w # <<>>
  <2> DEFINE last == w[Len(w)]
             c == Linked(disk[last], b)
  <2>1. last \in Blocks
    BY <1>4, EmptySeq, ElementOfSeq
  <2>2. c \in Content
    <3>1. disk[last] \in Content
      BY <2>1 DEF TypeInv
    <3> QED BY <1>1, <1>4, <3>1, LinkedBlock
  <2> HIDE DEF last, c
  <2>3. Write(last, c) \in HeldBlock
    BY <2>1, <2>2 DEF Write, HeldBlock
  <2>4. LinkTo(w, b) = <<Write(last, c), Write(RDSK, rdb)>>
    BY <1>4 DEF LinkTo, Links, last, c
  <2>5. LinkTo(w, b) \in Seq(HeldBlock) /\ LinkTo(w, b) # <<>>
        /\ Head(LinkTo(w, b)) = Write(last, c) /\ Tail(LinkTo(w, b)) = <<Write(RDSK, rdb)>>
    BY <1>2, <2>3, <2>4
  <2> QED BY <1>4, <2>1, <2>2, <2>5 DEF last, c
<1> QED BY <1>3, <1>4

\* One write of a call, its last one or not.
LEMMA WriteStep ==
  ASSUME TypeInv, DeviceWrite, NEW b \in Blocks, NEW c \in Content,
         NEW rest \in Seq(HeldBlock),
         Head(pending) = Write(b, c), Tail(pending) = rest
  PROVE  /\ disk' \in [Blocks -> Content] /\ disk'[b] = c
         /\ \A x \in Blocks \ {b} : disk'[x] = disk[x]
         /\ pending' = rest /\ crashes' = crashes /\ inits' = inits
         /\ rest # <<>> => UNCHANGED <<rdb, parts, fs, opened, reread>> /\ TypeInv'
         /\ rest = <<>> => Reread(reread, disk') /\ reread' = "none"
<1>1. disk' = [disk EXCEPT ![b] = c]
  <2>1. Head(pending).blk = b /\ Head(pending).data = c
    BY DEF Write
  <2> QED BY <2>1 DEF DeviceWrite
<1>2. /\ disk' \in [Blocks -> Content] /\ disk'[b] = c
      /\ \A x \in Blocks \ {b} : disk'[x] = disk[x]
  BY <1>1 DEF TypeInv
<1>3. pending' = rest /\ crashes' = crashes /\ inits' = inits
  BY DEF DeviceWrite
<1>4. ASSUME rest # <<>> PROVE UNCHANGED <<rdb, parts, fs, opened, reread>> /\ TypeInv'
  <2>1. UNCHANGED <<rdb, parts, fs, opened, reread>>
    BY <1>4 DEF DeviceWrite, mem
  <2> QED BY <1>2, <1>3, <2>1 DEF TypeInv
<1>5. rest = <<>> => Reread(reread, disk') /\ reread' = "none"
  BY DEF DeviceWrite
<1> QED BY <1>2, <1>3, <1>4, <1>5

\* What is read of a table are blocks of the disk.
LEMMA ReadTyped ==
  ASSUME NEW d, NEW P, NEW F, NEW S, IsTable(d, P, F, S)
  PROVE  InMemory(d, P) \in Seq(HeldBlock) /\ InMemory(d, F) \in Seq(HeldBlock)
<1>1. DOMAIN P = 1..Len(P) /\ DOMAIN F = 1..Len(F) /\ Len(P) \in Nat /\ Len(F) \in Nat
  BY TableBlocks, LenProperties
<1>2. \A i \in 1..Len(P) : P[i] \in Blocks /\ d[P[i]] \in Content
  BY ZenonT(40), TableBlocks DEF IsTable
<1>3. ASSUME NEW i \in 1..Len(F) PROVE F[i] \in Blocks /\ d[F[i]] \in Content
  <2>1. F[i] \in Blocks
    BY TableBlocks
  <2>2. d \in [Blocks -> Content]
    BY DEF IsTable
  <2> QED BY <2>1, <2>2
<1>4. /\ InMemory(d, P) \in [1..Len(P) -> HeldBlock]
      /\ InMemory(d, F) \in [1..Len(F) -> HeldBlock]
  BY <1>1, <1>2, <1>3 DEF InMemory, HeldBlock
<1> QED BY <1>1, <1>4

\* After its last write the call rereads the list that it changed.
LEMMA LastWrite ==
  ASSUME TypeInv, DeviceWrite, NEW b \in Blocks, NEW c \in Content,
         Head(pending) = Write(b, c), Tail(pending) = <<>>,
         NEW P, NEW F, NEW S, IsTable(disk', P, F, S),
         opened, rdb = disk'[RDSK],
         \/ reread = "parts" /\ fs = InMemory(disk', F)
         \/ reread = "fs" /\ parts = InMemory(disk', P)
  PROVE  /\ TypeInv' /\ Quiet(P, F, {})'
         /\ rdb' = rdb /\ opened' = opened /\ crashes' = crashes /\ inits' = inits
<1>1. <<>> \in Seq(HeldBlock)
  BY EmptySeq
<1>2. /\ disk' \in [Blocks -> Content]
      /\ pending' = <<>> /\ crashes' = crashes /\ inits' = inits
      /\ Reread(reread, disk') /\ reread' = "none"
  BY <1>1, WriteStep
<1>3. PartChain(disk') = P /\ FsChain(disk') = F
  BY TableRead
<1>4. /\ rdb' = rdb /\ opened' = opened
      /\ parts' = InMemory(disk', P) /\ fs' = InMemory(disk', F)
  <2>1. CASE reread = "parts" /\ fs = InMemory(disk', F)
    BY <1>2, <1>3, <2>1 DEF Reread
  <2>2. CASE reread = "fs" /\ parts = InMemory(disk', P)
    BY <1>2, <1>3, <2>2 DEF Reread
  <2> QED BY <2>1, <2>2
<1>5. Quiet(P, F, {})'
  BY <1>2, <1>4 DEF Quiet, Held
<1>6. parts' \in Seq(HeldBlock) /\ fs' \in Seq(HeldBlock)
  BY <1>4, ReadTyped
<1>7. TypeInv'
  BY <1>1, <1>2, <1>4, <1>6 DEF TypeInv
<1> QED BY <1>2, <1>4, <1>5, <1>7

\* The writes after which a reader of the disk finds another table.
LEMMA PartAdded ==
  ASSUME NEW d, NEW P, NEW F, NEW S, disk = d, IsTable(d, P, F, S),
         NEW c \in Content, c.magic = "PART",
         \A i \in 1..Len(P) : Apart(c, d[P[i]]) /\ c.name # d[P[i]].name,
         PartsOn(disk') = Append(PartsOn(disk), PartRow(c)),
         DriversOn(disk') = DriversOn(disk)
  PROVE  TableStep
<1>1. PartRow(c) \in Partition
  BY Kinds DEF PartRow, Partition
<1> DEFINE A == PartsOn(disk)
           B == PartsOn(disk')
<1>2. /\ A \in Seq(Partition) /\ Len(A) = Len(P) /\ Len(A) \in Nat
      /\ \A i \in 1..Len(P) : A[i] = PartRow(d[P[i]])
  BY Rows, LenProperties
<1>3. /\ B \in Seq(Partition) /\ B # <<>> /\ Len(B) = Len(A) + 1
      /\ \A i \in 1..Len(A) : B[i] = A[i]
      /\ B[Len(A) + 1] = PartRow(c)
  BY <1>1, <1>2, AppendProperties
<1> HIDE DEF A, B
<1>4. Last(B) = PartRow(c)
  BY <1>2, <1>3 DEF Last
<1>5. Front(B) = A
  <2>1. /\ Front(B) \in Seq(Partition) /\ Len(Front(B)) = Len(A)
        /\ \A i \in 1..Len(A) : Front(B)[i] = B[i]
    <3>1. Front(B) = SubSeq(B, 1, Len(A))
      BY <1>2, <1>3 DEF Front
    <3>2. \A i \in 1..Len(A) : B[i] \in Partition
      BY <1>2, <1>3, ElementOfSeq
    <3> QED BY <1>2, <1>3, <3>1, <3>2, SMT
  <2> QED BY <1>2, <1>3, <2>1, SeqEqual
<1>6. ASSUME NEW q \in ToSet(A)
      PROVE  q.name # Last(B).name /\ (Last(B).hi < q.lo \/ q.hi < Last(B).lo)
  <2>1. PICK i \in 1..Len(P) : q = PartRow(d[P[i]])
    <3>1. DOMAIN A = 1..Len(P)
      BY <1>2, LenProperties
    <3> QED BY <1>2, <3>1 DEF ToSet
  <2>2. Apart(c, d[P[i]]) /\ c.name # d[P[i]].name
    OBVIOUS
  <2> QED BY <1>4, <2>1, <2>2 DEF Apart, PartRow
<1>7. Table!AddPartition
  <2>0. Table!Last(B) = Last(B) /\ Table!Front(B) = Front(B) /\ Table!ToSet(A) = ToSet(A)
    BY DEF Table!Last, Last, Table!Front, Front, Table!ToSet, ToSet
  <2>1. Last(B) \in Table!Partition
    BY <1>1, <1>4 DEF Table!Partition, Partition
  <2>2. B # <<>> /\ Front(B) = A
    BY <1>3, <1>5
  <2>3. DriversOn(disk') = DriversOn(disk)
    OBVIOUS
  <2> QED BY <1>6, <2>0, <2>1, <2>2, <2>3 DEF Table!AddPartition, A, B
<1> QED BY <1>7 DEF TableStep, CallChange

\* The write after which one partition is missing is the deletion.
LEMMA PartRemoved ==
  ASSUME NEW P, NEW F, NEW S, IsTable(disk, P, F, S), NEW i \in 1..Len(P),
         PartsOn(disk') = RemoveAt(PartsOn(disk), i),
         DriversOn(disk') = DriversOn(disk)
  PROVE  TableStep
<1>1. i \in DOMAIN PartsOn(disk)
  BY Rows, LenProperties
<1>2. Table!DeletePartition
  <2>1. Table!RemoveAt(PartsOn(disk), i) = RemoveAt(PartsOn(disk), i)
    BY DEF Table!RemoveAt, RemoveAt
  <2> QED BY <1>1, <2>1 DEF Table!DeletePartition
<1> QED BY <1>2 DEF TableStep, CallChange, Table!table

\* The write after which one driver more is embedded is its addition.
LEMMA DriverAdded ==
  ASSUME NEW P, NEW F, NEW S, IsTable(disk, P, F, S),
         NEW t \in DosTypes, \A i \in 1..Len(F) : t # disk[F[i]].dos_type,
         NEW n \in DriverSizes,
         PartsOn(disk') = PartsOn(disk),
         DriversOn(disk') = Append(DriversOn(disk), [dos_type |-> t, segs |-> n])
  PROVE  TableStep
<1> DEFINE r == [dos_type |-> t, segs |-> n]
<1>1. r \in Table!Driver
  BY DEF Table!Driver
<1>2. ASSUME NEW e \in ToSet(DriversOn(disk)) PROVE e.dos_type # r.dos_type
  <2>1. PICK i \in 1..Len(F) : e = DriverRow(disk[F[i]], S[i])
    <3>1. DOMAIN DriversOn(disk) = 1..Len(F)
      BY Rows, LenProperties
    <3> QED BY <3>1, Rows DEF ToSet
  <2> QED BY <2>1 DEF DriverRow
<1>3. Table!AddDriver
  <2>1. Table!ToSet(DriversOn(disk)) = ToSet(DriversOn(disk))
    BY DEF Table!ToSet, ToSet
  <2> QED BY <1>1, <1>2, <2>1 DEF Table!AddDriver
<1> QED BY <1>3 DEF TableStep, CallChange, Table!table

\* A write that changes no row is a stutter of the abstract table.
LEMMA NothingSeen ==
  ASSUME PartsOn(disk') = PartsOn(disk), DriversOn(disk') = DriversOn(disk)
  PROVE  TableStep
BY DEF TableStep, Table!table

-----------------------------------------------------------------------------
(* The stages of a call *)

\* The last blocks of the two chains, where LinkTo writes.
LEMMA LastMagic ==
  ASSUME NEW d, NEW P, NEW F, NEW S, IsTable(d, P, F, S)
  PROVE  /\ P \in Seq(Blocks) /\ F \in Seq(Blocks)
         /\ P # <<>> => /\ Len(P) \in 1..Len(P) /\ P[Len(P)] \in Blocks \ {RDSK}
                        /\ P[Len(P)] \in Used(P, F, S) /\ d[P[Len(P)]].magic = "PART"
         /\ F # <<>> => /\ Len(F) \in 1..Len(F) /\ F[Len(F)] \in Blocks \ {RDSK}
                        /\ F[Len(F)] \in Used(P, F, S) /\ d[F[Len(F)]].magic = "FSHD"
<1>1. /\ P \in Seq(Blocks) /\ Len(P) \in Nat /\ (P = <<>> <=> Len(P) = 0)
      /\ F \in Seq(Blocks) /\ Len(F) \in Nat /\ (F = <<>> <=> Len(F) = 0)
  BY TableBlocks, EmptySeq
<1>2. /\ P # <<>> => Len(P) \in 1..Len(P)
      /\ F # <<>> => Len(F) \in 1..Len(F)
  BY <1>1
<1> QED BY <1>1, <1>2, TableBlocks

\* A block that no chain has is written: nobody sees it.
LEMMA Aside ==
  ASSUME TypeInv, DeviceWrite, NEW P, NEW F, NEW S, IsTable(disk, P, F, S),
         NEW b \in Blocks \ Used(P, F, S), NEW c \in Content,
         NEW rest \in Seq(HeldBlock), Head(pending) = Write(b, c), Tail(pending) = rest
  PROVE  /\ IsTable(disk', P, F, S) /\ disk'[b] = c
         /\ InMemory(disk', P) = InMemory(disk, P) /\ InMemory(disk', F) = InMemory(disk, F)
         /\ \A x \in Blocks \ {b} : disk'[x] = disk[x]
         /\ disk'[RDSK] = disk[RDSK] /\ TableStep
         /\ PartsOn(disk') = PartsOn(disk) /\ DriversOn(disk') = DriversOn(disk)
<1>1. /\ disk' \in [Blocks -> Content] /\ disk'[b] = c
      /\ \A x \in Blocks \ {b} : disk'[x] = disk[x]
  BY WriteStep
<1>2. RDSK \in Used(P, F, S) /\ RDSK \in Blocks
  BY TableBlocks DEF Used
<1>3. disk'[RDSK] = disk[RDSK] /\ disk[RDSK].magic = "RDSK"
  BY <1>1, <1>2 DEF IsTable
<1>4. \A x \in Used(P, F, S) \ {RDSK} : disk'[x] = disk[x]
  BY <1>1 DEF Used
<1>5. /\ IsTable(disk', P, F, S)
      /\ InMemory(disk', P) = InMemory(disk, P) /\ InMemory(disk', F) = InMemory(disk, F)
      /\ PartsOn(disk') = PartsOn(disk) /\ DriversOn(disk') = DriversOn(disk)
  BY <1>1, <1>3, <1>4, Frame
<1> QED BY <1>1, <1>3, <1>5, NothingSeen

\* What links a block to a chain does not change while the last block of the
\* chain does not.
LEMMA SameLink ==
  ASSUME NEW w, NEW b, rdb' = rdb,
         w # <<>> => disk'[w[Len(w)]] = disk[w[Len(w)]]
  PROVE  LinkTo(w, b)' = LinkTo(w, b)
BY DEF LinkTo, Links

\* add_partition writes its block.
LEMMA StepWritesPart ==
  ASSUME TypeInv, DeviceWrite, NEW P, NEW F, NEW S, NEW L, StageInv(P, F, S, L),
         WritesPart(P, F, S, L)
  PROVE  /\ RInv' /\ TableStep
         /\ PartsOn(disk') = PartsOn(disk) /\ DriversOn(disk') = DriversOn(disk)
         /\ \E b \in Blocks : /\ StageInv(P, F, S, {b})' /\ LinksPart(P, F, S, {b})'
                              /\ disk'[b] = Head(pending).data
<1>0. IsTable(disk, P, F, S) /\ HighInv(P, F, S) /\ ScanInv(P, L)
  BY DEF StageInv
<1>1. PICK b \in Blocks \ Used(P, F, S), c \in Content :
        /\ Held(P, F) /\ NewPart(c, P) /\ HeadsPart(P, b) /\ b <= rdb.high_rdsk_block
        /\ pending = <<Write(b, c)>> \o LinkTo(P, b)
        /\ reread = "parts" /\ L = {}
  BY DEF WritesPart
<1> DEFINE rest == LinkTo(P, b)
<1>2. rest \in Seq(HeldBlock) /\ rest # <<>>
  BY <1>0, LastMagic, LinkWrites
<1>3. Head(pending) = Write(b, c) /\ Tail(pending) = rest
  <2>1. Write(b, c) \in HeldBlock
    BY DEF Write, HeldBlock
  <2> QED BY <1>1, <1>2, <2>1, FirstWrite
<1> HIDE DEF rest
<1>4. /\ pending' = rest /\ crashes' = crashes /\ inits' = inits
      /\ UNCHANGED <<rdb, parts, fs, opened, reread>> /\ TypeInv'
  BY <1>2, <1>3, WriteStep
<1>5. /\ IsTable(disk', P, F, S) /\ disk'[b] = c
      /\ InMemory(disk', P) = InMemory(disk, P) /\ InMemory(disk', F) = InMemory(disk, F)
      /\ \A x \in Blocks \ {b} : disk'[x] = disk[x]
      /\ disk'[RDSK] = disk[RDSK] /\ TableStep
      /\ PartsOn(disk') = PartsOn(disk) /\ DriversOn(disk') = DriversOn(disk)
  BY <1>0, <1>2, <1>3, Aside
<1>6. LinkTo(P, b)' = rest
  <2>1. P # <<>> => disk'[P[Len(P)]] = disk[P[Len(P)]]
    BY <1>0, <1>5, LastMagic
  <2> QED BY <1>4, <2>1, SameLink DEF rest
<1>7. NewPart(disk[b], P)'
  <2>1. \A i \in 1..Len(P) : disk'[P[i]] = disk[P[i]]
    BY <1>0, <1>5, TableBlocks
  <2> QED BY <1>1, <1>5, <2>1 DEF NewPart
<1>8. Held(P, F)' /\ HeadsPart(P, b)'
  BY <1>1, <1>4, <1>5 DEF Held, HeadsPart
<1>9. LinksPart(P, F, S, {b})'
  BY <1>1, <1>4, <1>6, <1>7, <1>8 DEF LinksPart
<1>10. HighInv(P, F, S)'
  BY <1>0, <1>1, <1>4 DEF HighInv, Held
<1>11. ScanInv(P, {b})'
  BY <1>0, <1>1, <1>4, <1>5 DEF ScanInv
<1>12. StageInv(P, F, S, {b})'
  BY <1>5, <1>9, <1>10, <1>11 DEF StageInv, Stage
<1>13. disk'[b] = Head(pending).data
  BY <1>3, <1>5 DEF Write
<1> QED BY <1>4, <1>5, <1>9, <1>12, <1>13 DEF RInv

\* delete_partition scrubs the block that it has unlinked.
LEMMA StepScrubsPart ==
  ASSUME TypeInv, DeviceWrite, NEW P, NEW F, NEW S, NEW L, StageInv(P, F, S, L),
         ScrubsPart(P, F, S, L)
  PROVE  /\ RInv' /\ TableStep
         /\ PartsOn(disk') = PartsOn(disk) /\ DriversOn(disk') = DriversOn(disk)
         /\ StageInv(P, F, S, {})' /\ Quiet(P, F, {})'
<1>0. IsTable(disk, P, F, S) /\ HighInv(P, F, S) /\ ScanInv(P, L)
  BY DEF StageInv
<1>1. PICK b \in Blocks \ Used(P, F, S) :
        /\ opened /\ fs = InMemory(disk, F) /\ rdb = disk[RDSK]
        /\ pending = <<Write(b, Blank)>>
        /\ reread = "parts" /\ L = {b}
  BY DEF ScrubsPart
<1>2. Blank \in Content /\ <<>> \in Seq(HeldBlock)
  BY EmptySeq DEF Content
<1>3. Head(pending) = Write(b, Blank) /\ Tail(pending) = <<>>
  BY <1>1
<1> DEFINE c == Blank
           rest == <<>>
<1> HIDE DEF c, rest
<1>a. c \in Content /\ rest \in Seq(HeldBlock)
      /\ Head(pending) = Write(b, c) /\ Tail(pending) = rest
  BY <1>2, <1>3 DEF c, rest
<1>b. /\ IsTable(disk', P, F, S) /\ disk'[b] = c
      /\ InMemory(disk', F) = InMemory(disk, F)
      /\ \A x \in Blocks \ {b} : disk'[x] = disk[x]
      /\ disk'[RDSK] = disk[RDSK] /\ TableStep
      /\ PartsOn(disk') = PartsOn(disk) /\ DriversOn(disk') = DriversOn(disk)
  BY <1>0, <1>a, Aside
<1>4. /\ IsTable(disk', P, F, S) /\ disk'[b] = Blank
      /\ InMemory(disk', F) = InMemory(disk, F)
      /\ \A x \in Blocks \ {b} : disk'[x] = disk[x]
      /\ disk'[RDSK] = disk[RDSK] /\ TableStep
  BY <1>b DEF c
<1>5. /\ TypeInv' /\ Quiet(P, F, {})'
      /\ rdb' = rdb /\ opened' = opened /\ crashes' = crashes /\ inits' = inits
  BY <1>1, <1>2, <1>3, <1>4, LastWrite
<1>6. HighInv(P, F, S)'
  BY <1>0, <1>1, <1>5 DEF HighInv
<1>7. ScanInv(P, {})'
  BY <1>0, <1>1, <1>4, <1>5 DEF ScanInv, Blank
<1>8. StageInv(P, F, S, {})'
  BY <1>4, <1>5, <1>6, <1>7 DEF StageInv, Stage
<1> QED BY <1>b, <1>5, <1>8 DEF RInv

\* The last write of an addition: the RDSK block, for high_rdsk_block.
LEMMA StepCloses ==
  ASSUME TypeInv, DeviceWrite, NEW P, NEW F, NEW S, NEW L, StageInv(P, F, S, L),
         Closes(P, F, L)
  PROVE  /\ RInv' /\ TableStep
         /\ PartsOn(disk') = PartsOn(disk) /\ DriversOn(disk') = DriversOn(disk)
         /\ StageInv(P, F, S, {})' /\ Quiet(P, F, {})'
<1>0. IsTable(disk, P, F, S) /\ HighInv(P, F, S) /\ ScanInv(P, L)
  BY DEF StageInv
<1>1. /\ opened
      /\ \/ reread = "parts" /\ fs = InMemory(disk, F)
         \/ reread = "fs" /\ parts = InMemory(disk, P)
      /\ rdb.partition_list = disk[RDSK].partition_list
      /\ rdb.fs_header_list = disk[RDSK].fs_header_list
      /\ pending = <<Write(RDSK, rdb)>> /\ L = {}
  BY DEF Closes
<1>2. <<>> \in Seq(HeldBlock) /\ rdb \in Content /\ rdb.magic = "RDSK"
      /\ disk[RDSK].magic = "RDSK" /\ RDSK \in Blocks
  BY <1>0, EmptySeq, TableBlocks DEF TypeInv, IsTable, Used
<1>3. Head(pending) = Write(RDSK, rdb) /\ Tail(pending) = <<>>
  BY <1>1
<1>4. /\ disk' \in [Blocks -> Content] /\ disk'[RDSK] = rdb
      /\ \A x \in Blocks \ {RDSK} : disk'[x] = disk[x]
  BY <1>2, <1>3, WriteStep
<1>5. /\ IsTable(disk', P, F, S)
      /\ InMemory(disk', P) = InMemory(disk, P) /\ InMemory(disk', F) = InMemory(disk, F)
      /\ PartsOn(disk') = PartsOn(disk) /\ DriversOn(disk') = DriversOn(disk)
  <2>1. \A x \in Used(P, F, S) \ {RDSK} : disk'[x] = disk[x]
    BY <1>4 DEF Used
  <2> QED BY <1>0, <1>1, <1>2, <1>4, <2>1, Frame
<1>6. /\ TypeInv' /\ Quiet(P, F, {})'
      /\ rdb' = rdb /\ opened' = opened /\ crashes' = crashes /\ inits' = inits
  BY <1>1, <1>2, <1>3, <1>4, <1>5, LastWrite
<1>7. HighInv(P, F, S)'
  BY <1>0, <1>1, <1>6 DEF HighInv
<1>8. ScanInv(P, {})'
  BY <1>0, <1>1, <1>2, <1>4, <1>6 DEF ScanInv
<1>9. StageInv(P, F, S, {})'
  BY <1>5, <1>6, <1>7, <1>8 DEF StageInv, Stage
<1> QED BY <1>5, <1>6, <1>9, NothingSeen DEF RInv

\* What a table with one more partition uses: the block of that one as well.
LEMMA UsedAppended ==
  ASSUME NEW d, NEW P, NEW F, NEW S, IsTable(d, P, F, S), NEW b \in Blocks
  PROVE  /\ Used(Append(P, b), F, S) \subseteq Used(P, F, S) \cup {b}
         /\ \E i \in 1..Len(Append(P, b)) : b = Append(P, b)[i]
         /\ \A j \in 1..Len(P) : \E i \in 1..Len(Append(P, b)) : P[j] = Append(P, b)[i]
<1> DEFINE Q == Append(P, b)
<1>1. P \in Seq(Blocks) /\ Len(P) \in Nat
  BY TableBlocks
<1>2. /\ Len(Q) = Len(P) + 1
      /\ \A i \in 1..Len(P) : Q[i] = P[i]
      /\ Q[Len(P) + 1] = b
  BY <1>1, AppendProperties
<1> HIDE DEF Q
<1>3. \A i \in 1..Len(Q) : Q[i] = b \/ (i \in 1..Len(P) /\ Q[i] = P[i])
  BY <1>1, <1>2
<1>4. Used(Q, F, S) \subseteq Used(P, F, S) \cup {b}
  BY <1>3 DEF Used
<1>5. Len(P) + 1 \in 1..Len(Q) /\ \A j \in 1..Len(P) : j \in 1..Len(Q)
  BY <1>1, <1>2
<1> QED BY <1>2, <1>4, <1>5 DEF Q

\* What a table with one partition less uses: all but the block of that one.
LEMMA UsedRemoved ==
  ASSUME NEW d, NEW P, NEW F, NEW S, IsTable(d, P, F, S), NEW i \in 1..Len(P)
  PROVE  /\ Used(RemoveAt(P, i), F, S) \subseteq Used(P, F, S)
         /\ P[i] \in Blocks \ Used(RemoveAt(P, i), F, S)
         /\ \A j \in 1..Len(P) : j = i \/ \E k \in 1..Len(RemoveAt(P, i)) :
                                            P[j] = RemoveAt(P, i)[k]
<1> DEFINE Q == RemoveAt(P, i)
<1>1. P \in Seq(Blocks) /\ Len(P) \in Nat
  BY TableBlocks
<1>2. /\ Len(Q) = Len(P) - 1
      /\ \A j \in 1 .. Len(P) - 1 : Q[j] = IF j < i THEN P[j] ELSE P[j + 1]
  BY <1>1, Removed
<1> HIDE DEF Q
<1>3. ASSUME NEW j \in 1..Len(Q) PROVE \E k \in 1..Len(P) : k # i /\ Q[j] = P[k]
  <2>1. CASE j < i
    BY <1>1, <1>2, <2>1
  <2>2. CASE ~(j < i)
    <3>1. j + 1 \in 1..Len(P) /\ j + 1 # i /\ Q[j] = P[j + 1]
      BY <1>1, <1>2, <2>2
    <3> QED BY <3>1
  <2> QED BY <2>1, <2>2
<1>4. ASSUME NEW j \in 1..Len(P), j # i PROVE \E k \in 1..Len(Q) : P[j] = Q[k]
  <2>1. CASE j < i
    <3>1. j \in 1..Len(Q) /\ Q[j] = P[j]
      BY <1>1, <1>2, <2>1
    <3> QED BY <3>1
  <2>2. CASE ~(j < i)
    <3>1. j - 1 \in 1..Len(Q) /\ ~(j - 1 < i) /\ (j - 1) + 1 = j
      BY <1>1, <1>2, <1>4, <2>2
    <3>2. Q[j - 1] = P[j]
      BY <1>2, <3>1
    <3> QED BY <3>1, <3>2
  <2> QED BY <2>1, <2>2
<1>5. Used(Q, F, S) \subseteq Used(P, F, S)
  BY <1>3 DEF Used
<1>6. P[i] \in Blocks /\ P[i] # RDSK /\ d[P[i]].magic = "PART"
  BY TableBlocks
<1>7. \A j \in 1..Len(Q) : P[i] # Q[j]
  <2>1. \A k \in 1..Len(P) : P[i] = P[k] => i = k
    BY DEF IsTable, PartTable, Chain
  <2> QED BY <1>3, <2>1
<1>8. \A j \in 1..Len(F) : P[i] # F[j] /\ \A k \in 1..Len(S[j]) : P[i] # S[j][k]
  <2>1. \A j \in 1..Len(F) : /\ d[F[j]].magic = "FSHD"
                             /\ \A k \in 1..Len(S[j]) : d[S[j][k]].magic = "LSEG"
    BY TableBlocks
  <2> QED BY <1>6, <2>1
<1>9. P[i] \notin Used(Q, F, S)
  BY <1>6, <1>7, <1>8 DEF Used
<1> QED BY <1>4, <1>5, <1>6, <1>9 DEF Q

\* add_partition links its block: this write is the addition.
LEMMA StepLinksPart ==
  ASSUME TypeInv, DeviceWrite, NEW P, NEW F, NEW S, NEW L, StageInv(P, F, S, L),
         LinksPart(P, F, S, L)
  PROVE  /\ RInv' /\ TableStep
         /\ DriversOn(disk') = DriversOn(disk)
         /\ \E b \in L : PartsOn(disk') = Append(PartsOn(disk), PartRow(disk[b]))
         /\ \E Q : StageInv(Q, F, S, {})' /\ (Quiet(Q, F, {}) \/ Closes(Q, F, {}))'
<1>0. IsTable(disk, P, F, S) /\ HighInv(P, F, S) /\ ScanInv(P, L)
  BY DEF StageInv
<1>1. PICK b \in Blocks \ Used(P, F, S) :
        /\ Held(P, F) /\ NewPart(disk[b], P) /\ HeadsPart(P, b) /\ b <= rdb.high_rdsk_block
        /\ pending = LinkTo(P, b)
        /\ reread = "parts" /\ L = {b}
  BY DEF LinksPart
<1> DEFINE Q == Append(P, b)
<1>2. /\ RDSK \in Blocks /\ rdb \in Content /\ rdb.magic = "RDSK"
      /\ disk[RDSK].magic = "RDSK" /\ <<>> \in Seq(HeldBlock)
      /\ Write(RDSK, rdb) \in HeldBlock /\ <<Write(RDSK, rdb)>> \in Seq(HeldBlock)
  <2>1. RDSK \in Blocks /\ rdb \in Content
    BY <1>0, TableBlocks DEF TypeInv, Used
  <2>2. Write(RDSK, rdb) \in HeldBlock
    BY <2>1 DEF Write, HeldBlock
  <2> QED BY <1>0, <2>1, <2>2, EmptySeq DEF TypeInv, IsTable
<1>3. b # RDSK /\ b \in BlockNums
  BY <1>0, TableBlocks DEF BlockNums
<1>4. /\ \A x \in Used(Q, F, S) : x \in Used(P, F, S) \/ x = b
      /\ \E i \in 1..Len(Q) : b = Q[i]
      /\ \A j \in 1..Len(P) : \E i \in 1..Len(Q) : P[j] = Q[i]
  BY <1>0, UsedAppended
<1> HIDE DEF Q
\* The blocks after the first write of the two.
<1>5. /\ disk' \in [Blocks -> Content] /\ disk'[RDSK].magic = "RDSK"
      /\ disk'[RDSK].fs_header_list = disk[RDSK].fs_header_list
      /\ disk'[RDSK].partition_list = IF P = <<>> THEN b ELSE disk[RDSK].partition_list
      /\ \A x \in Blocks \ {RDSK} :
           disk'[x] = IF P # <<>> /\ x = P[Len(P)] THEN Linked(disk[x], b) ELSE disk[x]
      /\ crashes' = crashes /\ inits' = inits
  <2>1. CASE P = <<>>
    <3>1. Head(pending) = Write(RDSK, rdb) /\ Tail(pending) = <<>>
      BY <1>1, <2>1 DEF LinkTo, Links
    <3>2. /\ disk' \in [Blocks -> Content] /\ disk'[RDSK] = rdb
          /\ \A x \in Blocks \ {RDSK} : disk'[x] = disk[x]
          /\ crashes' = crashes /\ inits' = inits
      BY <1>2, <3>1, WriteStep
    <3> QED BY <1>1, <1>2, <2>1, <3>2 DEF HeadsPart
  <2>2. CASE P # <<>>
    <3> DEFINE last == P[Len(P)]
               c == Linked(disk[last], b)
               rest == <<Write(RDSK, rdb)>>
    <3>1. last \in Blocks \ {RDSK} /\ disk[last].magic = "PART"
      BY <1>0, <2>2, LastMagic
    <3>2. c \in Content
      BY <1>0, <1>3, <3>1, LinkedBlock DEF IsTable
    <3>3. Head(pending) = Write(last, c) /\ Tail(pending) = rest
      BY <1>1, <2>2 DEF LinkTo, Links
    <3> HIDE DEF last, c, rest
    <3>4. /\ disk' \in [Blocks -> Content] /\ disk'[last] = c
          /\ \A x \in Blocks \ {last} : disk'[x] = disk[x]
          /\ crashes' = crashes /\ inits' = inits
      BY <1>2, <3>1, <3>2, <3>3, WriteStep DEF rest
    <3>5. disk'[RDSK] = disk[RDSK]
      BY <1>2, <3>1, <3>4
    <3> QED BY <1>2, <2>2, <3>1, <3>4, <3>5 DEF last, c
  <2> QED BY <2>1, <2>2
<1>6. /\ IsTable(disk', Q, F, S) /\ InMemory(disk', F) = InMemory(disk, F)
      /\ PartsOn(disk') = Append(PartsOn(disk), PartRow(disk[b]))
      /\ DriversOn(disk') = DriversOn(disk)
  <2> DEFINE e == disk'
  <2>1. /\ e \in [Blocks -> Content] /\ e[RDSK].magic = "RDSK"
        /\ e[RDSK].fs_header_list = disk[RDSK].fs_header_list
        /\ e[RDSK].partition_list = IF P = <<>> THEN b ELSE disk[RDSK].partition_list
        /\ \A x \in Blocks \ {RDSK} :
             e[x] = IF P # <<>> /\ x = P[Len(P)] THEN Linked(disk[x], b) ELSE disk[x]
    BY <1>5
  <2>2. disk[b].magic = "PART" /\ disk[b].next = END
        /\ \A i \in 1..Len(P) : Apart(disk[b], disk[P[i]]) /\ Apart(disk[P[i]], disk[b])
    BY <1>1 DEF NewPart
  <2> HIDE DEF e
  <2>3. /\ IsTable(e, Append(P, b), F, S) /\ InMemory(e, F) = InMemory(disk, F)
        /\ PartsOn(e) = Append(PartsOn(disk), PartRow(disk[b]))
        /\ DriversOn(e) = DriversOn(disk)
    BY <1>0, <2>1, <2>2, AppendPart
  <2> QED BY <2>3 DEF e, Q
<1>7. TableStep
  <2>1. disk[b] \in Content /\ disk[b].magic = "PART"
        /\ \A i \in 1..Len(P) : Apart(disk[b], disk[P[i]]) /\ disk[b].name # disk[P[i]].name
    BY <1>1 DEF NewPart
  <2> QED BY <1>0, <1>6, <2>1, PartAdded
<1>8. TypeInv' /\ (Quiet(Q, F, {}) \/ Closes(Q, F, {}))' /\ rdb' = rdb /\ opened' = opened
  <2>1. CASE P = <<>>
    <3>1. Head(pending) = Write(RDSK, rdb) /\ Tail(pending) = <<>>
      BY <1>1, <2>1 DEF LinkTo, Links
    <3>2. disk'[RDSK] = rdb
      BY <1>2, <3>1, WriteStep
    <3>3. opened /\ reread = "parts" /\ fs = InMemory(disk', F)
      BY <1>1, <1>6 DEF Held
    <3>4. TypeInv' /\ Quiet(Q, F, {})' /\ rdb' = rdb /\ opened' = opened
      BY <1>2, <1>6, <3>1, <3>2, <3>3, LastWrite
    <3> QED BY <3>4
  <2>2. CASE P # <<>>
    <3> DEFINE last == P[Len(P)]
               c == Linked(disk[last], b)
               rest == <<Write(RDSK, rdb)>>
    <3>1. last \in Blocks \ {RDSK} /\ disk[last].magic = "PART"
      BY <1>0, <2>2, LastMagic
    <3>2. c \in Content
      BY <1>0, <1>3, <3>1, LinkedBlock DEF IsTable
    <3>3. Head(pending) = Write(last, c) /\ Tail(pending) = rest /\ rest # <<>>
      BY <1>1, <2>2 DEF LinkTo, Links
    <3> HIDE DEF last, c, rest
    <3>4. /\ pending' = rest /\ UNCHANGED <<rdb, parts, fs, opened, reread>> /\ TypeInv'
      <4>1. rest \in Seq(HeldBlock)
        BY <1>2 DEF rest
      <4> QED BY <1>2, <3>1, <3>2, <3>3, <4>1, WriteStep
    <3>5. Closes(Q, F, {})'
      BY <1>1, <1>5, <1>6, <2>2, <3>4 DEF Closes, Held, HeadsPart, rest
    <3> QED BY <3>4, <3>5
  <2> QED BY <2>1, <2>2
<1>9. HighInv(Q, F, S)'
  BY <1>0, <1>1, <1>4, <1>5, <1>8 DEF HighInv, Held
<1>10. ScanInv(Q, {})'
  <2>1. ASSUME NEW x \in Blocks, disk'[x].magic = "PART" PROVE disk[x].magic = "PART"
    <3>1. x # RDSK
      BY <1>5, <2>1
    <3>2. P # <<>> => disk[P[Len(P)]].magic = "PART"
      BY <1>0, LastMagic
    <3> QED BY <1>5, <2>1, <3>1, <3>2
  <2> QED BY <1>0, <1>1, <1>4, <1>5, <2>1 DEF ScanInv
<1>11. StageInv(Q, F, S, {})'
  BY <1>6, <1>8, <1>9, <1>10 DEF StageInv, Stage
<1> QED BY <1>1, <1>6, <1>7, <1>8, <1>11 DEF RInv

\* delete_partition unlinks a block: this write is the deletion.
LEMMA StepUnlinksPart ==
  ASSUME TypeInv, DeviceWrite, NEW P, NEW F, NEW S, NEW L, StageInv(P, F, S, L),
         UnlinksPart(P, F, S, L)
  PROVE  /\ RInv' /\ TableStep
         /\ DriversOn(disk') = DriversOn(disk)
         /\ \A i \in 1..Len(P) : pending[2].blk = P[i] =>
              PartsOn(disk') = RemoveAt(PartsOn(disk), i)
         /\ \E Q : \E b \in Blocks : StageInv(Q, F, S, {b})' /\ ScrubsPart(Q, F, S, {b})'
<1>0. IsTable(disk, P, F, S) /\ HighInv(P, F, S) /\ ScanInv(P, L)
  BY DEF StageInv
<1>1. PICK i \in 1..Len(P) :
        /\ Held(P, F)
        /\ rdb = IF i = 1 THEN [disk[RDSK] EXCEPT !.partition_list = disk[P[1]].next]
                 ELSE disk[RDSK]
        /\ pending = <<IF i = 1 THEN Write(RDSK, rdb)
                       ELSE Write(P[i - 1], Linked(disk[P[i - 1]], disk[P[i]].next)),
                       Write(P[i], Blank)>>
        /\ reread = "parts" /\ L = {}
  BY DEF UnlinksPart
<1> DEFINE Q == RemoveAt(P, i)
           b == P[i]
           rest == <<Write(b, Blank)>>
<1>2. /\ RDSK \in Blocks /\ rdb \in Content /\ rdb.magic = "RDSK"
      /\ disk[RDSK].magic = "RDSK" /\ disk[RDSK] \in Content
  BY <1>0, TableBlocks DEF TypeInv, Used, IsTable
<1>3. /\ \A x \in Used(Q, F, S) : x \in Used(P, F, S)
      /\ b \in Blocks \ Used(Q, F, S)
      /\ \A j \in 1..Len(P) : P[j] = b \/ \E k \in 1..Len(Q) : P[j] = Q[k]
  BY <1>0, UsedRemoved
<1>4. disk[b].next \in BlockNums
  <2>1. b \in Blocks /\ disk[b].magic = "PART"
    BY <1>0, TableBlocks
  <2> QED BY <1>0, <2>1, Kinds DEF IsTable
<1>5. rest \in Seq(HeldBlock) /\ rest # <<>>
  <2>1. Write(b, Blank) \in HeldBlock
    BY <1>3 DEF Write, HeldBlock, Content
  <2> QED BY <2>1
<1>6. Tail(pending) = rest
  BY <1>1
<1> HIDE DEF Q, b, rest
<1>7. /\ disk' \in [Blocks -> Content] /\ disk'[RDSK].magic = "RDSK"
      /\ disk'[RDSK].fs_header_list = disk[RDSK].fs_header_list
      /\ disk'[RDSK].partition_list = IF i = 1 THEN disk[P[1]].next
                                      ELSE disk[RDSK].partition_list
      /\ \A x \in Blocks \ {RDSK} :
           disk'[x] = IF i # 1 /\ x = P[i - 1] THEN Linked(disk[x], disk[P[i]].next)
                      ELSE disk[x]
      /\ disk'[RDSK] = rdb /\ TypeInv'
      /\ pending' = rest /\ crashes' = crashes /\ inits' = inits
      /\ UNCHANGED <<rdb, parts, fs, opened, reread>>
  <2>1. CASE i = 1
    <3>1. Head(pending) = Write(RDSK, rdb)
      BY <1>1, <2>1
    <3>2. /\ disk' \in [Blocks -> Content] /\ disk'[RDSK] = rdb
          /\ \A x \in Blocks \ {RDSK} : disk'[x] = disk[x]
          /\ pending' = rest /\ crashes' = crashes /\ inits' = inits
          /\ UNCHANGED <<rdb, parts, fs, opened, reread>> /\ TypeInv'
      BY <1>2, <1>5, <1>6, <3>1, WriteStep
    <3>3. rdb.fs_header_list = disk[RDSK].fs_header_list /\ rdb.partition_list = disk[P[1]].next
      BY <1>1, <1>2, <2>1, Kinds
    <3> QED BY <1>2, <2>1, <3>2, <3>3
  <2>2. CASE i # 1
    <3> DEFINE prev == P[i - 1]
               c == Linked(disk[prev], disk[P[i]].next)
    <3>1. prev \in Blocks \ {RDSK} /\ disk[prev].magic = "PART"
      <4>1. i - 1 \in 1..Len(P)
        BY <1>0, <2>2, TableBlocks
      <4> QED BY <1>0, <4>1, TableBlocks
    <3>2. c \in Content
      BY <1>0, <1>4, <3>1, LinkedBlock DEF IsTable, b
    <3>3. Head(pending) = Write(prev, c)
      BY <1>1, <2>2
    <3> HIDE DEF prev, c
    <3>4. /\ disk' \in [Blocks -> Content] /\ disk'[prev] = c
          /\ \A x \in Blocks \ {prev} : disk'[x] = disk[x]
          /\ pending' = rest /\ crashes' = crashes /\ inits' = inits
          /\ UNCHANGED <<rdb, parts, fs, opened, reread>> /\ TypeInv'
      BY <1>5, <1>6, <3>1, <3>2, <3>3, WriteStep
    <3>5. disk'[RDSK] = disk[RDSK] /\ rdb = disk[RDSK]
      BY <1>1, <1>2, <2>2, <3>1, <3>4
    <3> QED BY <1>2, <2>2, <3>1, <3>4, <3>5 DEF prev, c
  <2> QED BY <2>1, <2>2
<1>8. /\ IsTable(disk', Q, F, S) /\ InMemory(disk', F) = InMemory(disk, F)
      /\ PartsOn(disk') = RemoveAt(PartsOn(disk), i)
      /\ DriversOn(disk') = DriversOn(disk)
  <2> DEFINE e == disk'
  <2>1. /\ e \in [Blocks -> Content] /\ e[RDSK].magic = "RDSK"
        /\ e[RDSK].fs_header_list = disk[RDSK].fs_header_list
        /\ e[RDSK].partition_list = IF i = 1 THEN disk[P[1]].next ELSE disk[RDSK].partition_list
        /\ \A x \in Blocks \ {RDSK} :
             e[x] = IF i # 1 /\ x = P[i - 1] THEN Linked(disk[x], disk[P[i]].next)
                    ELSE disk[x]
    BY <1>7
  <2> HIDE DEF e
  <2>2. /\ IsTable(e, RemoveAt(P, i), F, S) /\ InMemory(e, F) = InMemory(disk, F)
        /\ PartsOn(e) = RemoveAt(PartsOn(disk), i)
        /\ DriversOn(e) = DriversOn(disk)
    BY <1>0, <2>1, RemovePart
  <2> QED BY <2>2 DEF e, Q
<1>9. TableStep
  BY <1>0, <1>8, PartRemoved
<1>10. ScrubsPart(Q, F, S, {b})'
  BY <1>1, <1>3, <1>7, <1>8 DEF ScrubsPart, Held, rest
<1>11. HighInv(Q, F, S)'
  BY <1>0, <1>1, <1>3, <1>7 DEF HighInv, Held
<1>12. ScanInv(Q, {b})'
  <2>1. ASSUME NEW x \in Blocks, disk'[x].magic = "PART" PROVE disk[x].magic = "PART"
    <3>1. x # RDSK
      BY <1>7, <2>1
    <3>2. i # 1 => disk[P[i - 1]].magic = "PART"
      <4>1. i # 1 => i - 1 \in 1..Len(P)
        BY <1>0, TableBlocks
      <4> QED BY <1>0, <4>1, TableBlocks
    <3> QED BY <1>7, <2>1, <3>1, <3>2
  <2> QED BY <1>0, <1>1, <1>3, <1>7, <2>1 DEF ScanInv
<1>13. StageInv(Q, F, S, {b})'
  BY <1>8, <1>10, <1>11, <1>12 DEF StageInv, Stage
<1>14. \A j \in 1..Len(P) : pending[2].blk = P[j] => j = i
  <2>1. pending[2].blk = P[i]
    BY <1>1 DEF Write
  <2> QED BY <1>0, <2>1 DEF IsTable, PartTable, Chain
<1> QED BY <1>3, <1>7, <1>8, <1>9, <1>10, <1>13, <1>14 DEF RInv

-----------------------------------------------------------------------------
(* The stages of add_filesystem *)

\* The blocks of a new driver are well typed.
LEMMA DriverBlocks ==
  ASSUME NEW t \in DosTypes, NEW w \in Seq(Blocks)
  PROVE  /\ HeaderBlock(t, w) \in Content /\ HeaderBlock(t, w).magic = "FSHD"
         /\ \A i \in 1..Len(w) : /\ ChunkBlock(t, w, i) \in Content
                                 /\ ChunkBlock(t, w, i).magic = "LSEG"
<1>1. Len(w) \in Nat /\ \A i \in 1..Len(w) : w[i] \in Blocks
  BY LenProperties, ElementOfSeq
<1>2. \A i \in 1 .. Len(w) + 1 : Link(w, i) \in BlockNums
  BY <1>1 DEF Link, BlockNums
<1>3. Link(w, 1) \in BlockNums /\ \A i \in 1..Len(w) : Link(w, i + 1) \in BlockNums /\ i \in Nat
  BY <1>1, <1>2
<1>4. HeaderBlock(t, w) \in Content /\ HeaderBlock(t, w).magic = "FSHD"
  BY <1>3 DEF HeaderBlock, FSHeaderBlock, Content, BlockNums
<1>5. ASSUME NEW i \in 1..Len(w)
      PROVE  ChunkBlock(t, w, i) \in Content /\ ChunkBlock(t, w, i).magic = "LSEG"
  BY <1>3 DEF ChunkBlock, LoadSegBlock, Content
<1> QED BY <1>4, <1>5

\* The chunks of a driver are written one after the other.
LEMMA DriverWrites ==
  ASSUME NEW t \in DosTypes, NEW w \in Seq(Blocks), NEW k \in 0..Len(w),
         NEW rest \in Seq(HeldBlock)
  PROVE  /\ k = Len(w) => ChunkWrites(t, w, k) \o rest = rest
         /\ k # Len(w) =>
              /\ Head(ChunkWrites(t, w, k) \o rest) = Write(w[k + 1], ChunkBlock(t, w, k + 1))
              /\ Tail(ChunkWrites(t, w, k) \o rest) = ChunkWrites(t, w, k + 1) \o rest
         /\ ChunkWrites(t, w, k) \o rest \in Seq(HeldBlock)
         /\ rest # <<>> => ChunkWrites(t, w, k) \o rest # <<>>
<1>0. Len(w) \in Nat /\ Len(rest) \in Nat /\ \A i \in 1..Len(w) : w[i] \in Blocks
  BY LenProperties, ElementOfSeq
<1>1. ASSUME NEW m \in 0..Len(w)
      PROVE  /\ ChunkWrites(t, w, m) \in Seq(HeldBlock)
             /\ Len(ChunkWrites(t, w, m)) = Len(w) - m
             /\ \A i \in 1 .. Len(w) - m :
                  ChunkWrites(t, w, m)[i] = Write(w[m + i], ChunkBlock(t, w, m + i))
  <2>1. \A i \in 1 .. Len(w) - m : m + i \in 1..Len(w)
    BY <1>0
  <2>2. \A i \in 1 .. Len(w) - m : Write(w[m + i], ChunkBlock(t, w, m + i)) \in HeldBlock
    BY <1>0, <2>1, DriverBlocks DEF Write, HeldBlock
  <2>3. Len(w) - m \in Nat
    BY <1>0
  <2>4. ChunkWrites(t, w, m) \in [1 .. Len(w) - m -> HeldBlock]
    BY <2>2 DEF ChunkWrites
  <2>5. \A i \in 1 .. Len(w) - m :
          ChunkWrites(t, w, m)[i] = Write(w[m + i], ChunkBlock(t, w, m + i))
    BY DEF ChunkWrites
  <2>6. ChunkWrites(t, w, m) \in Seq(HeldBlock) /\ Len(ChunkWrites(t, w, m)) = Len(w) - m
    BY <2>3, <2>4
  <2> QED BY <2>5, <2>6
<1>2. ASSUME NEW m \in 0..Len(w)
      PROVE  /\ ChunkWrites(t, w, m) \o rest \in Seq(HeldBlock)
             /\ Len(ChunkWrites(t, w, m) \o rest) = (Len(w) - m) + Len(rest)
             /\ \A i \in 1 .. (Len(w) - m) + Len(rest) :
                  (ChunkWrites(t, w, m) \o rest)[i] =
                    IF i <= Len(w) - m THEN Write(w[m + i], ChunkBlock(t, w, m + i))
                    ELSE rest[i - (Len(w) - m)]
  <2> DEFINE g == ChunkWrites(t, w, m)
             n == Len(w) - m
  <2>1. g \in Seq(HeldBlock) /\ Len(g) = n /\ n \in Nat
        /\ \A i \in 1..n : g[i] = Write(w[m + i], ChunkBlock(t, w, m + i))
    BY <1>0, <1>1
  <2> HIDE DEF g, n
  <2>2. /\ g \o rest \in Seq(HeldBlock) /\ Len(g \o rest) = n + Len(rest)
        /\ \A i \in 1 .. n + Len(rest) :
             (g \o rest)[i] = IF i <= n THEN g[i] ELSE rest[i - n]
    BY <2>1, ConcatProperties
  <2>3. \A i \in 1 .. n + Len(rest) : i <= n => i \in 1..n
    BY <1>0, <2>1
  <2>4. \A i \in 1 .. n + Len(rest) :
          (g \o rest)[i] = IF i <= n THEN Write(w[m + i], ChunkBlock(t, w, m + i))
                           ELSE rest[i - n]
    BY <2>1, <2>2, <2>3
  <2> QED BY <2>2, <2>4 DEF g, n
<1> DEFINE q == ChunkWrites(t, w, k) \o rest
<1>3. q \in Seq(HeldBlock) /\ Len(q) = (Len(w) - k) + Len(rest)
      /\ \A i \in 1 .. (Len(w) - k) + Len(rest) :
           q[i] = IF i <= Len(w) - k THEN Write(w[k + i], ChunkBlock(t, w, k + i))
                  ELSE rest[i - (Len(w) - k)]
  BY <1>2
<1> HIDE DEF q
<1>4. ASSUME k = Len(w) PROVE q = rest
  <2>1. Len(q) = Len(rest)
    BY <1>0, <1>3, <1>4
  <2>2. ASSUME NEW i \in 1..Len(rest) PROVE q[i] = rest[i]
    <3>1. i \in 1 .. (Len(w) - k) + Len(rest) /\ ~(i <= Len(w) - k) /\ i - (Len(w) - k) = i
      BY <1>0, <1>4
    <3> QED BY <1>3, <3>1
  <2> QED BY <1>3, <2>1, <2>2, SeqEqual
<1>5. ASSUME k # Len(w)
      PROVE  /\ Head(q) = Write(w[k + 1], ChunkBlock(t, w, k + 1))
             /\ Tail(q) = ChunkWrites(t, w, k + 1) \o rest
  <2>1. k + 1 \in 0..Len(w) /\ 1 \in 1 .. (Len(w) - k) + Len(rest) /\ 1 <= Len(w) - k
    BY <1>0, <1>5
  <2>2. q # <<>> /\ q[1] = Write(w[k + 1], ChunkBlock(t, w, k + 1))
    BY <1>3, <2>1, EmptySeq
  <2>3. Head(q) = Write(w[k + 1], ChunkBlock(t, w, k + 1))
    BY <1>3, <2>2, SMT
  <2> DEFINE r == ChunkWrites(t, w, k + 1) \o rest
             n == (Len(w) - (k + 1)) + Len(rest)
  <2>4. r \in Seq(HeldBlock) /\ Len(r) = n
        /\ \A i \in 1..n :
             r[i] = IF i <= Len(w) - (k + 1)
                    THEN Write(w[(k + 1) + i], ChunkBlock(t, w, (k + 1) + i))
                    ELSE rest[i - (Len(w) - (k + 1))]
    BY <1>2, <2>1
  <2>5. Tail(q) \in Seq(HeldBlock) /\ Len(Tail(q)) = n
        /\ \A i \in 1..n : Tail(q)[i] = q[i + 1]
    <3>1. Len(q) - 1 = n
      BY <1>0, <1>3
    <3> QED BY <1>3, <2>2, <3>1, HeadTailProperties
  <2> HIDE DEF r
  <2>6. ASSUME NEW i \in 1..n PROVE Tail(q)[i] = r[i]
    <3>1. /\ i + 1 \in 1 .. (Len(w) - k) + Len(rest)
          /\ i + 1 <= Len(w) - k <=> i <= Len(w) - (k + 1)
          /\ k + (i + 1) = (k + 1) + i
          /\ (i + 1) - (Len(w) - k) = i - (Len(w) - (k + 1))
      BY <1>0, <2>1
    <3>2. q[i + 1] = IF i + 1 <= Len(w) - k
                     THEN Write(w[k + (i + 1)], ChunkBlock(t, w, k + (i + 1)))
                     ELSE rest[(i + 1) - (Len(w) - k)]
      BY <1>3, <3>1
    <3>3. q[i + 1] = IF i <= Len(w) - (k + 1)
                     THEN Write(w[(k + 1) + i], ChunkBlock(t, w, (k + 1) + i))
                     ELSE rest[i - (Len(w) - (k + 1))]
      BY <3>1, <3>2
    <3> QED BY <2>4, <2>5, <3>3
  <2> HIDE DEF n
  <2>7. Tail(q) = r
    BY <2>4, <2>5, <2>6, SeqEqual
  <2> QED BY <2>3, <2>7 DEF r
<1>6. rest # <<>> => q # <<>>
  <2>1. rest # <<>> => Len(rest) # 0
    BY EmptySeq
  <2>2. rest # <<>> => Len(q) # 0
    BY <1>0, <1>3, <2>1
  <2> QED BY <2>2, EmptySeq
<1> QED BY <1>3, <1>4, <1>5, <1>6 DEF q

\* add_filesystem writes a chunk, or the header after the last chunk.
LEMMA StepWritesDriver ==
  ASSUME TypeInv, DeviceWrite, NEW P, NEW F, NEW S, NEW L, StageInv(P, F, S, L),
         WritesDriver(P, F, S, L)
  PROVE  RInv' /\ TableStep
<1>0. IsTable(disk, P, F, S) /\ HighInv(P, F, S) /\ ScanInv(P, L)
  BY DEF StageInv
<1>1. PICK t \in DosTypes, b \in Blocks, w \in Seq(Blocks) : \E k \in 0..Len(w) :
        /\ Held(P, F) /\ NewDriver(t, b, w, P, F, S) /\ HeadsDriver(F, b)
        /\ \A i \in 1..k : disk[w[i]] = ChunkBlock(t, w, i)
        /\ pending = ChunkWrites(t, w, k) \o (<<Write(b, HeaderBlock(t, w))>> \o LinkTo(F, b))
        /\ reread = "fs" /\ L = {}
  BY DEF WritesDriver
<1>2. PICK k \in 0..Len(w) :
        /\ Held(P, F) /\ NewDriver(t, b, w, P, F, S) /\ HeadsDriver(F, b)
        /\ \A i \in 1..k : disk[w[i]] = ChunkBlock(t, w, i)
        /\ pending = ChunkWrites(t, w, k) \o (<<Write(b, HeaderBlock(t, w))>> \o LinkTo(F, b))
        /\ reread = "fs" /\ L = {}
  BY <1>1
<1> DEFINE links == LinkTo(F, b)
           after == <<Write(b, HeaderBlock(t, w))>> \o links
           more == ChunkWrites(t, w, k + 1) \o after
<1>3. Len(w) \in Nat /\ b # RDSK /\ b \in Blocks \ Used(P, F, S)
      /\ \A i \in 1..Len(w) : w[i] \in Blocks \ Used(P, F, S) /\ w[i] # b
  <2>1. \A i \in 1..Len(w) : w[i] \in Blocks
    BY ElementOfSeq
  <2> QED BY <1>0, <1>2, <2>1, LenProperties, TableBlocks DEF NewDriver
<1>4. links \in Seq(HeldBlock) /\ links # <<>>
  BY ZenonT(40), <1>0, LastMagic, LinkWrites
<1>5. Write(b, HeaderBlock(t, w)) \in HeldBlock
  BY DriverBlocks DEF Write, HeldBlock
<1>6. after \in Seq(HeldBlock) /\ Head(after) = Write(b, HeaderBlock(t, w)) /\ Tail(after) = links
  BY <1>4, <1>5, FirstWrite
<1>7. after # <<>>
  <2>1. Len(links) # 0 /\ Len(links) \in Nat
    BY <1>4, EmptySeq, LenProperties
  <2>2. <<Write(b, HeaderBlock(t, w))>> \in Seq(HeldBlock)
        /\ Len(<<Write(b, HeaderBlock(t, w))>>) = 1
    BY <1>5
  <2>3. Len(after) = 1 + Len(links)
    BY <1>4, <2>2, ConcatProperties
  <2> QED BY <2>1, <2>3, EmptySeq
<1> HIDE DEF links, after
\* What is the same in both cases.
<1>8. ASSUME NEW x \in Blocks \ Used(P, F, S), NEW c \in Content, c.magic # "PART",
             NEW rest \in Seq(HeldBlock), rest # <<>>,
             Head(pending) = Write(x, c), Tail(pending) = rest
      PROVE  /\ pending' = rest /\ UNCHANGED <<rdb, parts, fs, opened, reread>> /\ TypeInv'
             /\ IsTable(disk', P, F, S) /\ disk'[x] = c
             /\ \A y \in Blocks \ {x} : disk'[y] = disk[y]
             /\ Held(P, F)' /\ NewDriver(t, b, w, P, F, S)' /\ HeadsDriver(F, b)'
             /\ LinkTo(F, b)' = links
             /\ HighInv(P, F, S)' /\ ScanInv(P, {})' /\ TableStep
  <2>1. /\ pending' = rest /\ crashes' = crashes /\ inits' = inits
        /\ UNCHANGED <<rdb, parts, fs, opened, reread>> /\ TypeInv'
    BY <1>8, WriteStep
  <2>2. /\ IsTable(disk', P, F, S) /\ disk'[x] = c
        /\ InMemory(disk', P) = InMemory(disk, P) /\ InMemory(disk', F) = InMemory(disk, F)
        /\ \A y \in Blocks \ {x} : disk'[y] = disk[y]
        /\ disk'[RDSK] = disk[RDSK] /\ TableStep
    BY <1>0, <1>8, Aside
  <2>3. Held(P, F)' /\ HeadsDriver(F, b)'
    BY <1>2, <2>1, <2>2 DEF Held, HeadsDriver
  <2>4. NewDriver(t, b, w, P, F, S)'
    <3>1. \A i \in 1..Len(F) : disk'[F[i]] = disk[F[i]]
      BY SMTT(40), <1>0, <1>8, <2>2, TableBlocks
    <3> QED BY <1>2, <2>1, <3>1 DEF NewDriver
  <2>5. LinkTo(F, b)' = links
    <3>1. F # <<>> => disk'[F[Len(F)]] = disk[F[Len(F)]]
      BY <1>0, <2>2, LastMagic
    <3> QED BY <2>1, <3>1, SameLink DEF links
  <2>6. HighInv(P, F, S)'
    BY <1>0, <1>2, <2>1 DEF HighInv, Held
  <2>7. ScanInv(P, {})'
    BY <1>0, <1>2, <1>8, <2>1, <2>2 DEF ScanInv
  <2> QED BY <2>1, <2>2, <2>3, <2>4, <2>5, <2>6, <2>7
<1>9. CASE k # Len(w)
  <2> DEFINE x == w[k + 1]
             c == ChunkBlock(t, w, k + 1)
  <2>1. k + 1 \in 0..Len(w) /\ k + 1 \in 1..Len(w) /\ k \in Nat
    BY <1>3, <1>9
  <2>2. x \in Blocks \ Used(P, F, S) /\ c \in Content /\ c.magic # "PART"
    BY <1>3, <2>1, DriverBlocks
  <2>3. Head(pending) = Write(x, c) /\ Tail(pending) = more
    BY <1>2, <1>6, <1>9, DriverWrites DEF after, links
  <2>4. more \in Seq(HeldBlock) /\ more # <<>>
    BY <1>6, <1>7, <2>1, DriverWrites
  <2> HIDE DEF x, c, more
  <2>5. /\ pending' = more /\ UNCHANGED <<rdb, parts, fs, opened, reread>> /\ TypeInv'
        /\ IsTable(disk', P, F, S) /\ disk'[x] = c
        /\ \A y \in Blocks \ {x} : disk'[y] = disk[y]
        /\ Held(P, F)' /\ NewDriver(t, b, w, P, F, S)' /\ HeadsDriver(F, b)'
        /\ LinkTo(F, b)' = links
        /\ HighInv(P, F, S)' /\ ScanInv(P, {})' /\ TableStep
    BY <1>8, <2>2, <2>3, <2>4
  <2>6. ASSUME NEW i \in 1 .. k + 1 PROVE disk'[w[i]] = ChunkBlock(t, w, i)
    <3>1. CASE i = k + 1
      BY <2>5, <3>1 DEF x, c
    <3>2. CASE i # k + 1
      <4>1. i \in 1..k /\ i \in 1..Len(w)
        BY <1>3, <2>1, <3>2
      <4>2. w[i] # x
        BY <1>2, <2>1, <3>2, <4>1 DEF NewDriver, x
      <4> QED BY <1>2, <1>3, <2>5, <4>1, <4>2
    <3> QED BY <3>1, <3>2
  <2>7. WritesDriver(P, F, S, {})'
    <3>1. (/\ Held(P, F) /\ NewDriver(t, b, w, P, F, S) /\ HeadsDriver(F, b)
           /\ \A i \in 1 .. k + 1 : disk[w[i]] = ChunkBlock(t, w, i)
           /\ pending = ChunkWrites(t, w, k + 1)
                          \o (<<Write(b, HeaderBlock(t, w))>> \o LinkTo(F, b))
           /\ reread = "fs")'
      BY <1>2, <2>5, <2>6 DEF more, after, links
    <3> QED BY <2>1, <3>1 DEF WritesDriver
  <2>8. StageInv(P, F, S, {})'
    BY <2>5, <2>7 DEF StageInv, Stage
  <2> QED BY <2>5, <2>8 DEF RInv
<1>10. CASE k = Len(w)
  <2> DEFINE c == HeaderBlock(t, w)
  <2>1. pending = after
    BY <1>2, <1>6, <1>10, DriverWrites DEF after, links
  <2>2. Head(pending) = Write(b, c) /\ Tail(pending) = links
    BY <1>6, <2>1
  <2>3. c \in Content /\ c.magic # "PART"
    BY DriverBlocks
  <2> HIDE DEF c
  <2>4. /\ pending' = links /\ UNCHANGED <<rdb, parts, fs, opened, reread>> /\ TypeInv'
        /\ IsTable(disk', P, F, S) /\ disk'[b] = c
        /\ \A y \in Blocks \ {b} : disk'[y] = disk[y]
        /\ Held(P, F)' /\ NewDriver(t, b, w, P, F, S)' /\ HeadsDriver(F, b)'
        /\ LinkTo(F, b)' = links
        /\ HighInv(P, F, S)' /\ ScanInv(P, {})' /\ TableStep
    BY <1>3, <1>4, <1>8, <2>2, <2>3
  <2>5. \A i \in 1..Len(w) : disk'[w[i]] = ChunkBlock(t, w, i)
    BY <1>2, <1>3, <1>10, <2>4
  <2>6. LinksDriver(P, F, S, {})'
    BY <1>2, <2>4, <2>5 DEF LinksDriver, c
  <2>7. StageInv(P, F, S, {})'
    BY <2>4, <2>6 DEF StageInv, Stage
  <2> QED BY <2>4, <2>7 DEF RInv
<1> QED BY <1>9, <1>10

\* What a table with one more driver uses: its header and its chunks as well.
LEMMA UsedDriver ==
  ASSUME NEW d, NEW P, NEW F, NEW S, IsTable(d, P, F, S),
         NEW b \in Blocks, NEW w \in Seq(Blocks)
  PROVE  \A x \in Used(P, Append(F, b), Append(S, w)) :
            x \in Used(P, F, S) \/ x = b \/ \E k \in 1..Len(w) : x = w[k]
<1> DEFINE G == Append(F, b)
           R == Append(S, w)
<1>1. /\ F \in Seq(Blocks) /\ Len(F) \in Nat
      /\ S \in Seq(Seq(Blocks)) /\ Len(S) = Len(F)
  <2>1. F \in Seq(Blocks) /\ Len(F) \in Nat
    BY TableBlocks
  <2>2. S \in Seq(Seq(Blocks)) /\ Len(S) = Len(F)
    BY DEF IsTable, DriverTable
  <2> QED BY <2>1, <2>2
<1>2. /\ Len(G) = Len(F) + 1 /\ G[Len(F) + 1] = b /\ R[Len(F) + 1] = w
      /\ \A i \in 1..Len(F) : G[i] = F[i] /\ R[i] = S[i]
  <2>1. Len(G) = Len(F) + 1 /\ G[Len(F) + 1] = b /\ \A i \in 1..Len(F) : G[i] = F[i]
    BY <1>1, AppendProperties
  <2>2. R[Len(S) + 1] = w /\ \A i \in 1..Len(S) : R[i] = S[i]
    BY <1>1, AppendProperties
  <2> QED BY <1>1, <2>1, <2>2
<1> HIDE DEF G, R
<1>3. ASSUME NEW i \in 1..Len(G)
      PROVE  \/ G[i] = b /\ R[i] = w
             \/ i \in 1..Len(F) /\ G[i] = F[i] /\ R[i] = S[i]
  BY <1>1, <1>2
<1>4. ASSUME NEW x \in Used(P, G, R)
      PROVE  x \in Used(P, F, S) \/ x = b \/ \E k \in 1..Len(w) : x = w[k]
  <2>1. CASE x = RDSK \/ \E i \in 1..Len(P) : x = P[i]
    BY <1>4, <2>1 DEF Used
  <2>2. CASE \E i \in 1..Len(G) : x = G[i] \/ \E k \in 1..Len(R[i]) : x = R[i][k]
    <3>1. PICK i \in 1..Len(G) : x = G[i] \/ \E k \in 1..Len(R[i]) : x = R[i][k]
      BY <2>2
    <3>2. CASE G[i] = b /\ R[i] = w
      BY <3>1, <3>2
    <3>3. CASE i \in 1..Len(F) /\ G[i] = F[i] /\ R[i] = S[i]
      BY <1>4, <3>1, <3>3 DEF Used
    <3> QED BY <1>3, <3>2, <3>3
  <2> QED BY <1>4, <2>1, <2>2 DEF Used
<1> QED BY <1>4 DEF G, R

\* add_filesystem links its header: this write embeds the driver.
LEMMA StepLinksDriver ==
  ASSUME TypeInv, DeviceWrite, NEW P, NEW F, NEW S, NEW L, StageInv(P, F, S, L),
         LinksDriver(P, F, S, L)
  PROVE  RInv' /\ TableStep
<1>0. IsTable(disk, P, F, S) /\ HighInv(P, F, S) /\ ScanInv(P, L)
  BY DEF StageInv
<1>1. PICK t \in DosTypes, b \in Blocks, w \in Seq(Blocks) :
        /\ Held(P, F) /\ NewDriver(t, b, w, P, F, S) /\ HeadsDriver(F, b)
        /\ \A i \in 1..Len(w) : disk[w[i]] = ChunkBlock(t, w, i)
        /\ disk[b] = HeaderBlock(t, w)
        /\ pending = LinkTo(F, b)
        /\ reread = "fs" /\ L = {}
  BY DEF LinksDriver
<1> DEFINE G == Append(F, b)
           R == Append(S, w)
<1>2. /\ RDSK \in Blocks /\ rdb \in Content /\ rdb.magic = "RDSK"
      /\ disk[RDSK].magic = "RDSK" /\ <<>> \in Seq(HeldBlock)
      /\ Write(RDSK, rdb) \in HeldBlock /\ <<Write(RDSK, rdb)>> \in Seq(HeldBlock)
  <2>1. RDSK \in Blocks /\ rdb \in Content
    BY <1>0, TableBlocks DEF TypeInv, Used
  <2>2. Write(RDSK, rdb) \in HeldBlock
    BY <2>1 DEF Write, HeldBlock
  <2> QED BY <1>0, <2>1, <2>2, EmptySeq DEF TypeInv, IsTable
<1>3. b \in Blocks \ Used(P, F, S) /\ b # RDSK /\ b \in BlockNums
  BY <1>0, <1>1, TableBlocks DEF BlockNums, NewDriver
<1>4. \A x \in Used(P, G, R) : x \in Used(P, F, S) \/ x = b \/ \E k \in 1..Len(w) : x = w[k]
  BY <1>0, UsedDriver
<1>5. /\ Chunks(disk, b, w) /\ disk[b].magic = "FSHD" /\ disk[b].next = END
      /\ disk[b].dos_type = t
  <2>1. /\ disk[b].magic = "FSHD" /\ disk[b].next = END
        /\ disk[b].dos_type = t /\ disk[b].seg_list = Link(w, 1)
    BY <1>1 DEF HeaderBlock, FSHeaderBlock
  <2>2. ASSUME NEW i \in 1..Len(w)
        PROVE  /\ disk[w[i]].magic = "LSEG" /\ disk[w[i]].next = Link(w, i + 1)
               /\ disk[w[i]].of = t /\ disk[w[i]].chunk = i
    <3>1. disk[w[i]] = LoadSegBlock(Link(w, i + 1), t, i)
      BY <1>1 DEF ChunkBlock
    <3> QED BY <3>1 DEF LoadSegBlock
  <2>3. Len(w) \in DriverSizes /\ \A i, j \in 1..Len(w) : w[i] = w[j] => i = j
    BY <1>1 DEF NewDriver
  <2>4. Chain(disk, disk[b].seg_list, "LSEG", w)
    BY <2>1, <2>2, <2>3 DEF Chain
  <2> QED BY <2>1, <2>2, <2>3, <2>4 DEF Chunks
<1> HIDE DEF G, R
<1>6. /\ disk' \in [Blocks -> Content] /\ disk'[RDSK].magic = "RDSK"
      /\ disk'[RDSK].partition_list = disk[RDSK].partition_list
      /\ disk'[RDSK].fs_header_list = IF F = <<>> THEN b ELSE disk[RDSK].fs_header_list
      /\ \A x \in Blocks \ {RDSK} :
           disk'[x] = IF F # <<>> /\ x = F[Len(F)] THEN Linked(disk[x], b) ELSE disk[x]
      /\ crashes' = crashes /\ inits' = inits
  <2>1. CASE F = <<>>
    <3>1. Head(pending) = Write(RDSK, rdb) /\ Tail(pending) = <<>>
      BY <1>1, <2>1 DEF LinkTo, Links
    <3>2. /\ disk' \in [Blocks -> Content] /\ disk'[RDSK] = rdb
          /\ \A x \in Blocks \ {RDSK} : disk'[x] = disk[x]
          /\ crashes' = crashes /\ inits' = inits
      BY <1>2, <3>1, WriteStep
    <3> QED BY <1>1, <1>2, <2>1, <3>2 DEF HeadsDriver
  <2>2. CASE F # <<>>
    <3> DEFINE last == F[Len(F)]
               c == Linked(disk[last], b)
               rest == <<Write(RDSK, rdb)>>
    <3>1. last \in Blocks \ {RDSK} /\ disk[last].magic = "FSHD"
      BY <1>0, <2>2, LastMagic
    <3>2. c \in Content
      BY <1>0, <1>3, <3>1, LinkedBlock DEF IsTable
    <3>3. Head(pending) = Write(last, c) /\ Tail(pending) = rest
      BY <1>1, <2>2 DEF LinkTo, Links
    <3> HIDE DEF last, c, rest
    <3>4. /\ disk' \in [Blocks -> Content] /\ disk'[last] = c
          /\ \A x \in Blocks \ {last} : disk'[x] = disk[x]
          /\ crashes' = crashes /\ inits' = inits
      BY <1>2, <3>1, <3>2, <3>3, WriteStep DEF rest
    <3>5. disk'[RDSK] = disk[RDSK]
      BY <1>2, <3>1, <3>4
    <3> QED BY <1>2, <2>2, <3>1, <3>4, <3>5 DEF last, c
  <2> QED BY <2>1, <2>2
<1>7. /\ IsTable(disk', P, G, R) /\ InMemory(disk', P) = InMemory(disk, P)
      /\ PartsOn(disk') = PartsOn(disk)
      /\ DriversOn(disk') = Append(DriversOn(disk), DriverRow(disk[b], w))
  <2> DEFINE e == disk'
  <2>1. /\ e \in [Blocks -> Content] /\ e[RDSK].magic = "RDSK"
        /\ e[RDSK].partition_list = disk[RDSK].partition_list
        /\ e[RDSK].fs_header_list = IF F = <<>> THEN b ELSE disk[RDSK].fs_header_list
        /\ \A x \in Blocks \ {RDSK} :
             e[x] = IF F # <<>> /\ x = F[Len(F)] THEN Linked(disk[x], b) ELSE disk[x]
    BY <1>6
  <2>2. \A i \in 1..Len(F) : disk[b].dos_type # disk[F[i]].dos_type
    BY <1>1, <1>5 DEF NewDriver
  <2> HIDE DEF e
  <2>3. /\ IsTable(e, P, Append(F, b), Append(S, w)) /\ InMemory(e, P) = InMemory(disk, P)
        /\ PartsOn(e) = PartsOn(disk)
        /\ DriversOn(e) = Append(DriversOn(disk), DriverRow(disk[b], w))
    BY <1>0, <1>3, <1>5, <2>1, <2>2, AppendDriver
  <2> QED BY <2>3 DEF e, G, R
<1>8. TableStep
  <2>1. DriverRow(disk[b], w) = [dos_type |-> t, segs |-> Len(w)]
    BY <1>5 DEF DriverRow
  <2>2. Len(w) \in DriverSizes /\ \A i \in 1..Len(F) : t # disk[F[i]].dos_type
    BY <1>1 DEF NewDriver
  <2>3. DriversOn(disk') = Append(DriversOn(disk), [dos_type |-> t, segs |-> Len(w)])
    BY <1>7, <2>1
  <2> QED BY <1>0, <1>7, <2>2, <2>3, DriverAdded
<1>9. TypeInv' /\ (Quiet(P, G, {}) \/ Closes(P, G, {}))' /\ rdb' = rdb /\ opened' = opened
  <2>1. CASE F = <<>>
    <3>1. Head(pending) = Write(RDSK, rdb) /\ Tail(pending) = <<>>
      BY <1>1, <2>1 DEF LinkTo, Links
    <3>2. disk'[RDSK] = rdb
      BY <1>2, <3>1, WriteStep
    <3>3. opened /\ reread = "fs" /\ parts = InMemory(disk', P)
      BY <1>1, <1>7 DEF Held
    <3>4. TypeInv' /\ Quiet(P, G, {})' /\ rdb' = rdb /\ opened' = opened
      BY <1>2, <1>7, <3>1, <3>2, <3>3, LastWrite
    <3> QED BY <3>4
  <2>2. CASE F # <<>>
    <3> DEFINE last == F[Len(F)]
               c == Linked(disk[last], b)
               rest == <<Write(RDSK, rdb)>>
    <3>1. last \in Blocks \ {RDSK} /\ disk[last].magic = "FSHD"
      BY <1>0, <2>2, LastMagic
    <3>2. c \in Content
      BY <1>0, <1>3, <3>1, LinkedBlock DEF IsTable
    <3>3. Head(pending) = Write(last, c) /\ Tail(pending) = rest /\ rest # <<>>
      BY <1>1, <2>2 DEF LinkTo, Links
    <3> HIDE DEF last, c, rest
    <3>4. /\ pending' = rest /\ UNCHANGED <<rdb, parts, fs, opened, reread>> /\ TypeInv'
      <4>1. rest \in Seq(HeldBlock)
        BY <1>2 DEF rest
      <4> QED BY <3>1, <3>2, <3>3, <4>1, WriteStep
    <3>5. Closes(P, G, {})'
      BY <1>1, <1>6, <1>7, <2>2, <3>4 DEF Closes, Held, HeadsDriver, rest
    <3> QED BY <3>4, <3>5
  <2> QED BY <2>1, <2>2
<1>10. HighInv(P, G, R)'
  <2>1. opened /\ b <= rdb.high_rdsk_block /\ \A k \in 1..Len(w) : w[k] <= rdb.high_rdsk_block
    BY <1>1 DEF NewDriver, Held
  <2> QED BY <1>0, <1>4, <1>6, <1>9, <2>1 DEF HighInv
<1>11. ScanInv(P, {})'
  <2>1. ASSUME NEW x \in Blocks, disk'[x].magic = "PART" PROVE disk[x].magic = "PART"
    <3>1. x # RDSK
      BY <1>6, <2>1
    <3>2. CASE F # <<>> /\ x = F[Len(F)]
      <4>1. disk[x].magic = "FSHD" /\ disk[x] \in Content /\ disk'[x] = Linked(disk[x], b)
        BY ZenonT(40), <1>0, <1>6, <3>1, <3>2, LastMagic DEF IsTable
      <4>2. disk'[x].magic = "FSHD"
        BY <1>3, <4>1, LinkedBlock
      <4> QED BY <2>1, <4>2
    <3>3. CASE ~(F # <<>> /\ x = F[Len(F)])
      BY <1>6, <2>1, <3>1, <3>3
    <3> QED BY <3>2, <3>3
  <2> QED BY <1>0, <1>1, <1>6, <2>1 DEF ScanInv
<1>12. StageInv(P, G, R, {})'
  BY <1>7, <1>9, <1>10, <1>11 DEF StageInv, Stage
<1> QED BY <1>8, <1>9, <1>12 DEF RInv

\* One write, at whichever stage the call is.
LEMMA StepDeviceWrite ==
  ASSUME RInv, DeviceWrite
  PROVE  RInv' /\ TableStep
<1>1. PICK P, F, S, L : StageInv(P, F, S, L)
  BY DEF RInv
<1>2. TypeInv
  BY DEF RInv
<1>3. ~Quiet(P, F, L)
  BY DEF DeviceWrite, Idle, Quiet
<1> QED BY <1>1, <1>2, <1>3, StepWritesPart, StepLinksPart, StepUnlinksPart, StepScrubsPart,
           StepWritesDriver, StepLinksDriver, StepCloses DEF StageInv, Stage

-----------------------------------------------------------------------------
(* The calls *)

\* Between calls there is a table and memory holds it.
LEMMA BetweenCalls ==
  ASSUME RInv, Idle
  PROVE  \E P, F, S :
           /\ IsTable(disk, P, F, S) /\ HighInv(P, F, S) /\ ScanInv(P, {})
           /\ opened => rdb = disk[RDSK] /\ Held(P, F)
           /\ pending = <<>> /\ reread = "none"
<1>1. PICK P, F, S, L : StageInv(P, F, S, L)
  BY DEF RInv
<1>2. TypeInv /\ pending = <<>>
  BY DEF RInv, Idle
<1>3. Quiet(P, F, L)
  <2>1. \A b \in Blocks : LinkTo(P, b) # <<>> /\ LinkTo(F, b) # <<>>
    BY DEF LinkTo, Links
  <2>2. ~LinksPart(P, F, S, L) /\ ~LinksDriver(P, F, S, L) /\ ~Closes(P, F, L)
    BY <1>2, <2>1 DEF LinksPart, LinksDriver, Closes
  <2>3. ~UnlinksPart(P, F, S, L) /\ ~ScrubsPart(P, F, S, L)
    BY <1>2 DEF UnlinksPart, ScrubsPart
  <2>4. IsTable(disk, P, F, S)
    BY <1>1 DEF StageInv
  <2>5. ~WritesPart(P, F, S, L)
    <3>1. SUFFICES ASSUME NEW b \in Blocks, NEW c \in Content,
                          pending = <<Write(b, c)>> \o LinkTo(P, b)
                   PROVE  FALSE
      BY DEF WritesPart
    <3>2. LinkTo(P, b) \in Seq(HeldBlock) /\ Write(b, c) \in HeldBlock
      BY <1>2, <2>4, LastMagic, LinkWrites DEF Write, HeldBlock
    <3>3. Len(pending) = 1 + Len(LinkTo(P, b)) /\ Len(LinkTo(P, b)) \in Nat
      <4>1. <<Write(b, c)>> \in Seq(HeldBlock) /\ Len(<<Write(b, c)>>) = 1
        BY <3>2
      <4> QED BY <3>1, <3>2, <4>1, ConcatProperties, LenProperties
    <3> QED BY <1>2, <3>3, EmptySeq
  <2>6. ~WritesDriver(P, F, S, L)
    <3>1. SUFFICES ASSUME NEW t \in DosTypes, NEW b \in Blocks, NEW w \in Seq(Blocks),
                          NEW k \in 0..Len(w),
                          pending = ChunkWrites(t, w, k)
                                      \o (<<Write(b, HeaderBlock(t, w))>> \o LinkTo(F, b))
                   PROVE  FALSE
      BY DEF WritesDriver
    <3> DEFINE after == <<Write(b, HeaderBlock(t, w))>> \o LinkTo(F, b)
    <3>2. LinkTo(F, b) \in Seq(HeldBlock) /\ Write(b, HeaderBlock(t, w)) \in HeldBlock
      <4>1. LinkTo(F, b) \in Seq(HeldBlock)
        <5>1. F \in Seq(Blocks) /\ (F # <<>> => disk[F[Len(F)]].magic \in {"PART", "FSHD"})
          BY <2>4, LastMagic
        <5> QED BY <1>2, <5>1, LinkWrites
      <4>2. Write(b, HeaderBlock(t, w)) \in HeldBlock
        BY DriverBlocks DEF Write, HeldBlock
      <4> QED BY <4>1, <4>2
    <3>3. Len(after) = 1 + Len(LinkTo(F, b)) /\ Len(LinkTo(F, b)) \in Nat
          /\ after \in Seq(HeldBlock)
      <4>1. /\ <<Write(b, HeaderBlock(t, w))>> \in Seq(HeldBlock)
            /\ Len(<<Write(b, HeaderBlock(t, w))>>) = 1
        BY <3>2
      <4> QED BY <3>2, <4>1, ConcatProperties, LenProperties
    <3>4. after # <<>>
      BY <3>3, EmptySeq
    <3> HIDE DEF after
    <3>5. ChunkWrites(t, w, k) \o after # <<>>
      BY <3>3, <3>4, DriverWrites
    <3> QED BY <1>2, <3>1, <3>5 DEF after
  <2> QED BY <1>1, <2>2, <2>3, <2>5, <2>6 DEF StageInv, Stage
<1> QED BY <1>1, <1>3 DEF StageInv, Quiet

\* The lists in memory are the chains on the disk, block by block.
LEMMA HeldRead ==
  ASSUME NEW P, NEW F, NEW S, IsTable(disk, P, F, S), Held(P, F)
  PROVE  /\ DOMAIN parts = 1..Len(P) /\ Len(parts) = Len(P)
         /\ \A i \in 1..Len(P) : parts[i] = [blk |-> P[i], data |-> disk[P[i]]]
         /\ \A i \in 1..Len(P) : parts[i].blk = P[i] /\ parts[i].data = disk[P[i]]
         /\ DOMAIN fs = 1..Len(F) /\ Len(fs) = Len(F)
         /\ \A i \in 1..Len(F) : fs[i] = [blk |-> F[i], data |-> disk[F[i]]]
         /\ \A i \in 1..Len(F) : fs[i].blk = F[i] /\ fs[i].data = disk[F[i]]
         /\ used_rdb_blocks = Used(P, F, S)
<1>1. DOMAIN P = 1..Len(P) /\ DOMAIN F = 1..Len(F) /\ Len(P) \in Nat /\ Len(F) \in Nat
  BY TableBlocks, LenProperties
<1>2. /\ parts = [i \in 1..Len(P) |-> [blk |-> P[i], data |-> disk[P[i]]]]
      /\ fs = [i \in 1..Len(F) |-> [blk |-> F[i], data |-> disk[F[i]]]]
  BY <1>1 DEF Held, InMemory
<1>3. /\ DOMAIN parts = 1..Len(P) /\ Len(parts) = Len(P)
      /\ DOMAIN fs = 1..Len(F) /\ Len(fs) = Len(F)
      /\ \A i \in 1..Len(P) : parts[i] = [blk |-> P[i], data |-> disk[P[i]]]
      /\ \A i \in 1..Len(F) : fs[i] = [blk |-> F[i], data |-> disk[F[i]]]
  BY <1>1, <1>2
<1>4. ASSUME NEW i \in 1..Len(P)
      PROVE  parts[i].blk = P[i] /\ parts[i].data = disk[P[i]]
  <2>1. parts[i] = [blk |-> P[i], data |-> disk[P[i]]]
    BY <1>3
  <2> QED BY <2>1
<1>5. ASSUME NEW i \in 1..Len(F)
      PROVE  fs[i].blk = F[i] /\ fs[i].data = disk[F[i]]
  <2>1. fs[i] = [blk |-> F[i], data |-> disk[F[i]]]
    BY <1>3
  <2> QED BY <2>1
<1>6. \A h : /\ h \in ToSet(parts) <=> \E i \in 1..Len(P) : h = parts[i]
             /\ h \in ToSet(fs) <=> \E i \in 1..Len(F) : h = fs[i]
  BY <1>3 DEF ToSet
<1>7. ASSUME NEW x
      PROVE  /\ x \in BlkNums(parts) <=> \E i \in 1..Len(P) : x = P[i]
             /\ x \in BlkNums(fs) <=> \E i \in 1..Len(F) : x = F[i]
  <2>1. /\ x \in BlkNums(parts) <=> \E h \in ToSet(parts) : x = h.blk
        /\ x \in BlkNums(fs) <=> \E h \in ToSet(fs) : x = h.blk
    BY DEF BlkNums
  <2> QED BY <1>4, <1>5, <1>6, <2>1
<1>8. ASSUME NEW i \in 1..Len(F)
      PROVE  \A x : x \in ToSet(SegChain(disk, fs[i].data)) <=> \E k \in 1..Len(S[i]) : x = S[i][k]
  <2>1. SegChain(disk, disk[F[i]]) = S[i]
    BY TableRead
  <2>2. SegChain(disk, fs[i].data) = S[i]
    BY <1>5, <2>1
  <2>3. DOMAIN S[i] = 1..Len(S[i])
    BY TableBlocks, LenProperties
  <2> QED BY <2>2, <2>3 DEF ToSet
<1>9. ASSUME NEW x
      PROVE  x \in UNION {ToSet(SegChain(disk, f.data)) : f \in ToSet(fs)}
               <=> \E i \in 1..Len(F) : \E k \in 1..Len(S[i]) : x = S[i][k]
  <2>1. x \in UNION {ToSet(SegChain(disk, f.data)) : f \in ToSet(fs)}
          <=> \E f \in ToSet(fs) : x \in ToSet(SegChain(disk, f.data))
    OBVIOUS
  <2>2. ASSUME NEW f \in ToSet(fs), x \in ToSet(SegChain(disk, f.data))
        PROVE  \E i \in 1..Len(F) : \E k \in 1..Len(S[i]) : x = S[i][k]
    <3>1. PICK i \in 1..Len(F) : f = fs[i]
      BY <1>6
    <3>2. x \in ToSet(SegChain(disk, fs[i].data))
      BY <2>2, <3>1
    <3>3. \A y : y \in ToSet(SegChain(disk, fs[i].data)) <=> \E k \in 1..Len(S[i]) : y = S[i][k]
      BY <1>8
    <3>4. \E k \in 1..Len(S[i]) : x = S[i][k]
      BY <3>2, <3>3
    <3> QED BY <3>4
  <2>3. ASSUME NEW i \in 1..Len(F), NEW k \in 1..Len(S[i]), x = S[i][k]
        PROVE  \E f \in ToSet(fs) : x \in ToSet(SegChain(disk, f.data))
    <3>1. fs[i] \in ToSet(fs) /\ x \in ToSet(SegChain(disk, fs[i].data))
      BY <1>6, <1>8, <2>3
    <3> QED BY <3>1
  <2> QED BY <2>1, <2>2, <2>3
<1>10. /\ RDSK \in Blocks /\ \A i \in 1..Len(P) : P[i] \in Blocks
       /\ \A i \in 1..Len(F) : F[i] \in Blocks /\ \A k \in 1..Len(S[i]) : S[i][k] \in Blocks
  <2>1. RDSK \in Used(P, F, S)
    BY TableBlocks
  <2> QED BY <2>1, TableBlocks DEF Used
<1>11. used_rdb_blocks = Used(P, F, S)
  <2>1. ASSUME NEW x
        PROVE  x \in used_rdb_blocks <=>
                 \/ x = RDSK \/ \E i \in 1..Len(P) : x = P[i]
                 \/ \E i \in 1..Len(F) : x = F[i] \/ \E k \in 1..Len(S[i]) : x = S[i][k]
    <3>1. x \in used_rdb_blocks <=>
            \/ x = RDSK \/ x \in BlkNums(parts) \/ x \in BlkNums(fs)
            \/ x \in UNION {ToSet(SegChain(disk, f.data)) : f \in ToSet(fs)}
      BY DEF used_rdb_blocks
    <3> QED BY <1>7, <1>9, <3>1
  <2>2. ASSUME NEW x
        PROVE  x \in Used(P, F, S) <=>
                 \/ x = RDSK \/ \E i \in 1..Len(P) : x = P[i]
                 \/ \E i \in 1..Len(F) : x = F[i] \/ \E k \in 1..Len(S[i]) : x = S[i][k]
    BY <1>10 DEF Used
  <2> QED BY <2>1, <2>2
<1> QED BY <1>3, <1>4, <1>5, <1>11

\* The writes that append a block to a chain.
LEMMA AppendWrites ==
  ASSUME disk \in [Blocks -> Content], NEW w \in Seq(Blocks),
         w # <<>> => disk[w[Len(w)]].magic \in {"PART", "FSHD"},
         NEW held,
         w # <<>> => Last(held).blk = w[Len(w)] /\ Last(held).data = disk[w[Len(w)]],
         NEW head, head = END <=> w = <<>>,
         NEW b \in Blocks, NEW r \in Content
  PROVE  /\ AppendToChain(head, held, b, r) \in Seq(HeldBlock)
         /\ AppendToChain(head, held, b, r) = Links(disk, r, w, b)
<1>1. RDSK \in Blocks /\ b \in BlockNums
  BY AreaAssumption, SMT DEF RDSK, Blocks, BlockNums
<1>2. Write(RDSK, r) \in HeldBlock
  BY <1>1 DEF Write, HeldBlock
<1>3. CASE w = <<>>
  BY <1>2, <1>3 DEF AppendToChain, Links
<1>4. CASE w # <<>>
  <2> DEFINE last == w[Len(w)]
             c == Linked(disk[last], b)
  <2>1. last \in Blocks /\ disk[last] \in Content
    BY <1>4, EmptySeq, ElementOfSeq
  <2>2. c \in Content
    BY <1>1, <1>4, <2>1, LinkedBlock
  <2>3. Last(held).blk = last /\ Last(held).data = disk[last]
    BY <1>4
  <2>4. AppendToChain(head, held, b, r) = <<Write(last, c), Write(RDSK, r)>>
    BY <1>4, <2>3 DEF AppendToChain, Linked
  <2>a. Links(disk, r, w, b) = <<Write(last, c), Write(RDSK, r)>>
    BY <1>4 DEF Links
  <2> HIDE DEF c, last
  <2>5. Write(last, c) \in HeldBlock
    BY <2>1, <2>2 DEF Write, HeldBlock
  <2>6. AppendToChain(head, held, b, r) \in Seq(HeldBlock)
    BY <1>2, <2>4, <2>5
  <2> QED BY <2>4, <2>6, <2>a
<1> QED BY <1>3, <1>4

\* A block that the search finds free is in no chain.
LEMMA FreeFacts ==
  ASSUME NEW P, NEW F, NEW S, IsTable(disk, P, F, S), Held(P, F)
  PROVE  FreeBlocks \subseteq Blocks \ Used(P, F, S)
<1>1. used_rdb_blocks = Used(P, F, S)
  BY HeldRead
<1> QED BY <1>1 DEF FreeBlocks, Blocks

\* add_partition of cylinders that are free.
LEMMA CallAddPartition ==
  ASSUME RInv, NEW n \in Names, NEW lo \in LoCyl..(HiCyl + 1), NEW hi \in (LoCyl - 1)..HiCyl,
         lo <= hi + 1, Fits(lo, hi), add_partition(n, lo, hi)
  PROVE  /\ RInv' /\ disk' = disk
         /\ \E P, F, S : StageInv(P, F, S, {})' /\ WritesPart(P, F, S, {})'
         /\ Head(pending').data = PartitionBlock(n, lo, hi)
<1>0. Idle /\ opened /\ Nameable(n) /\ TypeInv
  BY DEF add_partition, RInv
<1>1. PICK P, F, S :
        /\ IsTable(disk, P, F, S) /\ HighInv(P, F, S) /\ ScanInv(P, {})
        /\ rdb = disk[RDSK] /\ Held(P, F)
        /\ pending = <<>> /\ reread = "none"
  BY <1>0, BetweenCalls
<1>2. PICK s \in FirstFree(1) :
        LET b == s[1]
            new == [rdb EXCEPT !.partition_list = IF @ = END THEN b ELSE @,
                               !.high_rdsk_block = MaxOf(@, b)]
        IN  /\ rdb' = new
            /\ Begin(<<Write(b, PartitionBlock(n, lo, hi))>>
                       \o AppendToChain(rdb.partition_list, parts, b, new), "parts")
  BY DEF add_partition
<1> DEFINE b == s[1]
           c == PartitionBlock(n, lo, hi)
<1>3. b \in Blocks \ Used(P, F, S)
  <2>1. b \in FreeBlocks
    BY DEF FirstFree
  <2> QED BY <1>1, <2>1, FreeFacts
<1>4. /\ rdb' = [rdb EXCEPT !.partition_list = IF @ = END THEN b ELSE @,
                            !.high_rdsk_block = MaxOf(@, b)]
      /\ pending' = <<Write(b, c)>> \o AppendToChain(rdb.partition_list, parts, b, rdb')
      /\ reread' = "parts" /\ UNCHANGED <<disk, parts, fs, opened, crashes, inits>>
  BY <1>2 DEF Begin
<1> HIDE DEF b
<1>5. /\ rdb' \in Content /\ rdb'.magic = "RDSK"
      /\ rdb'.partition_list = IF rdb.partition_list = END THEN b ELSE rdb.partition_list
      /\ rdb'.fs_header_list = rdb.fs_header_list
      /\ b <= rdb'.high_rdsk_block /\ rdb.high_rdsk_block <= rdb'.high_rdsk_block
      /\ rdb.high_rdsk_block \in Int /\ rdb'.high_rdsk_block \in Int
  <2>1. rdb \in [magic : {"RDSK"}, partition_list : BlockNums,
                 fs_header_list : BlockNums, high_rdsk_block : Blocks]
    BY <1>0, Kinds DEF TypeInv
  <2> DEFINE m == MaxOf(rdb.high_rdsk_block, b)
             f == IF rdb.partition_list = END THEN b ELSE rdb.partition_list
  <2>2. m \in Blocks /\ b <= m /\ rdb.high_rdsk_block <= m /\ b \in Int /\ m \in Int
        /\ rdb.high_rdsk_block \in Int
    BY <1>3, <2>1, AreaAssumption DEF MaxOf, Blocks
  <2>3. f \in BlockNums
    BY <1>3, <2>1 DEF BlockNums
  <2>4. rdb' = [rdb EXCEPT !.partition_list = f, !.high_rdsk_block = m]
    BY <1>4
  <2> HIDE DEF f, m
  <2>5. /\ rdb' \in [magic : {"RDSK"}, partition_list : BlockNums,
                     fs_header_list : BlockNums, high_rdsk_block : Blocks]
        /\ rdb'.partition_list = f /\ rdb'.high_rdsk_block = m
        /\ rdb'.fs_header_list = rdb.fs_header_list
    BY <2>1, <2>2, <2>3, <2>4
  <2> QED BY <2>2, <2>5 DEF Content, f
<1>6. P = <<>> <=> disk[RDSK].partition_list = END
  BY <1>1, ChainBlocks DEF IsTable, PartTable
<1>7. c \in Content /\ c.magic = "PART" /\ c.next = END
      /\ c.name = n /\ c.lo = lo /\ c.hi = hi
  BY DEF PartitionBlock, Content, BlockNums
<1> HIDE DEF c
<1>8. NewPart(c, P)
  <2>1. ASSUME NEW i \in 1..Len(P)
        PROVE  Apart(c, disk[P[i]]) /\ Apart(disk[P[i]], c) /\ c.name # disk[P[i]].name
    <3>1. parts[i] \in ToSet(parts) /\ parts[i].data = disk[P[i]]
      <4>1. DOMAIN parts = 1..Len(P) /\ parts[i].data = disk[P[i]]
        BY <1>1, HeldRead
      <4> QED BY <4>1 DEF ToSet
    <3>2. disk[P[i]].name # n /\ (hi < disk[P[i]].lo \/ lo > disk[P[i]].hi)
      BY <1>0, <3>1 DEF Nameable, Fits
    <3>3. disk[P[i]].hi \in Int /\ lo \in Int
      <4>1. disk[P[i]] \in Content /\ disk[P[i]].magic = "PART"
        BY <1>0, <1>1, TableBlocks DEF TypeInv
      <4>2. disk[P[i]].hi \in (LoCyl - 1)..HiCyl
        BY <4>1, Kinds
      <4> QED BY <4>2, AreaAssumption
    <3> QED BY <1>7, <3>2, <3>3 DEF Apart
  <2> QED BY <1>7, <2>1 DEF NewPart
<1>9. /\ AppendToChain(rdb.partition_list, parts, b, rdb') \in Seq(HeldBlock)
      /\ AppendToChain(rdb.partition_list, parts, b, rdb') = LinkTo(P, b)'
  <2>1. P \in Seq(Blocks) /\ (P # <<>> => disk[P[Len(P)]].magic \in {"PART", "FSHD"})
    BY <1>1, LastMagic
  <2>2. P # <<>> => Last(parts).blk = P[Len(P)] /\ Last(parts).data = disk[P[Len(P)]]
    <3>1. P # <<>> => Len(P) \in 1..Len(P)
      BY <1>1, LastMagic
    <3> QED BY <1>1, <3>1, HeldRead DEF Last
  <2>3. /\ AppendToChain(rdb.partition_list, parts, b, rdb') \in Seq(HeldBlock)
        /\ AppendToChain(rdb.partition_list, parts, b, rdb') = Links(disk, rdb', P, b)
    <3>1. disk \in [Blocks -> Content] /\ (rdb.partition_list = END <=> P = <<>>)
      BY <1>0, <1>1, <1>6 DEF TypeInv
    <3> DEFINE q == rdb'
    <3>2. q \in Content
      BY <1>5
    <3> HIDE DEF q
    <3>3. /\ AppendToChain(rdb.partition_list, parts, b, q) \in Seq(HeldBlock)
          /\ AppendToChain(rdb.partition_list, parts, b, q) = Links(disk, q, P, b)
      <4> DEFINE h == rdb.partition_list
      <4>1. h = END <=> P = <<>>
        BY <3>1
      <4>2. b \in Blocks /\ disk \in [Blocks -> Content]
        BY <1>3, <3>1
      <4> HIDE DEF h
      <4>3. AppendToChain(h, parts, b, q) \in Seq(HeldBlock)
        BY <2>1, <2>2, <3>2, <4>1, <4>2, AppendWrites
      <4>4. AppendToChain(h, parts, b, q) = Links(disk, q, P, b)
        BY <2>1, <2>2, <3>2, <4>1, <4>2, AppendWrites, ZenonT(60)
      <4> QED BY <4>3, <4>4 DEF h
    <3> QED BY <3>3 DEF q
  <2> QED BY <1>4, <2>3 DEF LinkTo, Links
<1>10. TypeInv'
  <2>1. Write(b, c) \in HeldBlock
    BY <1>3, <1>7 DEF Write, HeldBlock
  <2>2. pending' \in Seq(HeldBlock)
    BY <1>4, <1>9, <2>1, FirstWrite
  <2> QED BY <1>0, <1>4, <1>5, <2>2 DEF TypeInv
<1>11. WritesPart(P, F, S, {})'
  <2>1. Held(P, F)' /\ NewPart(c, P)' /\ HeadsPart(P, b)'
    BY <1>1, <1>4, <1>5, <1>6, <1>8 DEF Held, NewPart, HeadsPart
  <2>2. pending' = <<Write(b, c)>> \o LinkTo(P, b)'
    BY <1>4, <1>9
  <2> QED BY <1>3, <1>4, <1>5, <1>7, <2>1, <2>2 DEF WritesPart
<1>12. HighInv(P, F, S)'
  <2>1. \A x \in Used(P, F, S) : x \in Int
    BY AreaAssumption DEF Used, Blocks
  <2> QED BY <1>1, <1>4, <1>5, <2>1 DEF HighInv
<1>13. ScanInv(P, {})' /\ IsTable(disk', P, F, S)
  BY <1>1, <1>4 DEF ScanInv
<1>14. StageInv(P, F, S, {})'
  BY <1>11, <1>12, <1>13 DEF StageInv, Stage
<1>15. Head(pending') = Write(b, c)
  <2>1. Write(b, c) \in HeldBlock
    BY <1>3, <1>7 DEF Write, HeldBlock
  <2> QED BY <1>4, <1>9, <2>1, FirstWrite
<1> QED BY <1>4, <1>10, <1>11, <1>14, <1>15 DEF RInv, Write, c

\* delete_partition of the i-th partition.
LEMMA CallDelete ==
  ASSUME RInv, NEW i \in DOMAIN parts, delete_partition(i)
  PROVE  /\ RInv' /\ disk' = disk
         /\ \E P, F, S : /\ StageInv(P, F, S, {})' /\ UnlinksPart(P, F, S, {})'
                         /\ i \in 1..Len(P) /\ pending'[2].blk = P[i]
<1>0. Idle /\ opened /\ TypeInv
  BY DEF delete_partition, RInv
<1>1. PICK P, F, S :
        /\ IsTable(disk, P, F, S) /\ HighInv(P, F, S) /\ ScanInv(P, {})
        /\ rdb = disk[RDSK] /\ Held(P, F)
        /\ pending = <<>> /\ reread = "none"
  BY <1>0, BetweenCalls
<1>2. /\ i \in 1..Len(P) /\ Len(P) \in Nat
      /\ \A j \in 1..Len(P) : parts[j].blk = P[j] /\ parts[j].data = disk[P[j]]
  <2>1. DOMAIN parts = 1..Len(P)
        /\ \A j \in 1..Len(P) : parts[j].blk = P[j] /\ parts[j].data = disk[P[j]]
    BY <1>1, HeldRead
  <2>2. Len(P) \in Nat
    BY <1>1, TableBlocks
  <2> QED BY <2>1, <2>2
<1>3. 1 \in 1..Len(P) /\ (i # 1 => i - 1 \in 1..Len(P))
  BY <1>2
<1>4. /\ rdb' = IF i = 1 THEN [rdb EXCEPT !.partition_list = parts[1].data.next] ELSE rdb
      /\ pending' = DeleteWrites(i)
      /\ reread' = "parts" /\ UNCHANGED <<disk, parts, fs, opened, crashes, inits>>
  BY DEF delete_partition, Begin
<1>5. rdb' = IF i = 1 THEN [disk[RDSK] EXCEPT !.partition_list = disk[P[1]].next]
             ELSE disk[RDSK]
  BY <1>1, <1>2, <1>3, <1>4
<1>6. \A j \in 1..Len(P) : /\ P[j] \in Blocks /\ disk[P[j]] \in Content
                           /\ disk[P[j]].magic = "PART" /\ disk[P[j]].next \in BlockNums
  <2>1. \A j \in 1..Len(P) : P[j] \in Blocks /\ disk[P[j]].magic = "PART"
    BY <1>1, TableBlocks
  <2>2. \A j \in 1..Len(P) : disk[P[j]] \in Content
    BY <1>0, <2>1 DEF TypeInv
  <2> QED BY <2>1, <2>2, Kinds
<1>7. rdb' \in Content /\ rdb'.magic = "RDSK" /\ rdb'.high_rdsk_block = rdb.high_rdsk_block
  <2>1. disk[RDSK] \in [magic : {"RDSK"}, partition_list : BlockNums,
                        fs_header_list : BlockNums, high_rdsk_block : Blocks]
    BY <1>0, <1>1, Kinds DEF TypeInv
  <2>2. rdb' \in [magic : {"RDSK"}, partition_list : BlockNums,
                  fs_header_list : BlockNums, high_rdsk_block : Blocks]
        /\ rdb'.high_rdsk_block = disk[RDSK].high_rdsk_block
    BY <1>3, <1>5, <1>6, <2>1
  <2> QED BY <1>1, <2>2 DEF Content
<1>8. pending' = <<IF i = 1 THEN Write(RDSK, rdb')
                   ELSE Write(P[i - 1], Linked(disk[P[i - 1]], disk[P[i]].next)),
                   Write(P[i], Blank)>>
  BY <1>1, <1>2, <1>3, <1>4 DEF DeleteWrites, Unlink, Linked
<1>9. pending' \in Seq(HeldBlock)
  <2>1. Write(P[i], Blank) \in HeldBlock
    BY <1>2, <1>6 DEF Write, HeldBlock, Content
  <2>2. CASE i = 1
    <3>1. Write(RDSK, rdb') \in HeldBlock
      BY <1>1, <1>7, TableBlocks DEF Write, HeldBlock, Used
    <3> QED BY <1>8, <2>1, <2>2, <3>1
  <2>3. CASE i # 1
    <3>1. Linked(disk[P[i - 1]], disk[P[i]].next) \in Content
      BY <1>2, <1>3, <1>6, <2>3, LinkedBlock
    <3>2. Write(P[i - 1], Linked(disk[P[i - 1]], disk[P[i]].next)) \in HeldBlock
      BY <1>3, <1>6, <2>3, <3>1 DEF Write, HeldBlock
    <3> QED BY <1>8, <2>1, <2>3, <3>2
  <2> QED BY <2>2, <2>3
<1>10. TypeInv'
  BY <1>0, <1>4, <1>7, <1>9 DEF TypeInv
<1>11. UnlinksPart(P, F, S, {})'
  <2>1. Held(P, F)'
    BY <1>1, <1>4 DEF Held
  <2> QED BY <1>2, <1>4, <1>5, <1>8, <2>1 DEF UnlinksPart
<1>12. HighInv(P, F, S)' /\ ScanInv(P, {})' /\ IsTable(disk', P, F, S)
  BY <1>1, <1>4, <1>7 DEF HighInv, ScanInv
<1>13. StageInv(P, F, S, {})'
  BY <1>11, <1>12 DEF StageInv, Stage
<1>14. pending'[2].blk = P[i]
  BY <1>8 DEF Write
<1> QED BY <1>2, <1>4, <1>10, <1>11, <1>13, <1>14 DEF RInv

\* The RDSK block r after a driver with its header in b and its last block in m.
NewRDB(r, b, m) ==
  [r EXCEPT !.fs_header_list = IF @ = END THEN b ELSE @,
            !.high_rdsk_block = MaxOf(@, m)]

\* It is an RDSK block with that head and a mark no lower than before.
LEMMA NewRDBFacts ==
  ASSUME NEW r \in Content, r.magic = "RDSK", NEW b \in Blocks, NEW m \in Blocks, NEW q,
         q = NewRDB(r, b, m)
  PROVE  /\ q \in Content /\ q.magic = "RDSK"
         /\ q.fs_header_list = IF r.fs_header_list = END THEN b ELSE r.fs_header_list
         /\ q.partition_list = r.partition_list
         /\ m <= q.high_rdsk_block /\ r.high_rdsk_block <= q.high_rdsk_block
         /\ r.high_rdsk_block \in Int /\ q.high_rdsk_block \in Int
<1>1. r \in [magic : {"RDSK"}, partition_list : BlockNums,
             fs_header_list : BlockNums, high_rdsk_block : Blocks]
  BY Kinds
<1> DEFINE h == MaxOf(r.high_rdsk_block, m)
           f == IF r.fs_header_list = END THEN b ELSE r.fs_header_list
<1>2. h \in Blocks /\ m <= h /\ r.high_rdsk_block <= h /\ h \in Int
      /\ r.high_rdsk_block \in Int
  BY <1>1, AreaAssumption DEF MaxOf, Blocks
<1>3. f \in BlockNums
  BY <1>1 DEF BlockNums
<1>4. q = [r EXCEPT !.fs_header_list = f, !.high_rdsk_block = h]
  BY DEF NewRDB
<1> HIDE DEF f, h
<1>5. /\ q \in [magic : {"RDSK"}, partition_list : BlockNums,
                fs_header_list : BlockNums, high_rdsk_block : Blocks]
      /\ q.fs_header_list = f /\ q.high_rdsk_block = h
      /\ q.partition_list = r.partition_list
  BY <1>1, <1>2, <1>3, <1>4
<1> QED BY <1>2, <1>5 DEF Content, f

\* The first blocks that are free, the header's before the chunks'.
LEMMA DriverPlace ==
  ASSUME FreeBlocks \subseteq Blocks, NEW n \in Nat, NEW s \in FirstFree(n + 1)
  PROVE  /\ s \in Seq(FreeBlocks) /\ Len(s) = n + 1
         /\ Tail(s) \in Seq(FreeBlocks) /\ Len(Tail(s)) = n
         /\ \A i \in 1..n : Tail(s)[i] = s[i + 1] /\ Tail(s)[i] \in FreeBlocks
         /\ s[1] \in FreeBlocks
         /\ \A i \in 1..n : s[1] < Tail(s)[i]
         /\ \A i, j \in 1..n : i < j => Tail(s)[i] < Tail(s)[j]
<1>1. s \in [1 .. n + 1 -> FreeBlocks] /\ n + 1 \in Nat
  BY DEF FirstFree
<1>2. s \in Seq(FreeBlocks) /\ Len(s) = n + 1
  BY <1>1
<1>3. s # <<>>
  BY <1>2, EmptySeq
<1>4. /\ Tail(s) \in Seq(FreeBlocks) /\ Len(Tail(s)) = n
      /\ \A i \in 1..n : Tail(s)[i] = s[i + 1]
  <2>1. /\ Tail(s) \in Seq(FreeBlocks) /\ Len(Tail(s)) = (n + 1) - 1
        /\ \A i \in 1..Len(Tail(s)) : Tail(s)[i] = s[i + 1]
    BY <1>2, <1>3, HeadTailProperties
  <2> QED BY <2>1
<1>5. ASSUME NEW i \in 1 .. n + 1, NEW j \in 1 .. n + 1, i < j
      PROVE  s[i] < s[j]
  <2>1. {b \in FreeBlocks : b < s[j]} = {s[k] : k \in 1 .. j - 1}
    BY DEF FirstFree
  <2>2. i \in 1 .. j - 1
    BY <1>5
  <2>3. s[i] \in {s[k] : k \in 1 .. j - 1}
    BY <2>2
  <2> QED BY <2>1, <2>3
<1>6. \A i \in 1 .. n + 1 : s[i] \in FreeBlocks
  BY <1>1
<1>7. \A i \in 1..n : i + 1 \in 1 .. n + 1 /\ 1 < i + 1 /\ 1 \in 1 .. n + 1
  OBVIOUS
<1>8. ASSUME NEW i \in 1..n
      PROVE  s[1] < Tail(s)[i] /\ Tail(s)[i] \in FreeBlocks
  BY <1>4, <1>5, <1>6, <1>7
<1>9. ASSUME NEW i \in 1..n, NEW j \in 1..n, i < j PROVE Tail(s)[i] < Tail(s)[j]
  <2>1. i + 1 < j + 1
    BY <1>9
  <2>2. s[i + 1] < s[j + 1]
    BY <1>5, <1>7, <2>1
  <2> QED BY <1>4, <2>2
<1>10. s[1] \in FreeBlocks
  BY <1>6
<1> QED BY <1>2, <1>4, <1>8, <1>9, <1>10

\* add_filesystem of a driver of n chunks.
LEMMA CallAddFilesystem ==
  ASSUME RInv, NEW t \in DosTypes, NEW n \in DriverSizes, add_filesystem(t, n)
  PROVE  RInv' /\ disk' = disk
<1>0. Idle /\ opened /\ TypeInv /\ n \in Nat
  BY AreaAssumption DEF add_filesystem, RInv
<1>1. PICK P, F, S :
        /\ IsTable(disk, P, F, S) /\ HighInv(P, F, S) /\ ScanInv(P, {})
        /\ rdb = disk[RDSK] /\ Held(P, F)
        /\ pending = <<>> /\ reread = "none"
  BY <1>0, BetweenCalls
<1>2. PICK s \in FirstFree(n + 1) :
       LET fshd == s[1]
           seg == Tail(s)
           lseg(i) == LoadSegBlock(IF i < n THEN seg[i + 1] ELSE END, t, i)
           top == IF n = 0 THEN fshd ELSE Last(seg)
           new == [rdb EXCEPT
                     !.fs_header_list = IF @ = END THEN fshd ELSE @,
                     !.high_rdsk_block = MaxOf(@, top)]
       IN /\ rdb' = new
          /\ Begin([i \in 1..n |-> Write(seg[i], lseg(i))]
                     \o <<Write(fshd, FSHeaderBlock(t, IF n = 0 THEN END ELSE seg[1]))>>
                     \o AppendToChain(rdb.fs_header_list, fs, fshd, new), "fs")
  BY DEF add_filesystem
<1> DEFINE b == s[1]
           w == Tail(s)
           top == IF n = 0 THEN b ELSE Last(w)
           chunks == [i \in 1..n |-> Write(w[i], LoadSegBlock(IF i < n THEN w[i + 1] ELSE END, t, i))]
           header == FSHeaderBlock(t, IF n = 0 THEN END ELSE w[1])
<1>3. /\ rdb' = [rdb EXCEPT !.fs_header_list = IF @ = END THEN b ELSE @,
                            !.high_rdsk_block = MaxOf(@, top)]
      /\ pending' = (chunks \o <<Write(b, header)>>)
                      \o AppendToChain(rdb.fs_header_list, fs, b, rdb')
      /\ reread' = "fs" /\ UNCHANGED <<disk, parts, fs, opened, crashes, inits>>
  BY <1>2 DEF Begin
<1>4. FreeBlocks \subseteq Blocks \ Used(P, F, S)
  BY <1>1, FreeFacts
<1>5. /\ w \in Seq(FreeBlocks) /\ Len(w) = n /\ b \in FreeBlocks
      /\ \A i \in 1..n : w[i] \in FreeBlocks /\ b < w[i]
      /\ \A i, j \in 1..n : i < j => w[i] < w[j]
  BY <1>0, <1>4, DriverPlace
<1> HIDE DEF b, w
<1>6. w \in Seq(Blocks) /\ b \in Blocks \ Used(P, F, S)
      /\ \A i \in 1..n : w[i] \in Blocks \ Used(P, F, S)
  BY <1>4, <1>5
<1>7. \A x \in Blocks : x \in Int
  BY AreaAssumption DEF Blocks
<1>8. top \in Blocks /\ b <= top /\ \A i \in 1..n : w[i] <= top
  <2>1. CASE n = 0
    BY <1>6, <1>7, <2>1
  <2>2. CASE n # 0
    <3>1. top = w[n] /\ n \in 1..n
      BY <1>0, <1>5, <2>2 DEF Last
    <3>2. \A i \in 1..n : i < n \/ i = n
      BY <1>0
    <3>3. \A i \in 1..n : w[i] < w[n] \/ w[i] = w[n]
      BY <1>5, <3>1, <3>2
    <3> HIDE DEF top
    <3> QED BY <1>5, <1>6, <1>7, <3>1, <3>3
  <2> QED BY <2>1, <2>2
<1> HIDE DEF top
<1>9. /\ rdb' \in Content /\ rdb'.magic = "RDSK"
      /\ rdb'.fs_header_list = IF rdb.fs_header_list = END THEN b ELSE rdb.fs_header_list
      /\ rdb'.partition_list = rdb.partition_list
      /\ top <= rdb'.high_rdsk_block /\ rdb.high_rdsk_block <= rdb'.high_rdsk_block
      /\ rdb.high_rdsk_block \in Int /\ rdb'.high_rdsk_block \in Int
  <2>1. rdb \in Content /\ rdb.magic = "RDSK" /\ b \in Blocks
    BY <1>0, <1>6 DEF TypeInv
  <2> DEFINE q == rdb'
  <2>2. q = NewRDB(rdb, b, top)
    BY <1>3 DEF NewRDB
  <2> HIDE DEF q
  <2>3. /\ q \in Content /\ q.magic = "RDSK"
        /\ q.fs_header_list = IF rdb.fs_header_list = END THEN b ELSE rdb.fs_header_list
        /\ q.partition_list = rdb.partition_list
        /\ top <= q.high_rdsk_block /\ rdb.high_rdsk_block <= q.high_rdsk_block
        /\ rdb.high_rdsk_block \in Int /\ q.high_rdsk_block \in Int
    BY <1>8, <2>1, <2>2, NewRDBFacts
  <2> QED BY <2>3 DEF q
<1>10. F = <<>> <=> disk[RDSK].fs_header_list = END
  BY <1>1, ChainBlocks DEF IsTable, DriverTable
<1>11. chunks = ChunkWrites(t, w, 0) /\ header = HeaderBlock(t, w)
  <2>1. header = HeaderBlock(t, w)
    <3>1. (IF n = 0 THEN END ELSE w[1]) = Link(w, 1)
      BY <1>0, <1>5 DEF Link
    <3> QED BY <3>1 DEF HeaderBlock
  <2>2. ASSUME NEW i \in 1..n
        PROVE  Write(w[i], LoadSegBlock(IF i < n THEN w[i + 1] ELSE END, t, i))
                 = Write(w[0 + i], ChunkBlock(t, w, 0 + i))
    <3>1. (IF i < n THEN w[i + 1] ELSE END) = Link(w, i + 1) /\ 0 + i = i
      BY <1>0, <1>5 DEF Link
    <3> QED BY <3>1 DEF ChunkBlock
  <2>3. 1 .. Len(w) - 0 = 1..n
    BY <1>0, <1>5
  <2>4. ChunkWrites(t, w, 0) = [i \in 1..n |-> Write(w[0 + i], ChunkBlock(t, w, 0 + i))]
    BY <2>3 DEF ChunkWrites
  <2> QED BY <2>1, <2>2, <2>4
<1> HIDE DEF chunks, header
<1> DEFINE links == AppendToChain(rdb.fs_header_list, fs, b, rdb')
<1>12. links \in Seq(HeldBlock) /\ links = LinkTo(F, b)'
  <2>1. F \in Seq(Blocks) /\ (F # <<>> => disk[F[Len(F)]].magic \in {"PART", "FSHD"})
    BY <1>1, LastMagic
  <2>2. F # <<>> => Last(fs).blk = F[Len(F)] /\ Last(fs).data = disk[F[Len(F)]]
    <3>1. F # <<>> => Len(F) \in 1..Len(F)
      BY <1>1, LastMagic
    <3>2. Len(fs) = Len(F) /\ \A i \in 1..Len(F) : fs[i].blk = F[i] /\ fs[i].data = disk[F[i]]
      BY <1>1, HeldRead
    <3> QED BY <3>1, <3>2 DEF Last
  <2> DEFINE q == rdb'
             h == rdb.fs_header_list
  <2>3. h = END <=> F = <<>>
    BY <1>1, <1>10
  <2>4. b \in Blocks /\ disk \in [Blocks -> Content] /\ q \in Content
    BY <1>0, <1>6, <1>9 DEF TypeInv
  <2> HIDE DEF h, q
  <2>5. AppendToChain(h, fs, b, q) \in Seq(HeldBlock)
    BY <2>1, <2>2, <2>3, <2>4, AppendWrites
  <2>6. AppendToChain(h, fs, b, q) = Links(disk, q, F, b)
    BY <2>1, <2>2, <2>3, <2>4, AppendWrites, ZenonT(60)
  <2> QED BY <1>3, <2>5, <2>6 DEF LinkTo, h, q
<1> HIDE DEF links
<1>13. Write(b, header) \in HeldBlock
  BY <1>6, <1>11, DriverBlocks DEF Write, HeldBlock
<1> DEFINE after == <<Write(b, header)>> \o links
<1>14. after \in Seq(HeldBlock)
  BY <1>12, <1>13, FirstWrite
<1>15. 0 \in 0..Len(w) /\ \A r \in Seq(HeldBlock) : ChunkWrites(t, w, 0) \o r \in Seq(HeldBlock)
  <2>1. 0 \in 0..Len(w)
    BY <1>0, <1>5
  <2> QED BY <1>6, <2>1, DriverWrites
<1>16. chunks \in Seq(HeldBlock)
  <2>1. <<>> \in Seq(HeldBlock)
    BY EmptySeq
  <2>2. \A i \in 1..n : /\ chunks[i] = Write(w[i], ChunkBlock(t, w, i))
                        /\ chunks[i] \in HeldBlock
    <3>1. \A i \in 1..n : i \in 1 .. Len(w) - 0 /\ 0 + i = i /\ i \in 1..Len(w)
      BY <1>0, <1>5
    <3>2. \A i \in 1..n : chunks[i] = Write(w[i], ChunkBlock(t, w, i))
      BY <1>11, <3>1 DEF ChunkWrites
    <3> QED BY <1>6, <3>1, <3>2, DriverBlocks DEF Write, HeldBlock
  <2>3. chunks \in [1..n -> HeldBlock]
    BY <2>2 DEF chunks
  <2> QED BY <1>0, <2>3
<1>17. pending' = ChunkWrites(t, w, 0) \o after
  <2>1. <<Write(b, header)>> \in Seq(HeldBlock)
    BY <1>13
  <2>2. (chunks \o <<Write(b, header)>>) \o links = chunks \o after
    BY <1>12, <1>16, <2>1, ConcatAssociative
  <2> QED BY <1>3, <1>11, <2>2 DEF links
<1>18. TypeInv'
  <2>1. pending' \in Seq(HeldBlock)
    BY <1>14, <1>15, <1>17
  <2> QED BY <1>0, <1>3, <1>9, <2>1 DEF TypeInv
<1>19. NewDriver(t, b, w, P, F, S)'
  <2>1. \A i \in 1..Len(F) : t # disk[F[i]].dos_type
    <3>1. /\ DOMAIN fs = 1..Len(F) /\ \A i \in 1..Len(F) : fs[i].data = disk[F[i]]
      BY <1>1, HeldRead
    <3>2. \A f \in ToSet(fs) : f.data.dos_type # t
      BY DEF add_filesystem
    <3> QED BY <3>1, <3>2 DEF ToSet
  <2>2. b <= rdb'.high_rdsk_block /\ \A i \in 1..n : w[i] <= rdb'.high_rdsk_block
    BY <1>6, <1>7, <1>8, <1>9
  <2>3. /\ \A i, j \in 1..n : w[i] = w[j] => i = j
        /\ \A i \in 1..n : w[i] # b
    <3>1. \A i, j \in 1..n : i < j \/ j < i \/ i = j
      BY <1>0
    <3> QED BY <1>5, <1>6, <1>7, <3>1
  <2> QED BY <1>3, <1>5, <1>6, <2>1, <2>2, <2>3 DEF NewDriver
<1>20. WritesDriver(P, F, S, {})'
  <2>1. Held(P, F)' /\ HeadsDriver(F, b)'
    BY <1>1, <1>3, <1>9, <1>10 DEF Held, HeadsDriver
  <2>2. pending' = ChunkWrites(t, w, 0) \o (<<Write(b, HeaderBlock(t, w))>> \o LinkTo(F, b)')
    BY <1>11, <1>12, <1>17
  <2>3. \A i \in 1..0 : disk'[w[i]] = ChunkBlock(t, w, i)
    OBVIOUS
  <2> QED BY <1>3, <1>6, <1>15, <1>19, <2>1, <2>2, <2>3 DEF WritesDriver
<1>21. HighInv(P, F, S)'
  <2>1. \A x \in Used(P, F, S) : x \in Int
    BY <1>7 DEF Used
  <2> QED BY <1>1, <1>3, <1>9, <2>1 DEF HighInv
<1>22. ScanInv(P, {})' /\ IsTable(disk', P, F, S)
  BY <1>1, <1>3 DEF ScanInv
<1>23. StageInv(P, F, S, {})'
  BY <1>20, <1>21, <1>22 DEF StageInv, Stage
<1> QED BY <1>3, <1>18, <1>23 DEF RInv

\* create writes an empty table over whatever there is.
LEMMA CallCreate ==
  ASSUME TypeInv, reread = "none", create
  PROVE  /\ RInv' /\ TableStep
         /\ PartsOn(disk') = <<>> /\ DriversOn(disk') = <<>>
<1>1. TypeInv /\ Idle
  BY DEF create
<1>2. pending = <<>> /\ reread = "none"
  BY <1>1 DEF Idle
<1>3. FreshRDB \in Content /\ RDSK \in Blocks /\ FreshRDB.magic = "RDSK"
      /\ FreshRDB.high_rdsk_block = 0
  BY AreaAssumption, SMT DEF FreshRDB, RDBlock, Content, BlockNums, Blocks, RDSK
<1>4. disk' \in [Blocks -> Content] /\ disk'[RDSK] = FreshRDB
  BY <1>1, <1>3 DEF create, TypeInv
<1> DEFINE e == disk'
<1>5. e \in [Blocks -> Content] /\ e[RDSK] = FreshRDB
  BY <1>4
<1> HIDE DEF e
<1>6. /\ IsTable(e, <<>>, <<>>, <<>>)
      /\ PartsOn(e) = <<>> /\ DriversOn(e) = <<>> /\ InMemory(e, <<>>) = <<>>
  BY <1>5, FreshTable
<1>7. PartChain(e) = <<>> /\ FsChain(e) = <<>>
  BY <1>6, TableRead
<1>8. rdb' = e[RDSK] /\ parts' = <<>> /\ fs' = <<>> /\ opened' = TRUE
  BY <1>6, <1>7 DEF create, Load, e
<1>9. inits' = inits + 1 /\ crashes' = crashes /\ crashes + inits < MaxUpsets
      /\ pending' = <<>> /\ reread' = "none"
  BY <1>2 DEF create
<1>10. TypeInv'
  <2>1. <<>> \in Seq(HeldBlock)
    BY EmptySeq
  <2>2. inits + 1 \in 0..MaxUpsets
    BY <1>1, <1>9, AreaAssumption DEF TypeInv
  <2> QED BY <1>1, <1>3, <1>4, <1>5, <1>8, <1>9, <2>1, <2>2 DEF TypeInv, e
<1>11. HighInv(<<>>, <<>>, <<>>)'
  <2>1. Len(<<>>) = 0 /\ 1..0 = {}
    OBVIOUS
  <2>2. \A x \in Used(<<>>, <<>>, <<>>) : x <= rdb'.high_rdsk_block
    BY <1>3, <1>5, <1>8, <2>1 DEF Used, RDSK
  <2> QED BY <1>8, <2>2 DEF HighInv
<1>12. ScanInv(<<>>, {})'
  <2>1. inits' # 0
    BY <1>1, <1>9 DEF TypeInv
  <2> QED BY <2>1 DEF ScanInv
<1>13. Quiet(<<>>, <<>>, {})'
  BY <1>6, <1>8, <1>9 DEF Quiet, Held, e
<1>14. StageInv(<<>>, <<>>, <<>>, {})'
  BY <1>6, <1>11, <1>12, <1>13 DEF StageInv, Stage, e
<1>15. TableStep
  <2>1. PartsOn(disk') = <<>> /\ DriversOn(disk') = <<>>
    BY <1>6 DEF e
  <2>2. Table!Create
    BY <2>1 DEF Table!Create
  <2> QED BY <2>2 DEF TableStep, CallChange, Table!table
<1> QED BY <1>6, <1>10, <1>14, <1>15 DEF RInv, e

\* A program that has no table in memory has left no call unfinished.
LEMMA CallOpen ==
  ASSUME RInv, open
  PROVE  RInv' /\ disk' = disk
<1>1. PICK P, F, S, L : StageInv(P, F, S, L)
  BY DEF RInv
<1>2. TypeInv /\ ~opened
  BY DEF RInv, open
<1>3. Quiet(P, F, L)
  BY <1>1, <1>2 DEF StageInv, Stage, Held, WritesPart, LinksPart, UnlinksPart, ScrubsPart,
                    WritesDriver, LinksDriver, Closes
<1>4. /\ IsTable(disk, P, F, S) /\ HighInv(P, F, S) /\ ScanInv(P, {})
      /\ disk[RDSK] \in Content /\ disk[RDSK].magic = "RDSK"
  <2>1. IsTable(disk, P, F, S) /\ HighInv(P, F, S) /\ ScanInv(P, {})
    BY <1>1, <1>3 DEF StageInv, Quiet
  <2>2. RDSK \in Blocks
    BY <2>1, TableBlocks DEF Used
  <2> QED BY <2>1, <2>2 DEF IsTable
<1>5. PartChain(disk) = P /\ FsChain(disk) = F
  BY <1>4, TableRead
<1>6. /\ rdb' = disk[RDSK] /\ opened' = TRUE
      /\ parts' = InMemory(disk, P) /\ fs' = InMemory(disk, F)
      /\ UNCHANGED <<disk, pending, reread, crashes, inits>>
  BY <1>5 DEF open, Load
<1>7. TypeInv'
  <2>1. parts' \in Seq(HeldBlock) /\ fs' \in Seq(HeldBlock)
    BY <1>4, <1>6, ReadTyped
  <2> QED BY <1>2, <1>4, <1>6, <2>1 DEF TypeInv
<1>8. Quiet(P, F, {})'
  BY <1>3, <1>6 DEF Quiet, Held
<1>9. StageInv(P, F, S, {})'
  <2>1. HighInv(P, F, S)'
    BY <1>2, <1>4, <1>6 DEF HighInv
  <2>2. ScanInv(P, {})'
    BY <1>4, <1>6 DEF ScanInv
  <2> QED BY <1>4, <1>6, <1>8, <2>1, <2>2 DEF StageInv, Stage
<1> QED BY <1>6, <1>7, <1>9 DEF RInv

\* A call that is cut off leaves the disk as it is.
LEMMA CallCrash ==
  ASSUME RInv, Crash
  PROVE  RInv' /\ disk' = disk
<1>1. PICK P, F, S, L : StageInv(P, F, S, L)
  BY DEF RInv
<1>2. TypeInv /\ IsTable(disk, P, F, S)
  BY <1>1 DEF RInv, StageInv
<1>3. /\ disk' = disk /\ crashes' = crashes + 1 /\ inits' = inits
      /\ pending' = <<>> /\ reread' = "none"
      /\ rdb' = FreshRDB /\ parts' = <<>> /\ fs' = <<>> /\ opened' = FALSE
      /\ crashes + inits < MaxUpsets
  BY DEF Crash, Exit
<1>4. FreshRDB \in Content /\ FreshRDB.magic = "RDSK"
  BY AreaAssumption, SMT DEF FreshRDB, RDBlock, Content, BlockNums, Blocks
<1>5. crashes + 1 \in 0..MaxUpsets /\ crashes + 1 # 0
  BY <1>2, <1>3, AreaAssumption DEF TypeInv
<1>6. TypeInv'
  <2>1. <<>> \in Seq(HeldBlock)
    BY EmptySeq
  <2> QED BY <1>2, <1>3, <1>4, <1>5, <2>1 DEF TypeInv
<1>7. StageInv(P, F, S, {})'
  <2>1. Quiet(P, F, {})'
    BY <1>3 DEF Quiet
  <2>2. HighInv(P, F, S)' /\ ScanInv(P, {})'
    BY <1>3, <1>5 DEF HighInv, ScanInv
  <2> QED BY <1>2, <1>3, <2>1, <2>2 DEF StageInv, Stage
<1> QED BY <1>3, <1>6, <1>7 DEF RInv

\* Where the cylinders that the program chooses lie.
LEMMA GapFacts ==
  ASSUME RInv, Idle, opened, NEW c \in GapStarts
  PROVE  c \in LoCyl..(HiCyl + 1)
<1>1. PICK P, F, S : IsTable(disk, P, F, S) /\ Held(P, F)
  BY BetweenCalls
<1>2. /\ DOMAIN parts = 1..Len(P) /\ \A i \in 1..Len(P) : parts[i].data = disk[P[i]]
  BY <1>1, HeldRead
<1>3. ASSUME NEW i \in 1..Len(P) PROVE disk[P[i]].hi \in (LoCyl - 1)..HiCyl
  <2>1. P[i] \in Blocks /\ disk[P[i]].magic = "PART"
    BY <1>1, TableBlocks
  <2>2. disk[P[i]] \in Content
    BY <2>1 DEF RInv, TypeInv
  <2> QED BY <2>1, <2>2, Kinds
<1>4. ASSUME NEW p \in ToSet(parts) PROVE p.data.hi \in (LoCyl - 1)..HiCyl
  <2>1. PICK i \in 1..Len(P) : p = parts[i]
    BY <1>2 DEF ToSet
  <2> QED BY <1>2, <1>3, <2>1
<1>5. CASE c = LoCyl
  BY <1>5, AreaAssumption
<1>6. CASE \E p \in ToSet(parts) : c = p.data.hi + 1
  BY <1>4, <1>6, AreaAssumption
<1> QED BY <1>5, <1>6 DEF GapStarts

\* add_partition, in each of its three ways to choose the cylinders.
LEMMA CallAdds ==
  ASSUME RInv, Adds
  PROVE  RInv' /\ disk' = disk
<1>1. ASSUME NEW n \in Names, NEW lo \in LoCyl..HiCyl, NEW hi \in LoCyl..HiCyl,
             AddPartitionAt(n, lo, hi)
      PROVE  RInv' /\ disk' = disk
  <2>1. lo \in LoCyl..(HiCyl + 1) /\ hi \in (LoCyl - 1)..HiCyl
    BY AreaAssumption
  <2>2. lo <= hi + 1 /\ Fits(lo, hi) /\ add_partition(n, lo, hi)
    BY <1>1 DEF AddPartitionAt, Placeable
  <2> QED BY <2>1, <2>2, CallAddPartition
<1>2. ASSUME NEW n \in Names, NEW num \in 0..(HiCyl - LoCyl + 1), AddPartitionSized(n, num)
      PROVE  RInv' /\ disk' = disk
  <2>1. PICK c \in FreeCylStarts(num) : add_partition(n, c, c + num - 1)
    BY <1>2 DEF AddPartitionSized
  <2>2. c \in GapStarts /\ c + num - 1 <= HiCyl /\ Fits(c, c + num - 1)
    BY DEF FreeCylStarts
  <2>3. c \in LoCyl..(HiCyl + 1)
    BY <2>1, <2>2, GapFacts DEF add_partition
  <2>4. c + num - 1 \in (LoCyl - 1)..HiCyl /\ c <= (c + num - 1) + 1
    BY <2>2, <2>3, AreaAssumption
  <2> QED BY <2>1, <2>2, <2>3, <2>4, CallAddPartition
<1>3. ASSUME NEW n \in Names, AddPartitionRest(n)
      PROVE  RInv' /\ disk' = disk
  <2>1. PICK g \in LargestGaps : add_partition(n, g[1], g[2])
    BY <1>3 DEF AddPartitionRest
  <2>2. g[1] \in GapStarts /\ g[2] \in LoCyl..HiCyl /\ g[1] <= g[2] /\ Fits(g[1], g[2])
    BY DEF LargestGaps
  <2>3. g[1] \in LoCyl..(HiCyl + 1)
    BY <2>1, <2>2, GapFacts DEF add_partition
  <2>4. g[2] \in (LoCyl - 1)..HiCyl /\ g[1] <= g[2] + 1
    BY <2>2, <2>3, AreaAssumption
  <2> QED BY <2>1, <2>2, <2>3, <2>4, CallAddPartition
<1> QED BY <1>1, <1>2, <1>3, CallAddFilesystem DEF Adds

\* A stage lasts as long as nothing happens.
LEMMA StageSame ==
  ASSUME UNCHANGED vars, NEW P, NEW F, NEW S, NEW L
  PROVE  /\ Quiet(P, F, L) => Quiet(P, F, L)'
         /\ WritesPart(P, F, S, L) => WritesPart(P, F, S, L)'
         /\ LinksPart(P, F, S, L) => LinksPart(P, F, S, L)'
         /\ UnlinksPart(P, F, S, L) => UnlinksPart(P, F, S, L)'
         /\ ScrubsPart(P, F, S, L) => ScrubsPart(P, F, S, L)'
         /\ Closes(P, F, L) => Closes(P, F, L)'
         /\ StageInv(P, F, S, L) => StageInv(P, F, S, L)'
<1>1. Held(P, F)' = Held(P, F)
  BY DEF vars, Held
<1>2. \A b : /\ LinkTo(P, b)' = LinkTo(P, b) /\ LinkTo(F, b)' = LinkTo(F, b)
             /\ HeadsPart(P, b)' = HeadsPart(P, b) /\ HeadsDriver(F, b)' = HeadsDriver(F, b)
  BY DEF vars, LinkTo, HeadsPart, HeadsDriver
<1>3. \A t, b, w : NewDriver(t, b, w, P, F, S)' = NewDriver(t, b, w, P, F, S)
  BY DEF vars, NewDriver
<1>4. Quiet(P, F, L) => Quiet(P, F, L)'
  BY <1>1 DEF vars, Quiet
<1>5. WritesPart(P, F, S, L) => WritesPart(P, F, S, L)'
  BY <1>1, <1>2 DEF vars, WritesPart, NewPart
<1>6. LinksPart(P, F, S, L) => LinksPart(P, F, S, L)'
  BY <1>1, <1>2 DEF vars, LinksPart, NewPart
<1>7. UnlinksPart(P, F, S, L) => UnlinksPart(P, F, S, L)'
  BY <1>1 DEF vars, UnlinksPart
<1>8. ScrubsPart(P, F, S, L) => ScrubsPart(P, F, S, L)'
  BY DEF vars, ScrubsPart
<1>9. WritesDriver(P, F, S, L) => WritesDriver(P, F, S, L)'
  BY ZenonT(40), <1>1, <1>2, <1>3 DEF vars, WritesDriver
<1>10. LinksDriver(P, F, S, L) => LinksDriver(P, F, S, L)'
  BY <1>1, <1>2, <1>3 DEF vars, LinksDriver
<1>11. Closes(P, F, L) => Closes(P, F, L)'
  BY DEF vars, Closes
<1>12. ASSUME IsTable(disk, P, F, S), HighInv(P, F, S), ScanInv(P, L)
       PROVE  IsTable(disk', P, F, S) /\ HighInv(P, F, S)' /\ ScanInv(P, L)'
  BY <1>12 DEF vars, HighInv, ScanInv
<1>13. StageInv(P, F, S, L) => StageInv(P, F, S, L)'
  BY <1>4, <1>5, <1>6, <1>7, <1>8, <1>9, <1>10, <1>11, <1>12 DEF StageInv, Stage
<1> QED BY <1>4, <1>5, <1>6, <1>7, <1>8, <1>11, <1>13

\* Every step keeps the invariant and is one of the abstract table, or none.
LEMMA RStep ==
  ASSUME RInv, [Next]_vars
  PROVE  RInv' /\ TableStep
<1>1. ASSUME RInv', disk' = disk PROVE RInv' /\ TableStep
  BY <1>1, NothingSeen
<1>2. CASE Adds
  BY <1>1, <1>2, CallAdds
<1>3. CASE \E i \in DOMAIN parts : delete_partition(i)
  BY <1>1, <1>3, CallDelete
<1>4. CASE create
  <2>1. TypeInv /\ reread = "none"
    BY <1>4, BetweenCalls DEF RInv, create
  <2> QED BY <1>4, <2>1, CallCreate
<1>5. CASE DeviceWrite
  BY <1>5, StepDeviceWrite
<1>6. CASE Crash
  BY <1>1, <1>6, CallCrash
<1>7. CASE open
  BY <1>1, <1>7, CallOpen
<1>8. CASE UNCHANGED vars
  <2>1. disk' = disk
    BY <1>8 DEF vars
  <2>2. TypeInv'
    BY <1>8 DEF vars, RInv, TypeInv
  <2>3. PICK P, F, S, L : StageInv(P, F, S, L)
    BY DEF RInv
  <2>4. StageInv(P, F, S, L)'
    BY <1>8, <2>3, StageSame
  <2> QED BY <1>1, <2>1, <2>2, <2>4 DEF RInv
<1> QED BY <1>2, <1>3, <1>4, <1>5, <1>6, <1>7, <1>8 DEF Next, Calls

\* A disk that was just initialised.
LEMMA RInit ==
  ASSUME Init
  PROVE  RInv /\ PartsOn(disk) = <<>> /\ DriversOn(disk) = <<>>
<1>1. FreshRDB \in Content /\ Blank \in Content /\ RDSK \in Blocks
      /\ FreshRDB.magic = "RDSK" /\ Blank.magic = "none" /\ FreshRDB.high_rdsk_block = 0
  BY AreaAssumption, SMT DEF FreshRDB, RDBlock, Content, BlockNums, Blocks, RDSK, Blank
<1>2. disk \in [Blocks -> Content] /\ disk[RDSK] = FreshRDB
      /\ \A x \in Blocks : disk[x] = FreshRDB \/ disk[x] = Blank
  BY <1>1 DEF Init
<1>3. /\ IsTable(disk, <<>>, <<>>, <<>>)
      /\ PartsOn(disk) = <<>> /\ DriversOn(disk) = <<>> /\ InMemory(disk, <<>>) = <<>>
  BY <1>2, FreshTable
<1>4. TypeInv
  <2>1. <<>> \in Seq(HeldBlock)
    BY EmptySeq
  <2> QED BY <1>1, <1>2, <2>1, AreaAssumption DEF Init, TypeInv
<1>5. HighInv(<<>>, <<>>, <<>>)
  <2>1. Len(<<>>) = 0 /\ 1..0 = {}
    OBVIOUS
  <2>2. rdb = FreshRDB /\ opened
    BY DEF Init
  <2>3. \A x \in Used(<<>>, <<>>, <<>>) : x <= rdb.high_rdsk_block
    BY <1>1, <2>1, <2>2 DEF Used, RDSK
  <2> QED BY <2>2, <2>3 DEF HighInv
<1>6. ScanInv(<<>>, {})
  BY <1>1, <1>2 DEF ScanInv
<1>7. Quiet(<<>>, <<>>, {})
  BY <1>2, <1>3 DEF Init, Quiet, Held
<1>8. StageInv(<<>>, <<>>, <<>>, {})
  BY <1>3, <1>5, <1>6, <1>7 DEF StageInv, Stage
<1> QED BY <1>3, <1>4, <1>8 DEF RInv

-----------------------------------------------------------------------------
(* Theorems *)

\* At every instant the disk holds a table, and what a call still has to write
\* is what its stage says.
THEOREM RInvariant == Spec => []RInv
<1>1. Init => RInv
  BY RInit
<1>2. RInv /\ [Next]_vars => RInv'
  BY RStep
<1> QED BY <1>1, <1>2, PTL DEF Spec

\* What the blocks of a list are.
LEMMA HeldTyped ==
  ASSUME NEW q \in Seq(HeldBlock), NEW h \in ToSet(q)
  PROVE  h.blk \in Blocks /\ h.data \in Content
<1>1. PICK i \in 1..Len(q) : h = q[i]
  BY LenProperties DEF ToSet
<1>2. h \in HeldBlock
  BY <1>1, ElementOfSeq
<1> QED BY <1>2 DEF HeldBlock

\* What the invariant says of the types.
LEMMA TypesOfInv ==
  ASSUME RInv
  PROVE  TypeOK
<1>1. TypeInv
  BY DEF RInv
<1>2. \A h \in ToSet(parts) \cup ToSet(fs) \cup ToSet(pending) :
        h.blk \in Blocks /\ h.data \in Content
  BY <1>1, HeldTyped DEF TypeInv
<1> QED BY <1>1, <1>2 DEF TypeInv, TypeOK

\* The invariant makes the table sound.
LEMMA SoundOfInv ==
  ASSUME RInv
  PROVE  TableSound
<1>1. PICK P, F, S, L : StageInv(P, F, S, L)
  BY DEF RInv
<1>2. IsTable(disk, P, F, S) /\ HighInv(P, F, S)
  BY <1>1 DEF StageInv
<1>3. TypeOK
  BY TypesOfInv
<1>4. /\ PartChain(disk) = P /\ FsChain(disk) = F /\ Readable(disk)
      /\ \A i \in 1..Len(F) : /\ SegChain(disk, disk[F[i]]) = S[i]
                              /\ Ends(disk, disk[F[i]].seg_list, "LSEG")
  BY <1>2, TableRead
<1>5. AlwaysReadable
  BY <1>4 DEF AlwaysReadable
<1>6. /\ DOMAIN P = 1..Len(P) /\ DOMAIN F = 1..Len(F)
      /\ \A i \in 1..Len(F) : DOMAIN S[i] = 1..Len(S[i])
  <2>1. P \in Seq(Blocks) /\ F \in Seq(Blocks) /\ \A i \in 1..Len(F) : S[i] \in Seq(Blocks)
    BY <1>2, TableBlocks
  <2> QED BY <2>1, LenProperties
<1>7. DriversWhole
  <2>1. SUFFICES ASSUME NEW b \in ToSet(FsChain(disk))
                 PROVE  LET segs == SegChain(disk, disk[b])
                        IN  /\ Ends(disk, disk[b].seg_list, "LSEG")
                            /\ \A i \in DOMAIN segs : disk[segs[i]].of = disk[b].dos_type
                                                      /\ disk[segs[i]].chunk = i
    BY DEF DriversWhole
  <2>2. PICK i \in 1..Len(F) : b = F[i]
    BY <1>4, <1>6 DEF ToSet
  <2>3. Chunks(disk, F[i], S[i])
    BY <1>2 DEF IsTable, DriverTable
  <2> QED BY <1>4, <1>6, <2>2, <2>3 DEF Chunks
<1>8. HighCovers
  <2>1. SUFFICES ASSUME Idle, crashes = 0,
                        NEW x \in ToSet(PartChain(disk)) \cup ToSet(FsChain(disk))
                          \cup UNION {ToSet(SegChain(disk, disk[f])) : f \in ToSet(FsChain(disk))}
                 PROVE  x <= disk[RDSK].high_rdsk_block
    BY DEF HighCovers
  <2>2. x \in Used(P, F, S)
    <3>1. CASE x \in ToSet(PartChain(disk))
      <4>1. \E i \in 1..Len(P) : x = P[i]
        BY <1>4, <1>6, <3>1 DEF ToSet
      <4> QED BY <1>2, <4>1, TableBlocks
    <3>2. CASE x \in ToSet(FsChain(disk))
      <4>1. \E i \in 1..Len(F) : x = F[i]
        BY <1>4, <1>6, <3>2 DEF ToSet
      <4> QED BY <1>2, <4>1, TableBlocks
    <3>3. CASE \E f \in ToSet(FsChain(disk)) : x \in ToSet(SegChain(disk, disk[f]))
      <4>1. PICK f \in ToSet(F) : x \in ToSet(SegChain(disk, disk[f]))
        BY <1>4, <3>3
      <4>2. PICK i \in 1..Len(F) : f = F[i]
        BY <1>6 DEF ToSet
      <4>3. x \in ToSet(S[i])
        BY <1>4, <4>1, <4>2
      <4>4. \E k \in 1..Len(S[i]) : x = S[i][k]
        BY <1>6, <4>3 DEF ToSet
      <4> QED BY <1>2, <4>4, TableBlocks
    <3> QED BY <2>1, <3>1, <3>2, <3>3
  <2>3. opened => rdb = disk[RDSK]
    BY <2>1, BetweenCalls
  <2> QED BY <1>2, <2>1, <2>2, <2>3 DEF HighInv
<1> QED BY <1>3, <1>5, <1>7, <1>8 DEF TableSound

\* At every instant, so after a crash anywhere in a call, the disk opens; the
\* chunks of each driver are its own, in order, to the end of the chain; and
\* unless a call was cut off, high_rdsk_block covers every block in use.
THEOREM TableIsSound == Spec => []TableSound
BY SoundOfInv, RInvariant, PTL

\* The partitions of a table have names of their own.
NamesOnce(d) == \A i, j \in DOMAIN PartsOn(d) : i # j => PartsOn(d)[i].name # PartsOn(d)[j].name

\* They keep them in every change that a call makes.
LEMMA NamesStayOnce ==
  ASSUME RInv, RInv', NamesOnce(disk), TableStep
  PROVE  NamesOnce(disk')
<1> DEFINE A == PartsOn(disk)
           B == PartsOn(disk')
<1>1. A \in Seq(Partition) /\ B \in Seq(Partition)
  <2>1. PICK P, F, S, L : StageInv(P, F, S, L)
    BY DEF RInv
  <2>2. PICK Q, G, R : IsTable(disk', Q, G, R)
    BY DEF RInv, StageInv
  <2> QED BY <2>1, <2>2, Rows DEF StageInv
<1>2. DOMAIN A = 1..Len(A) /\ DOMAIN B = 1..Len(B) /\ Len(A) \in Nat /\ Len(B) \in Nat
  BY <1>1, LenProperties
<1>3. \A i, j \in DOMAIN A : i # j => A[i].name # A[j].name
  BY DEF NamesOnce
<1>4. SUFFICES ASSUME NEW i \in DOMAIN B, NEW j \in DOMAIN B, i # j
               PROVE  B[i].name # B[j].name
  BY SMTT(40) DEF NamesOnce
<1> HIDE DEF A, B
<1>5. CASE Table!AddPartition
  <2>1. B # <<>> /\ Front(B) = A /\ \A q \in ToSet(A) : q.name # Last(B).name
    <3>1. Table!Last(B) = Last(B) /\ Table!Front(B) = Front(B) /\ Table!ToSet(A) = ToSet(A)
      BY DEF Table!Last, Last, Table!Front, Front, Table!ToSet, ToSet
    <3> QED BY <1>5, <3>1 DEF Table!AddPartition, A, B
  <2>2. Len(B) # 0 /\ Len(A) = Len(B) - 1 /\ \A k \in 1 .. Len(B) - 1 : A[k] = B[k]
    <3>1. Len(B) # 0 /\ 1 \in Nat /\ Len(B) - 1 \in Nat
      BY <1>1, <1>2, <2>1, EmptySeq
    <3>2. A = SubSeq(B, 1, Len(B) - 1)
      BY <2>1 DEF Front
    <3>3. \A k \in 1 .. Len(B) - 1 : B[k] \in Partition
      BY <1>1, <1>2, ElementOfSeq
    <3> QED BY <1>1, <1>2, <3>1, <3>2, <3>3, SMT
  <2>3. \A k \in 1..Len(A) : A[k].name # B[Len(B)].name
    BY <1>2, <2>1 DEF ToSet, Last
  <2>4. ASSUME NEW k \in 1..Len(B), k # Len(B) PROVE k \in 1..Len(A) /\ A[k] = B[k]
    <3>0. Len(B) \in Nat
      BY <1>2
    <3>1. k \in 1 .. Len(B) - 1
      BY <3>0, <2>4
    <3> QED BY <2>2, <3>1
  <2> QED BY <1>2, <1>3, <1>4, <2>3, <2>4
<1>6. CASE Table!DeletePartition
  <2>1. PICK k \in DOMAIN A : B = RemoveAt(A, k)
    <3>1. \A k : Table!RemoveAt(A, k) = RemoveAt(A, k)
      BY SMTT(40) DEF Table!RemoveAt, RemoveAt
    <3> QED BY <1>6, <3>1 DEF Table!DeletePartition, A, B
  <2>2. /\ Len(B) = Len(A) - 1
        /\ \A n \in 1 .. Len(A) - 1 : B[n] = IF n < k THEN A[n] ELSE A[n + 1]
    BY <1>1, <1>2, <2>1, Removed
  <2> DEFINE at(n) == IF n < k THEN n ELSE n + 1
  <2>3. /\ at(i) \in DOMAIN A /\ at(j) \in DOMAIN A /\ at(i) # at(j)
        /\ B[i] = A[at(i)] /\ B[j] = A[at(j)]
    BY <1>2, <1>4, <2>1, <2>2
  <2> QED BY <1>3, <2>3
<1>7. CASE Table!AddDriver \/ Table!Create \/ UNCHANGED Table!table
  <2>1. B = A \/ B = <<>>
    BY <1>7 DEF Table!AddDriver, Table!Create, Table!table, A, B
  <2> QED BY <1>2, <1>3, <1>4, <2>1
<1> QED BY <1>5, <1>6, <1>7 DEF TableStep, CallChange

\* No two partitions of the table share a cylinder or a name, and no block is
\* at two places of its chains.
NothingTwice ==
  LET P == PartChain(disk)
      F == FsChain(disk)
      w(i) == SegChain(disk, disk[F[i]])
  IN  /\ \A i, j \in DOMAIN P : i # j => P[i] # P[j] /\ Apart(disk[P[i]], disk[P[j]])
      /\ \A i, j \in DOMAIN F : i # j => F[i] # F[j] /\ disk[F[i]].dos_type # disk[F[j]].dos_type
      /\ \A i, j \in DOMAIN F : \A k \in DOMAIN w(i), n \in DOMAIN w(j) :
            w(i)[k] = w(j)[n] => i = j /\ k = n
      /\ \A i \in DOMAIN P, j \in DOMAIN F : P[i] # F[j]
      /\ \A j \in DOMAIN F : \A k \in DOMAIN w(j) :
            /\ \A i \in DOMAIN P : P[i] # w(j)[k]
            /\ \A i \in DOMAIN F : F[i] # w(j)[k]
      /\ NamesOnce(disk)

\* At every instant, whatever was added and deleted before and wherever calls
\* were cut off, the partitions are disjoint and no two chains share a block.
THEOREM NothingTwiceAlways == Spec => []NothingTwice
<1>1. ASSUME RInv, NamesOnce(disk) PROVE NothingTwice
  <2>1. PICK A, B, S, L : StageInv(A, B, S, L)
    BY <1>1 DEF RInv
  <2> DEFINE P == PartChain(disk)
             F == FsChain(disk)
             w(i) == SegChain(disk, disk[F[i]])
  <2>2. IsTable(disk, P, F, S)
    <3>1. IsTable(disk, A, B, S)
      BY <2>1 DEF StageInv
    <3> QED BY <3>1, TableRead
  <2> HIDE DEF P, F
  <2>3. \A i \in 1..Len(F) : SegChain(disk, disk[F[i]]) = S[i]
    BY <2>2, TableRead
  <2>4. /\ DOMAIN P = 1..Len(P) /\ DOMAIN F = 1..Len(F)
        /\ \A i \in 1..Len(F) : DOMAIN S[i] = 1..Len(S[i])
    BY <2>2, TableBlocks, LenProperties
  <2>5. /\ \A i \in 1..Len(P) : disk[P[i]].magic = "PART"
        /\ \A i \in 1..Len(F) : /\ disk[F[i]].magic = "FSHD"
                                /\ \A k \in 1..Len(S[i]) : disk[S[i][k]].magic = "LSEG"
    BY <2>2, TableBlocks
  <2>6. \A i, j \in 1..Len(P) : i # j => P[i] # P[j] /\ Apart(disk[P[i]], disk[P[j]])
    BY <2>2 DEF IsTable, PartTable, Chain
  <2>7. \A i, j \in 1..Len(F) : i # j => F[i] # F[j] /\ disk[F[i]].dos_type # disk[F[j]].dos_type
    BY <2>2 DEF IsTable, DriverTable, Chain
  <2>8. ASSUME NEW i \in 1..Len(F), NEW j \in 1..Len(F),
               NEW k \in 1..Len(S[i]), NEW n \in 1..Len(S[j]), S[i][k] = S[j][n]
        PROVE  i = j /\ k = n
    <3>1. /\ disk[S[i][k]].of = disk[F[i]].dos_type
          /\ disk[S[j][n]].of = disk[F[j]].dos_type
      BY <2>2 DEF IsTable, DriverTable, Chunks
    <3>2. i = j
      BY <2>7, <2>8, <3>1
    <3>3. \A x, y \in 1..Len(S[i]) : S[i][x] = S[i][y] => x = y
      BY <2>2 DEF IsTable, DriverTable, Chunks, Chain
    <3> QED BY <2>8, <3>2, <3>3
  <2>9. /\ \A i \in 1..Len(P), j \in 1..Len(F) : P[i] # F[j]
        /\ \A j \in 1..Len(F) : \A k \in 1..Len(S[j]) :
              /\ \A i \in 1..Len(P) : P[i] # S[j][k]
              /\ \A i \in 1..Len(F) : F[i] # S[j][k]
    BY <2>5
  <2>10. \A i \in DOMAIN F : w(i) = S[i] /\ DOMAIN w(i) = 1..Len(S[i])
    BY <2>3, <2>4
  <2> HIDE DEF w
  <2>11. ASSUME NEW i \in DOMAIN F, NEW j \in DOMAIN F,
                NEW k \in DOMAIN w(i), NEW n \in DOMAIN w(j), w(i)[k] = w(j)[n]
         PROVE  i = j /\ k = n
    <3>1. /\ i \in 1..Len(F) /\ j \in 1..Len(F) /\ k \in 1..Len(S[i]) /\ n \in 1..Len(S[j])
          /\ S[i][k] = S[j][n]
      BY <2>4, <2>10, <2>11
    <3> QED BY <2>8, <3>1
  <2>12. ASSUME NEW j \in DOMAIN F, NEW k \in DOMAIN w(j)
         PROVE  /\ \A i \in DOMAIN P : P[i] # w(j)[k]
                /\ \A i \in DOMAIN F : F[i] # w(j)[k]
    BY ZenonT(40), <2>4, <2>9, <2>10
  <2>13. \A i \in DOMAIN P, j \in DOMAIN F : P[i] # F[j]
    BY <2>4, <2>9
  <2>14. /\ \A i, j \in DOMAIN P : i # j => P[i] # P[j] /\ Apart(disk[P[i]], disk[P[j]])
         /\ \A i, j \in DOMAIN F : i # j => F[i] # F[j] /\ disk[F[i]].dos_type # disk[F[j]].dos_type
    BY <2>4, <2>6, <2>7
  <2> QED BY <1>1, <2>11, <2>12, <2>13, <2>14, Zenon DEF NothingTwice, P, F, w
<1>2. Init => NamesOnce(disk)
  BY RInit DEF NamesOnce
<1>3. RInv /\ NamesOnce(disk) /\ [Next]_vars => NamesOnce(disk)'
  BY RStep, NamesStayOnce
<1> QED BY <1>1, <1>2, <1>3, RInvariant, PTL DEF Spec

\* The invariant lets memory be the table.
LEMMA MemoryOfInv ==
  ASSUME RInv
  PROVE  MemoryIsTheTable
<1>1. SUFFICES ASSUME Idle, opened
               PROVE  /\ rdb = disk[RDSK]
                      /\ parts = InMemory(disk, PartChain(disk))
                      /\ fs = InMemory(disk, FsChain(disk))
  BY DEF MemoryIsTheTable
<1>2. PICK P, F, S : IsTable(disk, P, F, S) /\ rdb = disk[RDSK] /\ Held(P, F)
  BY <1>1, BetweenCalls
<1>3. PartChain(disk) = P /\ FsChain(disk) = F
  BY <1>2, TableRead
<1> QED BY <1>2, <1>3 DEF Held

\* Between calls the table in memory is the one on the disk, although each call
\* rereads one of its lists only.
THEOREM MemoryIsTheTableAlways == Spec => []MemoryIsTheTable
BY MemoryOfInv, RInvariant, PTL

\* The invariant says where PART blocks are.
LEMMA ScanOfInv ==
  ASSUME RInv
  PROVE  ScanFindsOnlyTheTable
<1>1. SUFFICES ASSUME Idle, crashes = 0, inits = 0
               PROVE  {b \in Blocks : disk[b].magic = "PART"} = ToSet(PartChain(disk))
  BY DEF ScanFindsOnlyTheTable
<1>2. PICK P, F, S : IsTable(disk, P, F, S) /\ ScanInv(P, {})
  BY <1>1, BetweenCalls
<1>3. PartChain(disk) = P /\ DOMAIN P = 1..Len(P)
  BY <1>2, TableRead, TableBlocks, LenProperties
<1>4. \A x : x \in ToSet(PartChain(disk)) <=> \E i \in 1..Len(P) : x = P[i]
  BY <1>3 DEF ToSet
<1>5. \A x \in Blocks : disk[x].magic = "PART" => \E i \in 1..Len(P) : x = P[i]
  BY <1>1, <1>2 DEF ScanInv
<1>6. \A i \in 1..Len(P) : P[i] \in Blocks /\ disk[P[i]].magic = "PART"
  BY <1>2, TableBlocks
<1> QED BY <1>4, <1>5, <1>6

\* Between calls every PART block on the disk is linked: a scan finds nothing
\* that was deleted, unless a call was cut off or a table was written over
\* another.
THEOREM ScanFindsOnlyTheTableAlways == Spec => []ScanFindsOnlyTheTable
BY ScanOfInv, RInvariant, PTL

\* What a reader of the image sees changes as the abstract table does: every
\* call takes effect at one write, wherever it is cut off, and between no two
\* writes is there a table that is neither the one before nor the one after.
THEOREM ImplementsTable == Spec => Table!Spec
<1>1. Init => Table!Init
  BY RInit DEF Table!Init
<1>2. RInv /\ [Next]_vars => [Table!Next]_(Table!table)
  BY RStep DEF TableStep, CallChange, Table!Next
<1> QED BY <1>1, <1>2, RInvariant, PTL DEF Spec, Table!Spec
=============================================================================
