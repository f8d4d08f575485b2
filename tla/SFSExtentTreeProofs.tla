------------------------ MODULE SFSExtentTreeProofs ------------------------
(***************************************************************************)
(* The extent B-tree of an SFS volume is sound after every call, whatever  *)
(* the keys, the sizes of its nodes and the number of its levels, and      *)
(* implements the files that FileExtents describes, as long as the admin   *)
(* space lasts and deletes spare the first leaf of each index.             *)
(*                                                                         *)
(* The proof sees a tree as sets: what entries a block has, at which level *)
(* it is, and which keys it is responsible for (its span).  A split and a  *)
(* leaf taken out are small changes of these, and only then comes what the *)
(* code does with sequences of entries.                                    *)
(***************************************************************************)
EXTENDS SFSExtentTree, FiniteSetTheorems, SequenceTheorems, NaturalsInduction,
        WellFoundedInduction, TLAPS

-----------------------------------------------------------------------------
(* Induction, and greatest and least elements *)

\* What holds of 0 and of each successor holds of every natural number.
LEMMA ExtentInduction ==
  ASSUME NEW T, 0 \in T, \A n \in Nat : n \in T => n + 1 \in T
  PROVE  \A n \in Nat : n \in T
<1> SUFFICES ASSUME NEW z \in Nat, z \notin T PROVE FALSE
  OBVIOUS
<1> DEFINE C == {n \in Nat : n \notin T}
<1>1. C \subseteq Nat /\ C # {}
  OBVIOUS
<1> HIDE DEF C
<1>2. PICK x \in C : \A y \in C : ~(<<y, x>> \in OpToRel(<, Nat))
  BY <1>1, NatLessThanWellFounded, WFMin
<1>3. \A y \in C : ~(y < x)
  BY <1>1, <1>2 DEF OpToRel
<1>4. x \in Nat /\ x \notin T /\ x # 0 /\ x - 1 \in Nat
  BY DEF C
<1>5. x - 1 \in T
  BY <1>3, <1>4 DEF C
<1>6. (x - 1) + 1 = x
  BY <1>4
<1> QED BY <1>4, <1>5, <1>6

\* A set of natural numbers has a least one.
LEMMA LeastNumber ==
  ASSUME NEW S \in SUBSET Nat, S # {}
  PROVE  \E x \in S : \A y \in S : x <= y
<1>1. PICK x \in S : \A y \in S : ~(<<y, x>> \in OpToRel(<, Nat))
  BY NatLessThanWellFounded, WFMin
<1>2. \A y \in S : ~(y < x)
  BY <1>1 DEF OpToRel
<1> QED BY <1>2

\* Below a bound it has a greatest one.
LEMMA GreatestNumber ==
  ASSUME NEW S \in SUBSET Nat, S # {}, NEW m \in Nat, \A y \in S : y <= m
  PROVE  \E x \in S : \A y \in S : y <= x
<1> DEFINE D == {m - y : y \in S}
<1>1. D \in SUBSET Nat /\ D # {}
  <2>1. \A y \in S : m - y \in Nat
    OBVIOUS
  <2> QED BY <2>1
<1>2. PICK d \in D : \A e \in D : d <= e
  <2> HIDE DEF D
  <2> QED BY <1>1, LeastNumber
<1>3. PICK x \in S : d = m - x
  BY <1>2
<1>4. ASSUME NEW y \in S PROVE y <= x
  <2>1. m - x <= m - y /\ x \in Nat /\ y \in Nat
    BY <1>2, <1>3
  <2> QED BY <2>1
<1> QED BY <1>4

\* Min and Max of the community modules, of numbers.
LEMMA MinIs ==
  ASSUME NEW S \in SUBSET Nat, S # {}
  PROVE  Min(S) \in S /\ \A y \in S : Min(S) <= y
BY LeastNumber DEF Min

\* The same for Max, of numbers below a bound.
LEMMA MaxIs ==
  ASSUME NEW S \in SUBSET Nat, S # {}, NEW m \in Nat, \A y \in S : y <= m
  PROVE  Max(S) \in S /\ \A y \in S : y <= Max(S)
<1>1. \E x \in S : \A y \in S : x >= y
  <2>1. PICK x \in S : \A y \in S : y <= x
    BY GreatestNumber
  <2>2. \A y \in S : x >= y
    BY <2>1
  <2> QED BY <2>2
<1> QED BY <1>1 DEF Max

-----------------------------------------------------------------------------
(* Entries in ascending order of their keys *)

Block == AdminBlocks \cup {Root}
Extents == [key : Nat \ {0}, next : Nat, prev : Nat]
Pointers == [key : Nat, to : Block]
Items == Extents \cup Pointers

Ascending(s) == \A i, j \in DOMAIN s : i < j => s[i].key < s[j].key

\* Their keys are numbers.
LEMMA ItemKeys == \A x \in Items : x.key \in Nat
BY DEF Items, Extents, Pointers

\* What is in ascending order has each key once.
LEMMA AscendingOnce ==
  ASSUME NEW X \in SUBSET Items, NEW s \in Seq(X), Ascending(s)
  PROVE  /\ Range(s) \subseteq X
         /\ \A i, j \in DOMAIN s : s[i].key = s[j].key => i = j
         /\ \A x, y \in Range(s) : x.key = y.key => x = y
         /\ Range(s) = {} <=> s = <<>>
<1>1. DOMAIN s = 1..Len(s) /\ \A i \in DOMAIN s : s[i] \in X /\ s[i].key \in Nat
  BY ItemKeys
<1>2. ASSUME NEW i \in DOMAIN s, NEW j \in DOMAIN s, s[i].key = s[j].key PROVE i = j
  BY <1>1, <1>2 DEF Ascending
<1>3. Range(s) \subseteq X /\ \A x \in Range(s) : \E i \in DOMAIN s : x = s[i]
  BY <1>1 DEF Range
<1>4. \A x, y \in Range(s) : x.key = y.key => x = y
  BY <1>2, <1>3
<1>5. s # <<>> => s[1] \in Range(s)
  BY <1>1 DEF Range
<1>6. s = <<>> => Range(s) = {}
  BY DEF Range
<1> QED BY <1>2, <1>3, <1>4, <1>5, <1>6

\* A part of such a sequence is one.
LEMMA PartSorted ==
  ASSUME NEW X \in SUBSET Items, NEW s \in Seq(X), Ascending(s),
         NEW m \in 1..Len(s)+1, NEW n \in m-1..Len(s)
  PROVE  /\ SubSeq(s, m, n) \in Seq(X) /\ Ascending(SubSeq(s, m, n))
         /\ Len(SubSeq(s, m, n)) = n - m + 1
         /\ \A i \in 1..n-m+1 : SubSeq(s, m, n)[i] = s[m + i - 1]
         /\ Range(SubSeq(s, m, n)) = {s[i] : i \in m..n}
<1> DEFINE t == SubSeq(s, m, n)
<1>0. m \in Nat /\ n \in Nat /\ Len(s) \in Nat /\ DOMAIN s = 1..Len(s)
  OBVIOUS
<1>1. \A i \in m..n : i \in DOMAIN s /\ s[i] \in X
  BY <1>0
<1>2. /\ t \in Seq(X)
      /\ Len(t) = IF m <= n THEN n - m + 1 ELSE 0
      /\ \A i \in 1..n-m+1 : t[i] = s[m + i - 1]
  BY SMTT(40), <1>0, <1>1, SubSeqProperties
<1>3. Len(t) = n - m + 1
  BY <1>0, <1>2
<1> HIDE DEF t
<1>4. DOMAIN t = 1..n-m+1
  BY <1>2, <1>3
<1>5. Ascending(t)
  <2> SUFFICES ASSUME NEW i \in DOMAIN t, NEW j \in DOMAIN t, i < j
               PROVE  t[i].key < t[j].key
    BY DEF Ascending
  <2>1. t[i] = s[m + i - 1] /\ t[j] = s[m + j - 1]
    BY <1>2, <1>4
  <2>2. m + i - 1 \in DOMAIN s /\ m + j - 1 \in DOMAIN s /\ m + i - 1 < m + j - 1
    BY <1>0, <1>4
  <2> QED BY <2>1, <2>2 DEF Ascending
<1>6. Range(t) = {s[i] : i \in m..n}
  <2>1. ASSUME NEW i \in m..n PROVE s[i] \in Range(t)
    <3>1. i - m + 1 \in DOMAIN t /\ t[i - m + 1] = s[i]
      BY <1>0, <1>2, <1>4
    <3> QED BY <3>1 DEF Range
  <2>2. ASSUME NEW j \in DOMAIN t PROVE t[j] \in {s[i] : i \in m..n}
    <3>1. m + j - 1 \in m..n /\ t[j] = s[m + j - 1]
      BY <1>0, <1>2, <1>4
    <3> QED BY <3>1
  <2> QED BY <2>1, <2>2 DEF Range
<1> QED BY <1>2, <1>3, <1>5, <1>6 DEF t

\* Place puts an item behind what is smaller.
LEMMA PlaceSorted ==
  ASSUME NEW X \in SUBSET Items, NEW s \in Seq(X), Ascending(s),
         NEW e \in X, \A x \in Range(s) : x.key # e.key
  PROVE  /\ Place(s, e) \in Seq(X) /\ Ascending(Place(s, e))
         /\ Range(Place(s, e)) = Range(s) \cup {e}
         /\ Len(Place(s, e)) = Len(s) + 1
<1> DEFINE S == {0} \cup {n \in DOMAIN s : e.key > s[n].key}
           m == Max(S)
<1>1. DOMAIN s = 1..Len(s) /\ Len(s) \in Nat /\ e.key \in Nat
      /\ \A i \in 1..Len(s) : s[i] \in X /\ s[i].key \in Nat /\ s[i].key # e.key
  BY ItemKeys DEF Range
<1>2. S \in SUBSET Nat /\ S # {} /\ \A y \in S : y <= Len(s)
  BY <1>1
<1>3. m \in S /\ \A y \in S : y <= m
  <2> HIDE DEF S
  <2> QED BY <1>1, <1>2, MaxIs
<1>4. m \in 0..Len(s)
  BY <1>1, <1>2, <1>3
<1>5. \A i \in 1..m : s[i].key < e.key
  <2> SUFFICES ASSUME NEW i \in 1..m PROVE s[i].key < e.key
    OBVIOUS
  <2>1. m \in DOMAIN s /\ s[m].key < e.key
    BY <1>1, <1>3, <1>4
  <2>2. i \in DOMAIN s /\ (i < m => s[i].key < s[m].key)
    BY <1>1, <1>4, <2>1 DEF Ascending
  <2> QED BY <1>1, <1>4, <2>1, <2>2
<1>6. \A i \in m+1..Len(s) : s[i].key > e.key
  <2> SUFFICES ASSUME NEW i \in m+1..Len(s) PROVE s[i].key > e.key
    OBVIOUS
  <2>1. i \in DOMAIN s /\ i \notin S
    BY SMTT(40), <1>1, <1>3, <1>4
  <2> QED BY <1>1, <2>1
<1> HIDE DEF S, m
<1>7. Place(s, e) = SubSeq(s, 1, m) \o <<e>> \o SubSeq(s, m + 1, Len(s))
  <2>1. (1 + m) - 1 = m /\ 1 + m = m + 1
    BY <1>4
  <2> QED BY <2>1 DEF Place, InsertAt, S, m
<1> DEFINE p == Place(s, e)
           q == [i \in 1..Len(s)+1 |-> IF i <= m THEN s[i] ELSE IF i = m + 1 THEN e ELSE s[i - 1]]
<1>8. p = q /\ p \in Seq(X) /\ Len(p) = Len(s) + 1
  <2> DEFINE a == SubSeq(s, 1, m)
             b == SubSeq(s, m + 1, Len(s))
             c == a \o <<e>>
             d == c \o b
  <2>1. a \in Seq(X) /\ Len(a) = m /\ \A i \in 1..m : a[i] = s[i]
    <3>1. 1 \in 1..Len(s)+1 /\ m \in 1-1..Len(s) /\ m - 1 + 1 = m /\ \A i \in 1..m : 1 + i - 1 = i
      BY <1>1, <1>4
    <3> QED BY <3>1, PartSorted
  <2>2. b \in Seq(X) /\ Len(b) = Len(s) - m /\ \A i \in 1..Len(s) - m : b[i] = s[m + i]
    <3>1. m + 1 \in 1..Len(s)+1 /\ Len(s) \in (m+1)-1..Len(s) /\ Len(s) - (m + 1) + 1 = Len(s) - m
          /\ \A i \in 1..Len(s) - m : (m + 1) + i - 1 = m + i
      BY <1>1, <1>4
    <3>2. /\ b \in Seq(X) /\ Len(b) = Len(s) - (m + 1) + 1
          /\ \A i \in 1..Len(s)-(m+1)+1 : b[i] = s[(m + 1) + i - 1]
      BY <3>1, PartSorted
    <3> QED BY <3>1, <3>2
  <2> HIDE DEF a, b
  <2>3. <<e>> \in Seq(X) /\ Len(<<e>>) = 1 /\ <<e>>[1] = e
    OBVIOUS
  <2>4. c \in Seq(X) /\ Len(c) = m + 1 /\ \A i \in 1..m+1 : c[i] = IF i <= m THEN s[i] ELSE e
    <3>1. /\ c \in Seq(X) /\ Len(c) = Len(a) + 1
          /\ \A i \in 1..Len(a)+1 : c[i] = IF i <= Len(a) THEN a[i] ELSE <<e>>[i - Len(a)]
      BY <2>1, <2>3, ConcatProperties
    <3>2. ASSUME NEW i \in 1..m+1 PROVE c[i] = IF i <= m THEN s[i] ELSE e
      <4>1. i <= m => i \in 1..m
        BY <1>4
      <4>2. ~(i <= m) => i - m = 1
        BY <1>4
      <4> QED BY <2>1, <2>3, <3>1, <4>1, <4>2
    <3> QED BY <2>1, <3>1, <3>2
  <2> HIDE DEF c
  <2>5. d \in Seq(X) /\ Len(d) = (m + 1) + (Len(s) - m)
        /\ \A i \in 1..(m + 1) + (Len(s) - m) : d[i] = IF i <= m + 1 THEN c[i] ELSE b[i - (m + 1)]
    <3>1. /\ d \in Seq(X) /\ Len(d) = Len(c) + Len(b)
          /\ \A i \in 1..Len(c)+Len(b) : d[i] = IF i <= Len(c) THEN c[i] ELSE b[i - Len(c)]
      BY ZenonT(40), <2>2, <2>4, ConcatProperties
    <3> QED BY <2>2, <2>4, <3>1
  <2> HIDE DEF d
  <2>6. (m + 1) + (Len(s) - m) = Len(s) + 1
    BY <1>1, <1>4
  <2>7. ASSUME NEW i \in 1..Len(s)+1 PROVE d[i] = q[i]
    <3>1. CASE i <= m + 1
      <4>1. i \in 1..m+1 /\ d[i] = c[i]
        BY <3>1, <2>5, <2>6
      <4> QED BY <4>1, <2>4, <1>4
    <3>2. CASE i > m + 1
      <4>1. d[i] = b[i - (m + 1)]
        BY <3>2, <2>5, <2>6, <1>4
      <4>2. i - (m + 1) \in 1..Len(s) - m /\ m + (i - (m + 1)) = i - 1
        BY <3>2, <1>1, <1>4
      <4>3. b[i - (m + 1)] = s[i - 1]
        BY <4>2, <2>2
      <4> QED BY <3>2, <4>1, <4>3, <1>4
    <3> QED BY <3>1, <3>2, <1>4
  <2>8. p = d
    BY <1>7 DEF a, b, c, d
  <2>9. DOMAIN p = 1..Len(s)+1
    BY <2>5, <2>6, <2>8
  <2> QED BY <2>5, <2>6, <2>7, <2>8, <2>9
<1>9. Ascending(p)
  <2> SUFFICES ASSUME NEW i \in DOMAIN p, NEW j \in DOMAIN p, i < j
               PROVE  p[i].key < p[j].key
    BY DEF Ascending
  <2>0. i \in 1..Len(s)+1 /\ j \in 1..Len(s)+1
    BY <1>8
  <2>1. \A k, l \in 1..Len(s) : k < l => s[k].key < s[l].key
    BY <1>1 DEF Ascending
  <2>2. CASE j <= m
    BY <2>0, <2>1, <2>2, <1>4, <1>8
  <2>3. CASE i <= m /\ j = m + 1
    BY <2>0, <2>3, <1>4, <1>5, <1>8
  <2>4. CASE i <= m /\ j > m + 1
    <3>1. p[i] = s[i] /\ p[j] = s[j - 1] /\ i < j - 1 /\ i \in 1..Len(s) /\ j - 1 \in 1..Len(s)
      BY <2>0, <2>4, <1>4, <1>8
    <3> QED BY <3>1, <2>1
  <2>5. CASE i = m + 1
    <3>1. p[i] = e /\ p[j] = s[j - 1] /\ j - 1 \in m+1..Len(s)
      BY <2>0, <2>5, <1>4, <1>8
    <3> QED BY <3>1, <1>6, <1>1, <1>4
  <2>6. CASE i > m + 1
    <3>1. p[i] = s[i - 1] /\ p[j] = s[j - 1] /\ i - 1 < j - 1 /\ i - 1 \in 1..Len(s) /\ j - 1 \in 1..Len(s)
      BY <2>0, <2>6, <1>4, <1>8
    <3> QED BY <3>1, <2>1
  <2> QED BY <2>0, <2>2, <2>3, <2>4, <2>5, <2>6, <1>4
<1>10. Range(p) = Range(s) \cup {e}
  <2>1. ASSUME NEW i \in 1..Len(s)+1 PROVE p[i] \in Range(s) \cup {e}
    <3>1. i <= m => i \in DOMAIN s
      BY <1>1, <1>4
    <3>2. i > m + 1 => i - 1 \in DOMAIN s
      BY <1>1, <1>4
    <3> QED BY <1>8, <3>1, <3>2, <1>4 DEF Range
  <2>2. ASSUME NEW i \in DOMAIN s PROVE s[i] \in Range(p)
    <3>1. i <= m => i \in DOMAIN p /\ p[i] = s[i]
      BY <1>1, <1>4, <1>8
    <3>2. i > m => i + 1 \in DOMAIN p /\ p[i + 1] = s[i]
      BY <1>1, <1>4, <1>8
    <3> QED BY <3>1, <3>2, <1>1, <1>4 DEF Range
  <2>3. m + 1 \in DOMAIN p /\ p[m + 1] = e
    BY <1>4, <1>8
  <2>4. DOMAIN p = 1..Len(s)+1
    BY <1>8
  <2> HIDE DEF p
  <2>5. ASSUME NEW x \in Range(p) PROVE x \in Range(s) \cup {e}
    BY <2>1, <2>4, <2>5, Zenon DEF Range
  <2>6. ASSUME NEW x \in Range(s) \cup {e} PROVE x \in Range(p)
    <3>1. e \in Range(p)
      BY <2>3, Zenon DEF Range
    <3>2. ASSUME x \in Range(s) PROVE x \in Range(p)
      BY <2>2, <3>2, Zenon DEF Range
    <3> QED BY <2>6, <3>1, <3>2, Zenon
  <2> QED BY <2>5, <2>6, Zenon
<1> QED BY <1>8, <1>9, <1>10

\* RemoveAt takes one item out.
LEMMA RemoveSorted ==
  ASSUME NEW X \in SUBSET Items, NEW s \in Seq(X), Ascending(s), NEW i \in DOMAIN s
  PROVE  /\ RemoveAt(s, i) \in Seq(X) /\ Ascending(RemoveAt(s, i))
         /\ Range(RemoveAt(s, i)) = Range(s) \ {s[i]}
         /\ Len(RemoveAt(s, i)) = Len(s) - 1
<1> DEFINE a == SubSeq(s, 1, i - 1)
           b == SubSeq(s, i + 1, Len(s))
           r == RemoveAt(s, i)
<1>0. i \in Nat /\ 1 <= i /\ i <= Len(s) /\ Len(s) \in Nat /\ DOMAIN s = 1..Len(s)
  OBVIOUS
<1>1. a \in Seq(X) /\ Len(a) = i - 1 /\ \A k \in 1..i-1 : a[k] = s[k]
  <2>1. 1 \in 1..Len(s)+1 /\ i - 1 \in 1-1..Len(s) /\ (i - 1) - 1 + 1 = i - 1
        /\ \A k \in 1..i-1 : 1 + k - 1 = k
    BY <1>0
  <2>2. /\ a \in Seq(X) /\ Len(a) = (i - 1) - 1 + 1
        /\ \A k \in 1..(i-1)-1+1 : a[k] = s[1 + k - 1]
    BY <2>1, PartSorted
  <2> QED BY <2>1, <2>2
<1>2. b \in Seq(X) /\ Len(b) = Len(s) - i /\ \A k \in 1..Len(s) - i : b[k] = s[i + k]
  <2>1. i + 1 \in 1..Len(s)+1 /\ Len(s) \in (i+1)-1..Len(s) /\ Len(s) - (i + 1) + 1 = Len(s) - i
        /\ \A k \in 1..Len(s) - i : (i + 1) + k - 1 = i + k
    BY <1>0
  <2>2. /\ b \in Seq(X) /\ Len(b) = Len(s) - (i + 1) + 1
        /\ \A k \in 1..Len(s)-(i+1)+1 : b[k] = s[(i + 1) + k - 1]
    BY <2>1, PartSorted
  <2> QED BY <2>1, <2>2
<1>3. r = a \o b
  BY DEF RemoveAt
<1> HIDE DEF a, b
<1>4. r \in Seq(X) /\ Len(r) = Len(s) - 1
      /\ \A k \in 1..Len(s)-1 : r[k] = IF k <= i - 1 THEN s[k] ELSE s[k + 1]
  <2>1. /\ r \in Seq(X) /\ Len(r) = Len(a) + Len(b)
        /\ \A k \in 1..Len(a)+Len(b) : r[k] = IF k <= Len(a) THEN a[k] ELSE b[k - Len(a)]
    <3> HIDE DEF r
    <3> QED BY <1>1, <1>2, <1>3, ConcatProperties
  <2>2. Len(a) + Len(b) = Len(s) - 1
    BY <1>0, <1>1, <1>2
  <2> HIDE DEF r
  <2>3. ASSUME NEW k \in 1..Len(s)-1 PROVE r[k] = IF k <= i - 1 THEN s[k] ELSE s[k + 1]
    <3>1. CASE k <= i - 1
      BY <3>1, <2>1, <2>2, <1>0, <1>1
    <3>2. CASE ~(k <= i - 1)
      <4>1. r[k] = b[k - (i - 1)] /\ k - (i - 1) \in 1..Len(s) - i /\ i + (k - (i - 1)) = k + 1
        BY SMTT(40), <3>2, <2>1, <2>2, <1>0, <1>1
      <4> QED BY <3>2, <4>1, <1>2
    <3> QED BY <3>1, <3>2
  <2> QED BY <2>1, <2>2, <2>3
<1> HIDE DEF r
<1>5. Ascending(r)
  <2> SUFFICES ASSUME NEW j \in DOMAIN r, NEW k \in DOMAIN r, j < k
               PROVE  r[j].key < r[k].key
    BY DEF Ascending
  <2>1. DOMAIN r = 1..Len(s)-1
    BY <1>0, <1>4
  <2> DEFINE old(n) == IF n <= i - 1 THEN n ELSE n + 1
  <2>2. r[j] = s[old(j)] /\ r[k] = s[old(k)]
    BY <2>1, <1>4
  <2>3. old(j) \in DOMAIN s /\ old(k) \in DOMAIN s /\ old(j) < old(k)
    BY <2>1, <1>0
  <2> HIDE DEF old
  <2> QED BY <2>2, <2>3 DEF Ascending
<1>6. Range(r) = Range(s) \ {s[i]}
  <2>1. DOMAIN r = 1..Len(s)-1
    BY <1>0, <1>4
  <2>2. \A j, k \in DOMAIN s : s[j] = s[k] => j = k
    BY AscendingOnce
  <2>3. ASSUME NEW k \in DOMAIN r PROVE r[k] \in Range(s) \ {s[i]}
    <3>1. CASE k <= i - 1
      BY <3>1, <2>1, <2>2, <1>0, <1>4 DEF Range
    <3>2. CASE ~(k <= i - 1)
      <4>1. r[k] = s[k + 1] /\ k + 1 \in DOMAIN s /\ k + 1 # i
        BY <3>2, <2>1, <1>0, <1>4
      <4> QED BY <4>1, <2>2 DEF Range
    <3> QED BY <3>1, <3>2
  <2>4. ASSUME NEW k \in DOMAIN s, s[k] # s[i] PROVE s[k] \in Range(r)
    <3>1. CASE k <= i - 1
      <4>1. k \in DOMAIN r /\ r[k] = s[k]
        BY <3>1, <2>1, <1>0, <1>4
      <4> QED BY <4>1 DEF Range
    <3>2. CASE ~(k <= i - 1)
      <4>1. k # i
        BY <2>4
      <4>2. k - 1 \in DOMAIN r /\ ~(k - 1 <= i - 1) /\ (k - 1) + 1 = k
        BY <3>2, <4>1, <2>1, <1>0
      <4>3. r[k - 1] = s[k]
        BY <4>2, <2>1, <1>4
      <4> QED BY <4>2, <4>3 DEF Range
    <3> QED BY <3>1, <3>2
  <2>5. Range(r) \subseteq Range(s) \ {s[i]}
    BY <2>3 DEF Range
  <2>6. Range(s) \ {s[i]} \subseteq Range(r)
    BY <2>4 DEF Range
  <2> QED BY <2>5, <2>6
<1> QED BY <1>4, <1>5, <1>6 DEF r

\* Another item with the same key may take the place of one.
Replaced(s, i, e) == [s EXCEPT ![i] = e]

\* An entry is replaced by one with the same key.
LEMMA ReplaceSorted ==
  ASSUME NEW X \in SUBSET Items, NEW s \in Seq(X), Ascending(s), NEW i \in DOMAIN s,
         NEW e \in X, e.key = s[i].key, NEW t, t = Replaced(s, i, e)
  PROVE  /\ t \in Seq(X) /\ Ascending(t) /\ Len(t) = Len(s)
         /\ \A y : y \in Range(t) <=> y = e \/ (y \in Range(s) /\ y.key # e.key)
<1>1. DOMAIN s = 1..Len(s) /\ Len(s) \in Nat /\ s = [j \in 1..Len(s) |-> s[j]]
  OBVIOUS
<1>2. /\ t \in Seq(X) /\ Len(t) = Len(s) /\ DOMAIN t = DOMAIN s
      /\ \A j \in DOMAIN s : t[j] = IF j = i THEN e ELSE s[j]
  BY DEF Replaced
<1>3. Ascending(t)
  BY <1>2 DEF Ascending
<1>4. \A x, y \in Range(s) : x.key = y.key => x = y
  BY AscendingOnce
<1>5. \A j \in DOMAIN s : s[j].key = e.key => j = i
  BY AscendingOnce
<1>6. /\ \A y : y \in Range(t) <=> \E j \in DOMAIN s : y = t[j]
      /\ \A y : y \in Range(s) <=> \E j \in DOMAIN s : y = s[j]
  BY <1>2 DEF Range
<1>7. \A y \in Range(t) : y = e \/ (y \in Range(s) /\ y.key # e.key)
  BY <1>2, <1>5, <1>6
<1>8. e \in Range(t)
  BY <1>2, <1>6
<1>9. ASSUME NEW y \in Range(s), y.key # e.key PROVE y \in Range(t)
  <2>1. PICK j \in DOMAIN s : y = s[j]
    BY <1>6
  <2>2. j # i
    BY <1>9, <2>1
  <2>3. t[j] = y
    BY <1>2, <2>1, <2>2
  <2> QED BY <1>6, <2>3
<1> QED BY <1>2, <1>3, <1>7, <1>8, <1>9

\* A split divides what is there and the new item where the upper half begins.
LowerHalf(all, e) ==
  LET left  == SubSeq(all, 1, Kept(all))
      right == SubSeq(all, Kept(all) + 1, Len(all))
  IN  IF e.key < right[1].key THEN Place(left, e) ELSE left
UpperHalf(all, e) ==
  LET right == SubSeq(all, Kept(all) + 1, Len(all))
  IN  IF e.key < right[1].key THEN right ELSE Place(right, e)

\* What a full node keeps and what its new half gets, with the item in the right one of them.
LEMMA Divided ==
  ASSUME NEW X \in SUBSET Items, NEW s \in Seq(X), Ascending(s), Len(s) >= 2,
         NEW e \in X, \A x \in Range(s) : x.key # e.key,
         NEW sep, sep = UpperHalf(s, e)[1].key
  PROVE  /\ LowerHalf(s, e) \in Seq(X) /\ Ascending(LowerHalf(s, e))
         /\ UpperHalf(s, e) \in Seq(X) /\ Ascending(UpperHalf(s, e))
         /\ Len(LowerHalf(s, e)) <= Len(s) /\ Len(UpperHalf(s, e)) <= Len(s)
         /\ Range(LowerHalf(s, e)) = {x \in Range(s) \cup {e} : x.key < sep}
         /\ Range(UpperHalf(s, e)) = {x \in Range(s) \cup {e} : x.key >= sep}
         /\ sep \in Nat
         /\ \E x \in Range(s) \cup {e} : x.key < sep
         /\ \E x \in Range(s) \cup {e} : x.key = sep
<1> DEFINE m == Kept(s)
           left == SubSeq(s, 1, m)
           right == SubSeq(s, m + 1, Len(s))
           z == s[m + 1].key
<1>0. Len(s) \in Nat /\ DOMAIN s = 1..Len(s) /\ e.key \in Nat
      /\ \A i \in 1..Len(s) : s[i] \in X /\ s[i].key \in Nat /\ s[i].key # e.key
  BY ItemKeys DEF Range
<1>1. m \in Nat /\ 1 <= m /\ m < Len(s) /\ Len(s) - m < Len(s)
  BY <1>0 DEF Kept
<1> HIDE DEF m
<1>2. /\ left \in Seq(X) /\ Ascending(left) /\ Len(left) = m
      /\ Range(left) = {s[i] : i \in 1..m}
  <2>1. 1 \in 1..Len(s)+1 /\ m \in 1-1..Len(s) /\ m - 1 + 1 = m
    BY <1>0, <1>1
  <2>2. /\ left \in Seq(X) /\ Ascending(left) /\ Len(left) = m - 1 + 1
        /\ Range(left) = {s[i] : i \in 1..m}
    BY <2>1, PartSorted
  <2> QED BY <2>1, <2>2
<1>3. /\ right \in Seq(X) /\ Ascending(right) /\ Len(right) = Len(s) - m
      /\ Range(right) = {s[i] : i \in m+1..Len(s)} /\ right[1] = s[m + 1]
  <2>1. m + 1 \in 1..Len(s)+1 /\ Len(s) \in (m+1)-1..Len(s) /\ Len(s) - (m + 1) + 1 = Len(s) - m
        /\ (m + 1) + 1 - 1 = m + 1 /\ 1 \in 1..Len(s)-m
    BY <1>0, <1>1
  <2>2. /\ right \in Seq(X) /\ Ascending(right) /\ Len(right) = Len(s) - (m + 1) + 1
        /\ \A i \in 1..Len(s)-(m+1)+1 : right[i] = s[(m + 1) + i - 1]
        /\ Range(right) = {s[i] : i \in m+1..Len(s)}
    BY ZenonT(40), <2>1, PartSorted
  <2>3. right[1] = s[(m + 1) + 1 - 1]
    BY <2>1, <2>2
  <2> QED BY <2>1, <2>2, <2>3
<1> HIDE DEF left, right
<1>4. \A x \in Range(left) : x \in Range(s) /\ x.key < z
  <2> SUFFICES ASSUME NEW i \in 1..m PROVE s[i] \in Range(s) /\ s[i].key < z
    BY <1>2
  <2>1. i \in DOMAIN s /\ m + 1 \in DOMAIN s /\ i < m + 1
    BY <1>0, <1>1
  <2> QED BY <2>1 DEF Ascending, Range
<1>5. \A x \in Range(right) : x \in Range(s) /\ x.key >= z
  <2> SUFFICES ASSUME NEW i \in m+1..Len(s) PROVE s[i] \in Range(s) /\ s[i].key >= z
    BY <1>3
  <2>1. i \in DOMAIN s /\ m + 1 \in DOMAIN s /\ (i = m + 1 \/ m + 1 < i)
    BY <1>0, <1>1
  <2>2. m + 1 < i => z < s[i].key
    BY <2>1 DEF Ascending
  <2> QED BY <2>1, <2>2, <1>0 DEF Range
<1>6. Range(s) = Range(left) \cup Range(right)
  <2>1. \A i \in DOMAIN s : i \in 1..m \/ i \in m+1..Len(s)
    BY <1>0, <1>1
  <2> QED BY <2>1, <1>2, <1>3, <1>4, <1>5 DEF Range
<1>7. z \in Nat /\ z # e.key /\ s[m + 1] \in Range(right) /\ s[m] \in Range(left)
  BY <1>0, <1>1, <1>2, <1>3
<1>8. LowerHalf(s, e) = IF e.key < z THEN Place(left, e) ELSE left
  BY <1>3 DEF LowerHalf, left, right, m
<1>9. UpperHalf(s, e) = IF e.key < z THEN right ELSE Place(right, e)
  BY <1>3 DEF UpperHalf, right, m
<1>10. /\ Place(left, e) \in Seq(X) /\ Ascending(Place(left, e))
       /\ Range(Place(left, e)) = Range(left) \cup {e}
       /\ Len(Place(left, e)) = m + 1
  BY <1>2, <1>4, PlaceSorted
<1>11. /\ Place(right, e) \in Seq(X) /\ Ascending(Place(right, e))
       /\ Range(Place(right, e)) = Range(right) \cup {e}
       /\ Len(Place(right, e)) = Len(s) - m + 1
  BY <1>3, <1>5, PlaceSorted
<1>12. sep = z
  <2>1. CASE e.key < z
    BY <2>1, <1>3, <1>9
  <2>2. CASE ~(e.key < z)
    <3> DEFINE p == Place(right, e)
    <3>1. sep = p[1].key /\ 1 \in DOMAIN p /\ DOMAIN p = 1..Len(p)
      BY <2>2, <1>9, <1>11, <1>0, <1>1
    <3>2. p[1] \in Range(right) \cup {e}
      BY <3>1, <1>11 DEF Range
    <3>3. PICK i \in DOMAIN p : p[i] = s[m + 1]
      BY <1>7, <1>11 DEF Range
    <3>4. p[1].key >= z
      BY <3>2, <1>5, <1>7, <1>0, <2>2
    <3>5. i = 1 \/ 1 < i
      BY <3>1, <3>3
    <3>6. 1 < i => p[1].key < p[i].key
      BY <3>1, <3>3, <1>11 DEF Ascending
    <3>7. p[1].key \in Nat
      BY <3>2, <1>11, <3>1, ItemKeys
    <3> QED BY <3>1, <3>3, <3>4, <3>5, <3>6, <3>7, <1>7
  <2> QED BY <2>1, <2>2
<1>13. \A x \in Range(s) \cup {e} : x.key \in Nat
  BY <1>0 DEF Range
<1> DEFINE L == LowerHalf(s, e)
           U == UpperHalf(s, e)
           A == Range(s) \cup {e}
<1>14. /\ L \in Seq(X) /\ Ascending(L) /\ Len(L) <= Len(s)
       /\ Range(L) = IF e.key < z THEN Range(left) \cup {e} ELSE Range(left)
  <2>1. CASE e.key < z
    <3>1. L = Place(left, e) /\ m + 1 <= Len(s)
      BY <2>1, <1>0, <1>1, <1>8
    <3> QED BY <2>1, <3>1, <1>10
  <2>2. CASE ~(e.key < z)
    <3>1. L = left /\ m <= Len(s)
      BY <2>2, <1>0, <1>1, <1>8
    <3> QED BY <2>2, <3>1, <1>2
  <2> QED BY <2>1, <2>2
<1>15. /\ U \in Seq(X) /\ Ascending(U) /\ Len(U) <= Len(s)
       /\ Range(U) = IF e.key < z THEN Range(right) ELSE Range(right) \cup {e}
  <2>1. CASE e.key < z
    <3>1. U = right /\ Len(s) - m <= Len(s)
      BY <2>1, <1>0, <1>1, <1>9
    <3> QED BY <2>1, <3>1, <1>3
  <2>2. CASE ~(e.key < z)
    <3>1. U = Place(right, e) /\ Len(s) - m + 1 <= Len(s)
      BY <2>2, <1>0, <1>1, <1>9
    <3> QED BY <2>2, <3>1, <1>11
  <2> QED BY <2>1, <2>2
<1> HIDE DEF L, U
<1>16. Range(L) = {x \in A : x.key < z} /\ Range(U) = {x \in A : x.key >= z}
  <2>1. \A x \in Range(left) : x \in A /\ x.key < z /\ ~(x.key >= z)
    BY <1>4, <1>7, <1>13
  <2>2. \A x \in Range(right) : x \in A /\ x.key >= z /\ ~(x.key < z)
    BY <1>5, <1>7, <1>13
  <2>3. e \in A /\ (e.key < z <=> ~(e.key >= z))
    BY <1>0, <1>7
  <2>4. A = Range(left) \cup Range(right) \cup {e}
    BY <1>6
  <2> HIDE DEF A
  <2> QED BY <2>1, <2>2, <2>3, <2>4, <1>14, <1>15
<1>17. s[m].key < z /\ s[m] \in A /\ s[m + 1] \in A /\ s[m + 1].key = z
  BY <1>4, <1>5, <1>7
<1> HIDE DEF A
<1>18. sep \in Nat /\ (\E x \in A : x.key < sep) /\ (\E x \in A : x.key = sep)
  BY <1>7, <1>12, <1>17
<1> QED BY <1>12, <1>14, <1>15, <1>16, <1>18 DEF L, U, A

\* A search goes down at the last entry whose key is not above.
LEMMA ChildIs ==
  ASSUME NEW X \in SUBSET Items, NEW s \in Seq(X), Ascending(s), NEW k \in Nat,
         NEW x \in Range(s), x.key <= k, \A y \in Range(s) : x.key < y.key => k < y.key
  PROVE  Child(s, k) \in DOMAIN s /\ s[Child(s, k)] = x
<1> DEFINE S == {1} \cup {n \in DOMAIN s : k >= s[n].key}
<1>1. DOMAIN s = 1..Len(s) /\ Len(s) \in Nat /\ \A i \in DOMAIN s : s[i] \in Range(s) /\ s[i].key \in Nat
  BY ItemKeys DEF Range
<1>2. PICK j \in DOMAIN s : s[j] = x
  BY DEF Range
<1>3. j \in S /\ S \in SUBSET Nat /\ \A y \in S : y <= Len(s)
  BY <1>1, <1>2
<1>4. \A i \in S : i <= j
  <2> SUFFICES ASSUME NEW i \in S, j < i PROVE FALSE
    BY <1>1, <1>2, <1>3
  <2>1. i \in DOMAIN s /\ s[i].key <= k
    BY <1>1, <1>2
  <2>2. s[j].key < s[i].key
    BY <2>1, <1>2 DEF Ascending
  <2> QED BY <2>1, <2>2, <1>1, <1>2
<1>5. Max(S) \in S /\ \A y \in S : y <= Max(S)
  <2> HIDE DEF S
  <2> QED BY <1>1, <1>3, MaxIs
<1>6. Max(S) = j
  <2> HIDE DEF S
  <2> QED BY <1>1, <1>2, <1>3, <1>4, <1>5
<1>7. Child(s, k) = j
  BY <1>6 DEF Child
<1> QED BY <1>2, <1>7

-----------------------------------------------------------------------------
(* Trees as sets: ent[b] are the entries of block b, lvl[b] its level above *)
(* the leaves, span[b] the keys that it is responsible for                  *)

\* Of the keys of an index, a child has those from its pointer's on that are
\* below the next pointer's.
Part(E, S, x) == {k \in S : x.key <= k /\ \A y \in E : x.key < y.key => k < y.key}

Levels(N, lvl, span) ==
  /\ Root \in N /\ N \subseteq Block /\ IsFiniteSet(N)
  /\ lvl \in [N -> Nat] /\ span \in [N -> SUBSET Nat] /\ span[Root] = Nat
  /\ \A b \in N : lvl[b] <= lvl[Root] /\ span[b] # {}

Apart(N, lvl, span) ==
  \A b, c \in N : \A k \in Nat : lvl[b] = lvl[c] /\ k \in span[b] /\ k \in span[c] => b = c

Filled(ent, lvl, span) ==
  \A b \in DOMAIN ent :
    /\ ent[b] \subseteq IF lvl[b] = 0 THEN Extents ELSE Pointers
    /\ \A x \in ent[b] : x.key \in span[b]
    /\ \A x, y \in ent[b] : x.key = y.key => x = y

Guides(ent, lvl, span, b) ==
  /\ \A k \in span[b] : \E x \in ent[b] : x.key <= k
  /\ \A x \in ent[b] : /\ x.to \in DOMAIN ent /\ lvl[b] = lvl[x.to] + 1
                       /\ span[x.to] = Part(ent[b], span[b], x)
Guided(ent, lvl, span) ==
  \A b \in DOMAIN ent : lvl[b] # 0 => Guides(ent, lvl, span, b)

Shape(ent, lvl, span) ==
  /\ Levels(DOMAIN ent, lvl, span) /\ Apart(DOMAIN ent, lvl, span)
  /\ Filled(ent, lvl, span) /\ Guided(ent, lvl, span)

\* Every key of an index is that of a child.
LEMMA ChildFor ==
  ASSUME NEW ent, NEW lvl, NEW span, Shape(ent, lvl, span),
         NEW b \in DOMAIN ent, lvl[b] # 0, NEW k \in span[b]
  PROVE  \E x \in ent[b] : /\ x.key <= k /\ \A y \in ent[b] : x.key < y.key => k < y.key
                           /\ x.to \in DOMAIN ent /\ lvl[b] = lvl[x.to] + 1
                           /\ k \in span[x.to]
<1> DEFINE S == {n \in Nat : n <= k /\ \E x \in ent[b] : x.key = n}
<1>1. k \in Nat /\ ent[b] \subseteq Pointers
  BY DEF Shape, Levels, Filled
<1>2. \A x \in ent[b] : x.key \in Nat
  BY <1>1 DEF Pointers
<1>3. PICK y \in ent[b] : y.key <= k
  BY DEF Shape, Guided, Guides
<1>4. S \in SUBSET Nat /\ y.key \in S /\ \A n \in S : n <= k
  BY <1>2, <1>3
<1>5. PICK n \in S : \A i \in S : i <= n
  <2> HIDE DEF S
  <2> QED BY <1>1, <1>4, GreatestNumber
<1>6. PICK x \in ent[b] : x.key = n
  BY <1>5
<1>7. x.key <= k
  BY <1>5, <1>6
<1>8. ASSUME NEW z \in ent[b], x.key < z.key PROVE k < z.key
  <2>1. z.key \notin S
    BY <1>2, <1>5, <1>6, <1>8
  <2> QED BY <2>1, <1>1, <1>2
<1>9. /\ x.to \in DOMAIN ent /\ lvl[b] = lvl[x.to] + 1
      /\ span[x.to] = Part(ent[b], span[b], x)
  BY DEF Shape, Guided, Guides
<1> QED BY <1>7, <1>8, <1>9 DEF Part

\* A block has one pointer to it, and the root has none.
LEMMA OneParent ==
  ASSUME NEW ent, NEW lvl, NEW span, Shape(ent, lvl, span),
         NEW a \in DOMAIN ent, lvl[a] # 0, NEW x \in ent[a]
  PROVE  /\ x.to # Root
         /\ \A c \in DOMAIN ent : \A y \in ent[c] :
              lvl[c] # 0 /\ y.to = x.to => c = a /\ y = x
<1>1. /\ x.to \in DOMAIN ent /\ lvl[a] = lvl[x.to] + 1
      /\ span[x.to] = Part(ent[a], span[a], x)
  BY DEF Shape, Guided, Guides
<1>2. lvl \in [DOMAIN ent -> Nat] /\ lvl[a] <= lvl[Root] /\ Root \in DOMAIN ent
      /\ span \in [DOMAIN ent -> SUBSET Nat]
  BY DEF Shape, Levels
<1>3. x.to # Root
  BY <1>1, <1>2
<1>4. ASSUME NEW c \in DOMAIN ent, NEW y \in ent[c], lvl[c] # 0, y.to = x.to
      PROVE  c = a /\ y = x
  <2>1. /\ lvl[c] = lvl[x.to] + 1 /\ span[x.to] = Part(ent[c], span[c], y)
    BY <1>4 DEF Shape, Guided, Guides
  <2>2. PICK k : k \in span[x.to]
    BY <1>1 DEF Shape, Levels
  <2>3. k \in span[a] /\ k \in span[c] /\ k \in Nat /\ lvl[a] = lvl[c]
    BY <1>1, <1>2, <2>1, <2>2 DEF Part
  <2>4. c = a
    BY <2>3 DEF Shape, Apart
  <2>5. x.key \in Nat /\ y.key \in Nat
    BY <2>4, <1>4 DEF Shape, Filled, Pointers
  <2>6. ~(x.key < y.key) /\ ~(y.key < x.key)
    BY <1>1, <2>1, <2>2, <2>3, <2>4, <2>5 DEF Part
  <2>7. x.key = y.key
    BY <2>5, <2>6
  <2> QED BY <2>4, <2>7 DEF Shape, Filled
<1> QED BY <1>3, <1>4

\* What is in a leaf may change, as long as it is the leaf's.
LEMMA LeafShape ==
  ASSUME NEW ent, NEW lvl, NEW span, Shape(ent, lvl, span),
         NEW b \in DOMAIN ent, lvl[b] = 0, NEW E \in SUBSET Extents,
         \A x \in E : x.key \in span[b], \A x, y \in E : x.key = y.key => x = y
  PROVE  Shape([ent EXCEPT ![b] = E], lvl, span)
<1> DEFINE new == [ent EXCEPT ![b] = E]
<1>1. DOMAIN new = DOMAIN ent /\ new[b] = E /\ \A c \in DOMAIN ent : c # b => new[c] = ent[c]
  BY Zenon
<1> HIDE DEF new
<1>2. Levels(DOMAIN new, lvl, span) /\ Apart(DOMAIN new, lvl, span)
  BY <1>1 DEF Shape
<1>3. Filled(new, lvl, span)
  BY <1>1 DEF Shape, Filled
<1>4. Guided(new, lvl, span)
  BY <1>1 DEF Shape, Guided, Guides
<1> QED BY <1>2, <1>3, <1>4 DEF Shape, new

\* The root moves to another block and a new root points to it.
GrownSets(ent, moved) ==
  [c \in DOMAIN ent \cup {moved} |->
     IF c = Root THEN {Pointer(0, moved)} ELSE IF c = moved THEN ent[Root] ELSE ent[c]]
GrownLevels(ent, lvl, moved) ==
  [c \in DOMAIN ent \cup {moved} |->
     IF c = Root THEN lvl[Root] + 1 ELSE IF c = moved THEN lvl[Root] ELSE lvl[c]]
GrownSpans(ent, span, moved) ==
  [c \in DOMAIN ent \cup {moved} |-> IF c = moved THEN Nat ELSE span[c]]

\* The tree with the new root has the shape of a tree.
LEMMA GrowShape ==
  ASSUME NEW ent, NEW lvl, NEW span, Shape(ent, lvl, span),
         NEW moved \in AdminBlocks \ DOMAIN ent,
         NEW new, new = GrownSets(ent, moved),
         NEW lvl2, lvl2 = GrownLevels(ent, lvl, moved), NEW span2, span2 = GrownSpans(ent, span, moved)
  PROVE  Shape(new, lvl2, span2)
<1> DEFINE N == DOMAIN ent
           M == N \cup {moved}
           p == Pointer(0, moved)
<1>0. /\ Root \in N /\ N \subseteq Block /\ IsFiniteSet(N) /\ moved \notin N /\ moved # Root
      /\ lvl \in [N -> Nat] /\ span \in [N -> SUBSET Nat] /\ span[Root] = Nat
      /\ \A c \in N : lvl[c] <= lvl[Root] /\ span[c] # {}
  BY DEF Shape, Levels
<1>1. /\ DOMAIN new = M /\ new[Root] = {p} /\ new[moved] = ent[Root]
      /\ \A c \in N : c # Root => new[c] = ent[c]
  BY <1>0 DEF GrownSets
<1>2. /\ lvl2 \in [M -> Nat] /\ lvl2[Root] = lvl[Root] + 1 /\ lvl2[moved] = lvl[Root]
      /\ \A c \in N : c # Root => lvl2[c] = lvl[c]
  BY <1>0 DEF GrownLevels
<1>3. /\ span2 \in [M -> SUBSET Nat] /\ span2[Root] = Nat /\ span2[moved] = Nat
      /\ \A c \in N : span2[c] = span[c]
  BY <1>0 DEF GrownSpans
<1>4. p \in Pointers /\ p.key = 0 /\ p.to = moved
  BY DEF Pointers, Pointer, Block
<1> HIDE DEF p
<1>5. Levels(M, lvl2, span2)
  <2>1. IsFiniteSet(M)
    BY <1>0, FS_AddElement
  <2>2. M \subseteq Block /\ Root \in M
    BY <1>0 DEF Block
  <2>3. ASSUME NEW c \in M PROVE lvl2[c] <= lvl2[Root] /\ span2[c] # {}
    <3>1. c = Root \/ c = moved \/ (c \in N /\ c # Root)
      OBVIOUS
    <3>2. lvl[Root] \in Nat /\ (c \in N => lvl[c] \in Nat)
      BY <1>0
    <3> QED BY <3>1, <3>2, <1>0, <1>2, <1>3
  <2> QED BY <2>1, <2>2, <2>3, <1>2, <1>3 DEF Levels
<1>6. \A c \in N : \A k \in Nat : k \in span[c] /\ lvl[c] = lvl[Root] => c = Root
  BY <1>0 DEF Shape, Apart
<1>7. Apart(M, lvl2, span2)
  <2> SUFFICES ASSUME NEW b \in M, NEW c \in M, NEW k \in Nat,
                      lvl2[b] = lvl2[c], k \in span2[b], k \in span2[c]
               PROVE  b = c
    BY DEF Apart
  <2>1. \A d \in N : d # Root => lvl[d] # lvl[Root] + 1 /\ lvl[d] # lvl[Root]
    <3> TAKE d \in N
    <3> HAVE d # Root
    <3>1. PICK n : n \in span[d]
      BY <1>0
    <3>2. lvl[d] # lvl[Root]
      BY <3>1, <1>0, <1>6
    <3> QED BY <3>2, <1>0
  <2>2. lvl[Root] \in Nat /\ lvl[Root] # lvl[Root] + 1
    BY <1>0
  <2>3. CASE b \in N \ {Root} /\ c \in N \ {Root}
    BY <2>3, <1>2, <1>3 DEF Shape, Apart
  <2>4. CASE b \in {Root, moved} \/ c \in {Root, moved}
    BY <2>1, <2>2, <2>4, <1>0, <1>2
  <2> QED BY <2>3, <2>4
<1>8. Filled(new, lvl2, span2)
  <2> SUFFICES ASSUME NEW b \in M
               PROVE  /\ new[b] \subseteq IF lvl2[b] = 0 THEN Extents ELSE Pointers
                      /\ \A x \in new[b] : x.key \in span2[b]
                      /\ \A x, y \in new[b] : x.key = y.key => x = y
    BY <1>1 DEF Filled
  <2>1. CASE b = Root
    <3>1. lvl2[b] # 0
      BY <2>1, <1>0, <1>2
    <3> QED BY <2>1, <3>1, <1>1, <1>3, <1>4
  <2>2. CASE b = moved
    <3>1. new[b] = ent[Root] /\ lvl2[b] = lvl[Root] /\ span2[b] = span[Root] /\ Root \in N
      BY <2>2, <1>0, <1>1, <1>2, <1>3
    <3> QED BY <3>1 DEF Shape, Filled
  <2>3. CASE b \in N \ {Root}
    <3>1. new[b] = ent[b] /\ lvl2[b] = lvl[b] /\ span2[b] = span[b]
      BY <2>3, <1>1, <1>2, <1>3
    <3> QED BY <2>3, <3>1 DEF Shape, Filled
  <2> QED BY <2>1, <2>2, <2>3
<1>9. Guided(new, lvl2, span2)
  <2> SUFFICES ASSUME NEW b \in M, lvl2[b] # 0
               PROVE  Guides(new, lvl2, span2, b)
    BY <1>1 DEF Guided
  <2>1. CASE b = Root
    <3>1. Part({p}, Nat, p) = Nat
      BY <1>4 DEF Part
    <3>2. new[b] = {p} /\ span2[b] = Nat /\ lvl2[b] = lvl[Root] + 1
      BY <2>1, <1>1, <1>2, <1>3
    <3>3. p.to \in M /\ lvl2[p.to] = lvl[Root] /\ span2[p.to] = Nat
      BY <1>2, <1>3, <1>4
    <3>4. \A k \in Nat : p.key <= k
      BY <1>4
    <3> QED BY <3>1, <3>2, <3>3, <3>4, <1>1 DEF Guides
  <2>2. ASSUME NEW d \in N, new[b] = ent[d], lvl2[b] = lvl[d], span2[b] = span[d]
        PROVE  Guides(new, lvl2, span2, b)
    <3>1. \A k \in span[d] : \E x \in ent[d] : x.key <= k
      BY <2>2 DEF Shape, Guided, Guides
    <3>2. ASSUME NEW x \in ent[d]
          PROVE  x.to \in M /\ lvl[d] = lvl2[x.to] + 1 /\ span2[x.to] = Part(ent[d], span[d], x)
      <4>1. /\ x.to \in N /\ lvl[d] = lvl[x.to] + 1
            /\ span[x.to] = Part(ent[d], span[d], x)
        BY <2>2 DEF Shape, Guided, Guides
      <4>2. x.to # Root
        BY <2>2, OneParent
      <4> QED BY <4>1, <4>2, <1>2, <1>3
    <3> QED BY <2>2, <3>1, <3>2, <1>1 DEF Guides
  <2>3. CASE b = moved
    BY <2>2, <2>3, <1>0, <1>1, <1>2, <1>3
  <2>4. CASE b \in N \ {Root}
    BY <2>2, <2>4, <1>1, <1>2, <1>3
  <2> QED BY <2>1, <2>3, <2>4
<1> QED BY <1>1, <1>5, <1>7, <1>8, <1>9 DEF Shape

\* F and T are what E and S have from the key sep on, below the key sep.
From(E, S, sep, F, T) ==
  /\ \A y \in E : y.key \in Nat
  /\ S \in SUBSET Nat /\ sep \in Nat
  /\ \A y : y \in F <=> y \in E /\ y.key >= sep
  /\ \A k : k \in T <=> k \in S /\ k >= sep
UpTo(E, S, sep, F, T) ==
  /\ \A y \in E : y.key \in Nat
  /\ S \in SUBSET Nat /\ sep \in Nat /\ \E y \in E : y.key = sep
  /\ \A y : y \in F <=> y \in E /\ y.key < sep
  /\ \A k : k \in T <=> k \in S /\ k < sep

\* The children above a key do not depend on what is below it.
LEMMA PartAbove ==
  ASSUME NEW E, NEW S, NEW sep, NEW F, NEW T, From(E, S, sep, F, T), NEW x \in F
  PROVE  Part(E, S, x) = Part(F, T, x)
<1>1. ASSUME NEW k \in S
      PROVE  k \in Part(E, S, x) <=> k \in Part(F, T, x)
  <2>0. x.key \in Nat /\ x.key >= sep /\ k \in Nat /\ sep \in Nat
    BY DEF From
  <2>1. \A y \in E : x.key < y.key => y \in F
    BY <2>0 DEF From
  <2>2. x.key <= k => k \in T
    BY <2>0 DEF From
  <2> QED BY <2>1, <2>2 DEF Part, From
<1>2. Part(E, S, x) \subseteq S /\ Part(F, T, x) \subseteq S
  BY DEF Part, From
<1> QED BY <1>1, <1>2

\* Nor do the children below a key on what is above it.
LEMMA PartBelow ==
  ASSUME NEW E, NEW S, NEW sep, NEW F, NEW T, UpTo(E, S, sep, F, T), NEW x \in F
  PROVE  Part(E, S, x) = Part(F, T, x)
<1>1. ASSUME NEW k \in S
      PROVE  k \in Part(E, S, x) <=> k \in Part(F, T, x)
  <2>0. x.key \in Nat /\ x.key < sep /\ k \in Nat /\ sep \in Nat
    BY DEF UpTo
  <2>1. k \in Part(E, S, x) => k < sep
    BY <2>0 DEF Part, UpTo
  <2>2. k \in Part(F, T, x)
          <=> k < sep /\ x.key <= k /\ \A y \in E : y.key < sep /\ x.key < y.key => k < y.key
    BY DEF Part, UpTo
  <2>3. ASSUME k < sep, NEW y \in E, ~(y.key < sep) PROVE k < y.key
    BY <2>0, <2>3 DEF UpTo
  <2>4. k \in Part(E, S, x) <=> x.key <= k /\ \A y \in E : x.key < y.key => k < y.key
    BY DEF Part
  <2> QED BY <2>1, <2>2, <2>3, <2>4
<1>2. Part(E, S, x) \subseteq S /\ Part(F, T, x) \subseteq S
  BY DEF Part, UpTo
<1> QED BY <1>1, <1>2

\* A block is divided at the key of one of its entries, and its parent gets a
\* pointer to the new half.
SplitSets(ent, a, b, sep, half) ==
  [c \in DOMAIN ent \cup {half} |->
     IF c = half THEN {x \in ent[b] : x.key >= sep}
     ELSE IF c = b THEN {x \in ent[b] : x.key < sep}
     ELSE IF c = a THEN ent[a] \cup {Pointer(sep, half)} ELSE ent[c]]
SplitLevels(ent, lvl, b, half) ==
  [c \in DOMAIN ent \cup {half} |-> IF c = half THEN lvl[b] ELSE lvl[c]]
SplitSpans(ent, span, b, sep, half) ==
  [c \in DOMAIN ent \cup {half} |->
     IF c = half THEN {k \in span[b] : k >= sep}
     ELSE IF c = b THEN {k \in span[b] : k < sep} ELSE span[c]]

\* So has the tree with a block split under its parent.
LEMMA SplitShape ==
  ASSUME NEW ent, NEW lvl, NEW span, Shape(ent, lvl, span),
         NEW a \in DOMAIN ent, lvl[a] # 0, NEW p \in ent[a],
         NEW b, b = p.to, NEW half \in AdminBlocks \ DOMAIN ent,
         NEW sep \in Nat, NEW low \in ent[b], low.key < sep, NEW high \in ent[b], high.key = sep,
         NEW new, new = SplitSets(ent, a, b, sep, half),
         NEW lvl2, lvl2 = SplitLevels(ent, lvl, b, half), NEW span2, span2 = SplitSpans(ent, span, b, sep, half)
  PROVE  /\ Shape(new, lvl2, span2)
         /\ a # b /\ sep \in span[a] /\ \A x \in ent[a] : x.key # sep
<1> DEFINE N == DOMAIN ent
           M == N \cup {half}
           q == Pointer(sep, half)
<1>0. /\ Root \in N /\ N \subseteq Block /\ IsFiniteSet(N) /\ half \notin N /\ half # Root
      /\ lvl \in [N -> Nat] /\ span \in [N -> SUBSET Nat] /\ span[Root] = Nat
      /\ \A c \in N : lvl[c] <= lvl[Root] /\ span[c] # {}
  BY DEF Shape, Levels
<1>1. /\ b \in N /\ lvl[a] = lvl[b] + 1 /\ span[b] = Part(ent[a], span[a], p)
      /\ b # Root /\ a # b
      /\ \A c \in N : \A y \in ent[c] : lvl[c] # 0 /\ y.to = b => c = a /\ y = p
  <2>1. b \in N /\ lvl[a] = lvl[b] + 1 /\ span[b] = Part(ent[a], span[a], p)
    BY DEF Shape, Guided, Guides
  <2>2. b # Root /\ \A c \in N : \A y \in ent[c] : lvl[c] # 0 /\ y.to = b => c = a /\ y = p
    BY OneParent
  <2>3. a # b
    BY <2>1, <1>0
  <2> QED BY <2>1, <2>2, <2>3
<1>2. /\ DOMAIN new = M /\ new[half] = {x \in ent[b] : x.key >= sep}
      /\ new[b] = {x \in ent[b] : x.key < sep} /\ new[a] = ent[a] \cup {q}
      /\ \A c \in N : c # a /\ c # b => new[c] = ent[c]
  BY <1>0, <1>1 DEF SplitSets
<1>3. lvl2 \in [M -> Nat] /\ lvl2[half] = lvl[b] /\ \A c \in N : lvl2[c] = lvl[c]
  BY <1>0, <1>1 DEF SplitLevels
<1>4. /\ span2 \in [M -> SUBSET Nat] /\ span2[half] = {k \in span[b] : k >= sep}
      /\ span2[b] = {k \in span[b] : k < sep} /\ \A c \in N : c # b => span2[c] = span[c]
  <2>1. span[b] \in SUBSET Nat
    BY <1>0, <1>1
  <2> QED BY <2>1, <1>0, <1>1 DEF SplitSpans
<1>5. /\ \A c \in N : ent[c] \subseteq IF lvl[c] = 0 THEN Extents ELSE Pointers
      /\ \A c \in N : \A x \in ent[c] : x.key \in span[c] /\ x.key \in Nat
      /\ \A c \in N : \A x, y \in ent[c] : x.key = y.key => x = y
  <2>1. Filled(ent, lvl, span)
    BY DEF Shape
  <2> QED BY <2>1, <1>0 DEF Filled
<1>6. /\ low.key \in span[b] /\ low.key \in Nat /\ sep \in span[b] /\ sep \in span[a]
      /\ low.key \in span[a] /\ p.key <= low.key /\ p.key < sep /\ p.key \in Nat
      /\ \A y \in ent[a] : p.key < y.key => sep < y.key /\ low.key < y.key
  <2>1. low.key \in span[b] /\ low.key \in Nat /\ sep \in span[b] /\ p.key \in Nat
    BY <1>1, <1>5
  <2> QED BY <2>1, <1>1 DEF Part
<1>7. \A x \in ent[a] : x.key # sep
  <2> SUFFICES ASSUME NEW x \in ent[a], x.key = sep PROVE FALSE
    OBVIOUS
  <2>1. x.key \in Nat /\ (p.key < x.key => sep < x.key)
    BY <1>5, <1>6
  <2> QED BY <2>1, <1>6
<1>8. q \in Pointers /\ q.key = sep /\ q.to = half
  BY DEF Pointers, Pointer, Block
<1> HIDE DEF q
<1>9. Levels(M, lvl2, span2)
  <2>1. IsFiniteSet(M)
    BY <1>0, FS_AddElement
  <2>2. M \subseteq Block /\ Root \in M
    BY <1>0 DEF Block
  <2>3. ASSUME NEW c \in M PROVE lvl2[c] <= lvl2[Root] /\ span2[c] # {}
    <3>1. CASE c = half
      BY <3>1, <1>0, <1>1, <1>3, <1>4, <1>6
    <3>2. CASE c = b
      BY <3>2, <1>0, <1>1, <1>3, <1>4, <1>6
    <3>3. CASE c \in N \ {b}
      BY <3>3, <1>0, <1>3, <1>4
    <3> QED BY <3>1, <3>2, <3>3
  <2> QED BY <2>1, <2>2, <2>3, <1>0, <1>1, <1>3, <1>4 DEF Levels
<1>10. Apart(M, lvl2, span2)
  <2> SUFFICES ASSUME NEW c \in M, NEW d \in M, NEW k \in Nat,
                      lvl2[c] = lvl2[d], k \in span2[c], k \in span2[d]
               PROVE  c = d
    BY DEF Apart
  <2> DEFINE old(x) == IF x = half THEN b ELSE x
  <2>1. \A x \in M : old(x) \in N /\ lvl2[x] = lvl[old(x)] /\ (k \in span2[x] => k \in span[old(x)])
    BY <1>0, <1>1, <1>3, <1>4
  <2>2. old(c) = old(d)
    <3>1. /\ old(c) \in N /\ old(d) \in N /\ lvl[old(c)] = lvl[old(d)]
          /\ k \in span[old(c)] /\ k \in span[old(d)]
      BY <2>1
    <3> HIDE DEF old
    <3> QED BY <3>1 DEF Shape, Apart
  <2>3. ~(k >= sep /\ k < sep)
    OBVIOUS
  <2> QED BY <2>2, <2>3, <1>0, <1>1, <1>4
<1>11. Filled(new, lvl2, span2)
  <2> SUFFICES ASSUME NEW c \in M
               PROVE  /\ new[c] \subseteq IF lvl2[c] = 0 THEN Extents ELSE Pointers
                      /\ \A x \in new[c] : x.key \in span2[c]
                      /\ \A x, y \in new[c] : x.key = y.key => x = y
    BY <1>2 DEF Filled
  <2>1. CASE c = half \/ c = b
    <3>1. new[c] \subseteq ent[b] /\ lvl2[c] = lvl[b] /\ b \in N
      BY <2>1, <1>1, <1>2, <1>3
    <3>2. \A x \in new[c] : x.key \in span2[c]
      <4>1. \A x \in ent[b] : x.key \in span[b]
        BY <1>1, <1>5
      <4> QED BY <4>1, <2>1, <1>2, <1>4
    <3>3. /\ ent[b] \subseteq IF lvl[b] = 0 THEN Extents ELSE Pointers
          /\ \A x, y \in ent[b] : x.key = y.key => x = y
      BY <3>1, <1>5
    <3> QED BY <3>1, <3>2, <3>3
  <2>2. CASE c = a
    <3>1. lvl2[c] # 0 /\ span2[c] = span[a] /\ new[c] = ent[a] \cup {q} /\ ent[a] \subseteq Pointers
      BY <2>2, <1>1, <1>2, <1>3, <1>4, <1>5
    <3> QED BY <3>1, <1>5, <1>6, <1>7, <1>8
  <2>3. CASE c \in N \ {a, b}
    <3>1. new[c] = ent[c] /\ lvl2[c] = lvl[c] /\ span2[c] = span[c]
      BY <2>3, <1>2, <1>3, <1>4
    <3> QED BY <2>3, <3>1, <1>5
  <2> QED BY <2>1, <2>2, <2>3
<1>12. \A c \in N : lvl[c] # 0 =>
         /\ \A k \in span[c] : \E x \in ent[c] : x.key <= k
         /\ \A x \in ent[c] : /\ x.to \in N /\ lvl[c] = lvl[x.to] + 1
                              /\ span[x.to] = Part(ent[c], span[c], x)
  BY DEF Shape, Guided, Guides
<1>13. Guided(new, lvl2, span2)
  <2> SUFFICES ASSUME NEW c \in M, lvl2[c] # 0
               PROVE  Guides(new, lvl2, span2, c)
    BY <1>2 DEF Guided
  <2>1. CASE c = half \/ c = b
    <3>1. /\ b \in N /\ lvl[b] # 0 /\ lvl2[c] = lvl[b]
      BY <2>1, <1>1, <1>3
    <3>2. ASSUME NEW k \in span2[c] PROVE \E x \in new[c] : x.key <= k
      <4>1. k \in span[b] /\ k \in Nat
        BY <2>1, <1>0, <1>1, <1>4
      <4>2. CASE c = half
        BY <4>2, <1>2, <1>4, <4>1, <3>2
      <4>3. CASE c = b
        <5>1. PICK x \in ent[b] : x.key <= k
          BY <3>1, <4>1, <1>12
        <5>2. k < sep /\ x.key \in Nat
          BY <4>3, <3>2, <1>1, <1>4, <1>5
        <5>3. x \in new[c]
          BY <4>3, <4>1, <5>1, <5>2, <1>2
        <5> QED BY <5>1, <5>3
      <4> QED BY <2>1, <4>2, <4>3
    <3>3. ASSUME NEW x \in new[c]
          PROVE  x.to \in M /\ lvl2[c] = lvl2[x.to] + 1 /\ span2[x.to] = Part(new[c], span2[c], x)
      <4>1. x \in ent[b] /\ x.key \in Nat
        BY <2>1, <1>1, <1>2, <1>5
      <4>2. x.to \in N /\ lvl[b] = lvl[x.to] + 1 /\ span[x.to] = Part(ent[b], span[b], x)
        BY <3>1, <4>1, <1>12
      <4>3. x.to # b
        BY <3>1, <4>1, <1>1
      <4>4. span2[x.to] = span[x.to] /\ lvl2[x.to] = lvl[x.to]
        BY <4>2, <4>3, <1>3, <1>4
      <4>5. \A y \in ent[b] : y.key \in Nat
        BY <1>1, <1>5
      <4>6. CASE c = half
        <5>2. Part(ent[b], span[b], x) = Part(new[c], span2[c], x)
          <6>1. From(ent[b], span[b], sep, new[c], span2[c])
            BY <4>6, <4>5, <1>0, <1>1, <1>2, <1>4 DEF From
          <6> QED BY <6>1, PartAbove
        <5> QED BY <3>1, <4>2, <4>4, <5>2
      <4>7. CASE c = b
        <5>2. Part(ent[b], span[b], x) = Part(new[c], span2[c], x)
          <6>1. UpTo(ent[b], span[b], sep, new[c], span2[c])
            BY <4>7, <4>5, <1>0, <1>1, <1>2, <1>4 DEF UpTo
          <6> QED BY <6>1, PartBelow
        <5> QED BY <3>1, <4>2, <4>4, <5>2
      <4> QED BY <2>1, <4>6, <4>7
    <3> QED BY <3>2, <3>3, <1>2 DEF Guides
  <2>2. CASE c = a
    <3>1. new[c] = ent[a] \cup {q} /\ lvl2[c] = lvl[a] /\ span2[c] = span[a] /\ span[a] \in SUBSET Nat
      BY <2>2, <1>0, <1>1, <1>2, <1>3, <1>4
    <3>2. \A k \in span2[c] : \E x \in new[c] : x.key <= k
      BY <3>1, <1>12
    <3>3. \A y \in ent[a] : y.key \in Nat /\ (p.key < y.key => sep < y.key)
      BY <1>5, <1>6
    <3>4. Part(ent[a] \cup {q}, span[a], q) = {k \in span[b] : k >= sep}
      <4>1. ASSUME NEW k \in span[a]
            PROVE  k \in Part(ent[a] \cup {q}, span[a], q) <=> k \in span[b] /\ k >= sep
        <5>1. k \in Nat
          BY <3>1
        <5>2. k \in Part(ent[a] \cup {q}, span[a], q) <=>
                sep <= k /\ \A y \in ent[a] : sep < y.key => k < y.key
          BY <5>1, <1>8 DEF Part
        <5>3. k \in span[b] <=> p.key <= k /\ \A y \in ent[a] : p.key < y.key => k < y.key
          BY <1>1 DEF Part
        <5>4. \A y \in ent[a] : sep < y.key <=> p.key < y.key
          BY <3>3, <1>6
        <5> QED BY <5>1, <5>2, <5>3, <5>4, <1>6
      <4>2. span[b] \subseteq span[a]
        BY <1>1 DEF Part
      <4>3. Part(ent[a] \cup {q}, span[a], q) \subseteq span[a]
        BY DEF Part
      <4> QED BY <4>1, <4>2, <4>3
    <3>5. Part(ent[a] \cup {q}, span[a], p) = {k \in span[b] : k < sep}
      BY <3>1, <3>3, <1>1, <1>6, <1>8 DEF Part
    <3>6. ASSUME NEW y \in ent[a], y # p
          PROVE  Part(ent[a] \cup {q}, span[a], y) = Part(ent[a], span[a], y)
      <4>1. y.key # p.key
        BY <3>6, <1>5
      <4>2. ASSUME NEW k \in Part(ent[a], span[a], y), y.key < sep PROVE k < sep
        <5>1. y.key < p.key
          BY <4>1, <4>2, <3>3, <1>6
        <5>2. k < p.key /\ k \in Nat
          BY <5>1, <3>1 DEF Part
        <5> QED BY <5>2, <1>6
      <4> QED BY <4>2, <1>8 DEF Part
    <3>7. ASSUME NEW x \in new[c]
          PROVE  x.to \in M /\ lvl2[c] = lvl2[x.to] + 1 /\ span2[x.to] = Part(new[c], span2[c], x)
      <4>1. CASE x = q
        BY <4>1, <3>1, <3>4, <1>1, <1>3, <1>4, <1>8
      <4>2. CASE x = p
        BY <4>2, <3>1, <3>5, <1>1, <1>3, <1>4
      <4>3. CASE x \in ent[a] /\ x # p
        <5>0. Part(new[c], span2[c], x) = Part(ent[a], span[a], x)
          BY <4>3, <3>1, <3>6
        <5>1. x.to \in N /\ lvl[a] = lvl[x.to] + 1 /\ span[x.to] = Part(ent[a], span[a], x)
          BY <4>3, <1>12
        <5>2. x.to # b
          BY <4>3, <1>1
        <5> QED BY <5>0, <5>1, <5>2, <3>1, <1>3, <1>4
      <4> QED BY <4>1, <4>2, <4>3, <3>1
    <3>8. DOMAIN new = M
      BY <1>2
    <3> HIDE DEF M
    <3> QED BY <3>2, <3>7, <3>8 DEF Guides
  <2>3. CASE c \in N \ {a, b}
    <3>1. new[c] = ent[c] /\ lvl2[c] = lvl[c] /\ span2[c] = span[c] /\ lvl[c] # 0
      BY <2>3, <1>2, <1>3, <1>4
    <3>2. \A k \in span2[c] : \E x \in new[c] : x.key <= k
      BY <2>3, <3>1, <1>12
    <3>3. ASSUME NEW x \in new[c]
          PROVE  x.to \in M /\ lvl2[c] = lvl2[x.to] + 1 /\ span2[x.to] = Part(new[c], span2[c], x)
      <4>1. x.to \in N /\ lvl[c] = lvl[x.to] + 1 /\ span[x.to] = Part(ent[c], span[c], x)
        BY <2>3, <3>1, <1>12
      <4>2. x.to # b
        BY <2>3, <3>1, <1>1
      <4> QED BY <4>1, <4>2, <3>1, <1>3, <1>4
    <3>4. DOMAIN new = M
      BY <1>2
    <3> HIDE DEF M
    <3> QED BY <3>2, <3>3, <3>4 DEF Guides
  <2> QED BY <2>1, <2>2, <2>3
<1> QED BY <1>1, <1>2, <1>6, <1>7, <1>9, <1>10, <1>11, <1>13 DEF Shape

\* A leaf that is not the first of its parent is taken out: the child before it
\* becomes responsible for its keys.
PrunedSets(ent, a, b, p) == [c \in DOMAIN ent \ {b} |-> IF c = a THEN ent[a] \ {p} ELSE ent[c]]
PrunedLevels(ent, lvl, b) == [c \in DOMAIN ent \ {b} |-> lvl[c]]

\* And the tree without that leaf.
LEMMA PruneShape ==
  ASSUME NEW ent, NEW lvl, NEW span, Shape(ent, lvl, span),
         NEW a \in DOMAIN ent, lvl[a] # 0, NEW p \in ent[a],
         NEW b, b = p.to, lvl[b] = 0, NEW q \in ent[a], q.key < p.key,
         NEW new, new = PrunedSets(ent, a, b, p),
         NEW lvl2, lvl2 = PrunedLevels(ent, lvl, b)
  PROVE  \E span2 : Shape(new, lvl2, span2)
<1> DEFINE N == DOMAIN ent
           M == N \ {b}
           R == ent[a] \ {p}
<1>0. /\ Root \in N /\ N \subseteq Block /\ IsFiniteSet(N)
      /\ lvl \in [N -> Nat] /\ span \in [N -> SUBSET Nat] /\ span[Root] = Nat
      /\ \A c \in N : lvl[c] <= lvl[Root] /\ span[c] # {}
  BY DEF Shape, Levels
<1>1. /\ b \in N /\ lvl[a] = lvl[b] + 1 /\ span[b] = Part(ent[a], span[a], p)
      /\ b # Root /\ a # b
      /\ \A c \in N : \A y \in ent[c] : lvl[c] # 0 /\ y.to = b => c = a /\ y = p
  <2>1. b \in N /\ lvl[a] = lvl[b] + 1 /\ span[b] = Part(ent[a], span[a], p)
    BY DEF Shape, Guided, Guides
  <2>2. b # Root /\ \A c \in N : \A y \in ent[c] : lvl[c] # 0 /\ y.to = b => c = a /\ y = p
    BY OneParent
  <2>3. a # b
    BY <2>1, <1>0
  <2> QED BY <2>1, <2>2, <2>3
<1>2. /\ \A c \in N : ent[c] \subseteq IF lvl[c] = 0 THEN Extents ELSE Pointers
      /\ \A c \in N : \A x \in ent[c] : x.key \in span[c] /\ x.key \in Nat
      /\ \A c \in N : \A x, y \in ent[c] : x.key = y.key => x = y
  <2>1. Filled(ent, lvl, span)
    BY DEF Shape
  <2> QED BY <2>1, <1>0 DEF Filled
<1>3. \A c \in N : lvl[c] # 0 =>
         /\ \A k \in span[c] : \E x \in ent[c] : x.key <= k
         /\ \A x \in ent[c] : /\ x.to \in N /\ lvl[c] = lvl[x.to] + 1
                              /\ span[x.to] = Part(ent[c], span[c], x)
  BY DEF Shape, Guided, Guides
<1>4. \E z \in ent[a] : z.key < p.key /\ \A y \in ent[a] : y.key < p.key => y.key <= z.key
  <2> DEFINE S == {n \in Nat : n < p.key /\ \E x \in ent[a] : x.key = n}
  <2>1. S \in SUBSET Nat /\ q.key \in S /\ p.key \in Nat /\ \A n \in S : n <= p.key
    BY <1>2
  <2>2. PICK n \in S : \A i \in S : i <= n
    <3> HIDE DEF S
    <3> QED BY <2>1, GreatestNumber
  <2>3. PICK z \in ent[a] : z.key = n
    BY <2>2
  <2> QED BY <2>2, <2>3, <1>2
<1>5. PICK z \in ent[a] : z.key < p.key /\ \A y \in ent[a] : y.key < p.key => y.key <= z.key
  BY <1>4
<1> DEFINE span2 == [c \in M |-> IF c = z.to THEN span[c] \cup span[b] ELSE span[c]]
<1>6. /\ z # p /\ z.to \in M /\ lvl[a] = lvl[z.to] + 1 /\ lvl[z.to] = 0
      /\ span[z.to] = Part(ent[a], span[a], z)
  <2>1. z # p
    BY <1>2, <1>5
  <2>2. z.to \in N /\ lvl[a] = lvl[z.to] + 1 /\ span[z.to] = Part(ent[a], span[a], z) /\ z.to # b
    BY <2>1, <1>1, <1>3, <1>5
  <2>3. lvl[z.to] = 0
    BY <2>2, <1>0, <1>1
  <2> QED BY <2>1, <2>2, <2>3
<1>7. /\ DOMAIN new = M /\ new[a] = R /\ \A c \in M : c # a => new[c] = ent[c]
      /\ DOMAIN lvl2 = M /\ \A c \in M : lvl2[c] = lvl[c] /\ lvl[c] \in Nat
  BY <1>0, <1>1 DEF PrunedSets, PrunedLevels
<1>8. /\ span2 \in [M -> SUBSET Nat] /\ span2[z.to] = span[z.to] \cup span[b]
      /\ \A c \in M : c # z.to => span2[c] = span[c]
      /\ \A c \in M : span[c] \subseteq span2[c] /\ (lvl[c] # 0 => span2[c] = span[c])
  BY <1>0, <1>1, <1>6
<1> HIDE DEF span2
<1>9. Levels(M, lvl2, span2)
  <2>1. IsFiniteSet(M)
    BY <1>0, FS_RemoveElement
  <2>2. Root \in M /\ M \subseteq Block /\ M \subseteq N
    BY <1>0, <1>1
  <2>3. lvl2 \in [M -> Nat]
    <3>1. lvl2 = [c \in M |-> lvl2[c]]
      BY DEF PrunedLevels
    <3> QED BY <3>1, <1>7
  <2>4. span2[Root] = Nat
    <3>1. span2[Root] \in SUBSET Nat /\ span[Root] \subseteq span2[Root]
      BY <2>2, <1>8
    <3> QED BY <3>1, <1>0
  <2>5. \A c \in M : lvl2[c] <= lvl2[Root] /\ span2[c] # {}
    BY <2>2, <1>0, <1>7, <1>8
  <2> QED BY <2>1, <2>2, <2>3, <2>4, <2>5, <1>8 DEF Levels
<1>10. Apart(M, lvl2, span2)
  <2>1. Apart(N, lvl, span)
    BY DEF Shape
  <2> SUFFICES ASSUME NEW c \in M, NEW d \in M, NEW k \in Nat,
                      lvl2[c] = lvl2[d], k \in span2[c], k \in span2[d]
               PROVE  c = d
    BY DEF Apart
  <2>2. /\ k \in span[c] \/ (c = z.to /\ k \in span[b])
        /\ k \in span[d] \/ (d = z.to /\ k \in span[b])
    BY <1>8
  <2>3. c \in N /\ d \in N /\ c # b /\ d # b /\ lvl[c] = lvl[d] /\ lvl[z.to] = lvl[b]
    BY <1>6, <1>7
  <2> QED BY <2>1, <2>2, <2>3, <1>1 DEF Apart
<1>11. Filled(new, lvl2, span2)
  <2> SUFFICES ASSUME NEW c \in M
               PROVE  /\ new[c] \subseteq IF lvl2[c] = 0 THEN Extents ELSE Pointers
                      /\ \A x \in new[c] : x.key \in span2[c]
                      /\ \A x, y \in new[c] : x.key = y.key => x = y
    BY <1>7 DEF Filled
  <2>1. new[c] \subseteq ent[c] /\ lvl2[c] = lvl[c] /\ span[c] \subseteq span2[c] /\ c \in N
    BY <1>7, <1>8
  <2> QED BY <2>1, <1>2
<1>12. \A y \in ent[a] : y.key \in Nat /\ (y # p => y.key # p.key) /\ (y # z => y.key # z.key)
  BY <1>2, <1>5
<1>13. ASSUME NEW k \in span[a]
       PROVE  k \in Part(R, span[a], z) <=> k \in span[z.to] \/ k \in span[b]
  <2>0. k \in Nat
    BY <1>0
  <2>1. k \in span[z.to] <=> z.key <= k /\ \A y \in ent[a] : z.key < y.key => k < y.key
    BY <1>6 DEF Part
  <2>2. k \in span[b] <=> p.key <= k /\ \A y \in ent[a] : p.key < y.key => k < y.key
    BY <1>1 DEF Part
  <2>3. k \in Part(R, span[a], z) <=> z.key <= k /\ \A y \in R : z.key < y.key => k < y.key
    BY DEF Part
  <2>4. \A y \in R : z.key < y.key <=> p.key < y.key
    BY <1>5, <1>12
  <2>5. CASE k < p.key
    BY <2>0, <2>1, <2>2, <2>3, <2>5, <1>5, <1>12
  <2>6. CASE ~(k < p.key)
    BY <2>0, <2>1, <2>2, <2>3, <2>4, <2>6, <1>5, <1>12
  <2> QED BY <2>5, <2>6
<1>14. Part(R, span[a], z) = span[z.to] \cup span[b]
  <2>1. /\ Part(R, span[a], z) \subseteq span[a]
        /\ span[z.to] \subseteq span[a] /\ span[b] \subseteq span[a]
    BY <1>1, <1>6 DEF Part
  <2> HIDE DEF R
  <2> QED BY <2>1, <1>13
<1>15. ASSUME NEW y \in R, y # z
       PROVE  Part(R, span[a], y) = Part(ent[a], span[a], y)
  <2>1. ASSUME NEW k \in span[a]
        PROVE  k \in Part(R, span[a], y) <=> k \in Part(ent[a], span[a], y)
    <3>0. k \in Nat
      BY <1>0
    <3>1. k \in Part(ent[a], span[a], y) <=> y.key <= k /\ \A x \in ent[a] : y.key < x.key => k < x.key
      BY DEF Part
    <3>2. k \in Part(R, span[a], y) <=> y.key <= k /\ \A x \in R : y.key < x.key => k < x.key
      BY DEF Part
    <3>3. y.key < p.key => y.key < z.key /\ z \in R
      BY <1>5, <1>6, <1>12, <1>15
    <3>4. (\A x \in R : y.key < x.key => k < x.key) /\ y.key < p.key => k < p.key
      BY <3>0, <3>3, <1>5, <1>12
    <3> QED BY <3>1, <3>2, <3>4
  <2>2. Part(R, span[a], y) \subseteq span[a] /\ Part(ent[a], span[a], y) \subseteq span[a]
    BY DEF Part
  <2> HIDE DEF R
  <2> QED BY <2>1, <2>2
<1>16. Guided(new, lvl2, span2)
  <2> SUFFICES ASSUME NEW c \in M, lvl2[c] # 0
               PROVE  Guides(new, lvl2, span2, c)
    BY <1>7 DEF Guided
  <2>0. c \in N /\ lvl[c] # 0 /\ lvl2[c] = lvl[c] /\ span2[c] = span[c]
    BY <1>7, <1>8
  <2>1. \A k \in span2[c] : \E x \in new[c] : x.key <= k
    <3> SUFFICES ASSUME NEW k \in span[c] PROVE \E x \in new[c] : x.key <= k
      BY <2>0
    <3>1. PICK x \in ent[c] : x.key <= k
      BY <2>0, <1>3
    <3>2. k \in Nat /\ z.key \in Nat /\ p.key \in Nat
      BY <2>0, <1>0, <1>12
    <3>3. x = p => z.key <= k
      BY <3>1, <3>2, <1>5
    <3> QED BY <2>0, <3>1, <3>3, <1>6, <1>7
  <2>2. ASSUME NEW x \in new[c]
        PROVE  x.to \in M /\ lvl2[c] = lvl2[x.to] + 1 /\ span2[x.to] = Part(new[c], span2[c], x)
    <3>1. x \in ent[c] /\ (c = a => x \in R)
      BY <1>7
    <3>2. x.to \in N /\ lvl[c] = lvl[x.to] + 1 /\ span[x.to] = Part(ent[c], span[c], x)
      BY <2>0, <3>1, <1>3
    <3>3. x.to # b
      BY <2>0, <3>1, <1>1
    <3>4. x.to \in M /\ lvl2[c] = lvl2[x.to] + 1
      BY <2>0, <3>2, <3>3, <1>7
    <3>5. CASE c = a /\ x = z
      BY <2>0, <3>4, <3>5, <1>7, <1>8, <1>14
    <3>6. CASE c = a /\ x # z
      <4>1. x.to # z.to
        <5>1. \A d \in N : \A y \in ent[d] : lvl[d] # 0 /\ y.to = z.to => d = a /\ y = z
          BY OneParent
        <5> QED BY <2>0, <3>1, <3>6, <5>1
      <4>2. span2[x.to] = span[x.to]
        BY <3>4, <4>1, <1>8
      <4>3. Part(new[c], span2[c], x) = Part(ent[a], span[a], x)
        BY <2>0, <3>1, <3>6, <1>7, <1>15
      <4> QED BY <3>2, <3>4, <3>6, <4>2, <4>3
    <3>7. CASE c # a
      <4>1. x.to # z.to
        <5>1. \A d \in N : \A y \in ent[d] : lvl[d] # 0 /\ y.to = z.to => d = a /\ y = z
          BY OneParent
        <5> QED BY <2>0, <3>1, <3>7, <5>1
      <4> QED BY <2>0, <3>2, <3>4, <3>7, <4>1, <1>7, <1>8
    <3> QED BY <3>5, <3>6, <3>7
  <2> HIDE DEF M
  <2> QED BY <2>1, <2>2, <1>7 DEF Guides
<1> QED BY <1>7, <1>9, <1>10, <1>11, <1>16 DEF Shape

-----------------------------------------------------------------------------
(* What the leaves hold *)

Held(ent, lvl) == UNION {ent[b] : b \in {c \in DOMAIN ent : lvl[c] = 0}}

\* Membership of Held.
LEMMA HeldIn ==
  ASSUME NEW ent, NEW lvl
  PROVE  \A x : x \in Held(ent, lvl) <=> \E b \in DOMAIN ent : lvl[b] = 0 /\ x \in ent[b]
BY DEF Held

\* Extents with different keys, each in the leaf that has the key.
LEMMA HeldOnce ==
  ASSUME NEW ent, NEW lvl, NEW span, Shape(ent, lvl, span)
  PROVE  /\ Held(ent, lvl) \subseteq Extents
         /\ \A b \in DOMAIN ent : \A x \in Held(ent, lvl) :
              lvl[b] = 0 /\ x.key \in span[b] => x \in ent[b]
         /\ \A x, y \in Held(ent, lvl) : x.key = y.key => x = y
<1>1. ASSUME NEW x \in Held(ent, lvl)
      PROVE  \E b \in DOMAIN ent : lvl[b] = 0 /\ x \in ent[b] /\ x \in Extents /\ x.key \in span[b]
                                   /\ x.key \in Nat
  <2>1. PICK b \in DOMAIN ent : lvl[b] = 0 /\ x \in ent[b]
    BY HeldIn
  <2>2. ent[b] \subseteq Extents /\ x.key \in span[b]
    BY <2>1 DEF Shape, Filled
  <2> QED BY <2>1, <2>2 DEF Extents
<1>2. ASSUME NEW b \in DOMAIN ent, NEW x \in Held(ent, lvl), lvl[b] = 0, x.key \in span[b]
      PROVE  x \in ent[b]
  <2>1. PICK c \in DOMAIN ent : lvl[c] = 0 /\ x \in ent[c] /\ x.key \in span[c] /\ x.key \in Nat
    BY <1>1
  <2>2. b = c
    BY <1>2, <2>1 DEF Shape, Apart
  <2> QED BY <2>1, <2>2
<1>3. ASSUME NEW x \in Held(ent, lvl), NEW y \in Held(ent, lvl), x.key = y.key PROVE x = y
  <2>1. PICK b \in DOMAIN ent : lvl[b] = 0 /\ x \in ent[b] /\ x.key \in span[b]
    BY <1>1
  <2>2. y \in ent[b]
    BY <1>2, <1>3, <2>1
  <2> QED BY <1>3, <2>1, <2>2 DEF Shape, Filled
<1> QED BY <1>1, <1>2, <1>3

\* A change of one leaf changes nothing else that is held.
LEMMA LeafHeld ==
  ASSUME NEW ent, NEW lvl, NEW span, Shape(ent, lvl, span),
         NEW b \in DOMAIN ent, lvl[b] = 0, NEW E
  PROVE  \A x : x \in Held([ent EXCEPT ![b] = E], lvl)
                  <=> x \in E \/ (x \in Held(ent, lvl) /\ x \notin ent[b])
<1> DEFINE new == [ent EXCEPT ![b] = E]
<1>1. DOMAIN new = DOMAIN ent /\ new[b] = E /\ \A c \in DOMAIN ent : c # b => new[c] = ent[c]
  BY Zenon
<1> HIDE DEF new
<1>2. \A x : x \in Held(new, lvl) <=> \E c \in DOMAIN ent : lvl[c] = 0 /\ x \in new[c]
  BY <1>1, HeldIn
<1>3. \A x : x \in Held(ent, lvl) <=> \E c \in DOMAIN ent : lvl[c] = 0 /\ x \in ent[c]
  BY HeldIn
<1>4. ASSUME NEW c \in DOMAIN ent, lvl[c] = 0, NEW x \in ent[c], x \in ent[b] PROVE c = b
  <2>1. x.key \in span[c] /\ x.key \in span[b] /\ x.key \in Nat
    BY <1>4 DEF Shape, Filled, Extents
  <2> QED BY <1>4, <2>1 DEF Shape, Apart
<1>5. \A x : x \in Held(new, lvl) <=> x \in E \/ (x \in Held(ent, lvl) /\ x \notin ent[b])
  BY <1>1, <1>2, <1>3, <1>4
<1> QED BY <1>5 DEF new

\* A new root changes nothing that is held.
LEMMA GrowHeld ==
  ASSUME NEW ent, NEW lvl, NEW span, Shape(ent, lvl, span),
         NEW moved \in AdminBlocks \ DOMAIN ent,
         NEW new, new = GrownSets(ent, moved),
         NEW lvl2, lvl2 = GrownLevels(ent, lvl, moved)
  PROVE  Held(new, lvl2) = Held(ent, lvl)
<1> DEFINE N == DOMAIN ent
           M == N \cup {moved}
<1>1. Root \in N /\ lvl \in [N -> Nat] /\ moved # Root
  BY DEF Shape, Levels
<1>2. /\ DOMAIN new = M /\ new[moved] = ent[Root] /\ \A c \in N : c # Root => new[c] = ent[c]
      /\ lvl2[Root] # 0 /\ lvl2[moved] = lvl[Root] /\ \A c \in N : c # Root => lvl2[c] = lvl[c]
  BY <1>1 DEF GrownSets, GrownLevels
<1>3. \A x : x \in Held(new, lvl2) <=> \E c \in M : lvl2[c] = 0 /\ x \in new[c]
  BY <1>2, HeldIn
<1>4. \A x : x \in Held(ent, lvl) <=> \E c \in N : lvl[c] = 0 /\ x \in ent[c]
  BY HeldIn
<1>5. \A x : x \in Held(new, lvl2) <=> x \in Held(ent, lvl)
  BY <1>1, <1>2, <1>3, <1>4
<1> QED BY <1>5

\* Nor does the split of a block.
LEMMA SplitHeld ==
  ASSUME NEW ent, NEW lvl, NEW span, Shape(ent, lvl, span),
         NEW a \in DOMAIN ent, lvl[a] # 0, NEW b \in DOMAIN ent, a # b,
         NEW half \in AdminBlocks \ DOMAIN ent, NEW sep \in Nat,
         NEW new, new = SplitSets(ent, a, b, sep, half),
         NEW lvl2, lvl2 = SplitLevels(ent, lvl, b, half)
  PROVE  Held(new, lvl2) = Held(ent, lvl)
<1> DEFINE N == DOMAIN ent
           M == N \cup {half}
<1>1. \A x \in ent[b] : x.key \in Nat
  BY DEF Shape, Filled, Extents, Pointers
<1>2. /\ DOMAIN new = M /\ new[half] = {x \in ent[b] : x.key >= sep}
      /\ new[b] = {x \in ent[b] : x.key < sep}
      /\ \A c \in N : c # a /\ c # b => new[c] = ent[c]
      /\ lvl2[half] = lvl[b] /\ \A c \in N : lvl2[c] = lvl[c]
  BY DEF SplitSets, SplitLevels
<1>3. \A x : x \in Held(new, lvl2) <=> \E c \in M : lvl2[c] = 0 /\ x \in new[c]
  BY <1>2, HeldIn
<1>4. \A x : x \in Held(ent, lvl) <=> \E c \in N : lvl[c] = 0 /\ x \in ent[c]
  BY HeldIn
<1>5. \A x : x \in ent[b] <=> x \in new[half] \/ x \in new[b]
  BY <1>1, <1>2
<1>6. ASSUME NEW x, x \in Held(new, lvl2) PROVE x \in Held(ent, lvl)
  <2>1. PICK c \in M : lvl2[c] = 0 /\ x \in new[c]
    BY <1>3, <1>6
  <2>2. CASE c = half \/ c = b
    BY <2>1, <2>2, <1>2, <1>4, <1>5
  <2>3. CASE c \in N \ {a, b}
    BY <2>1, <2>3, <1>2, <1>4
  <2>4. c # a
    BY <2>1, <1>2
  <2> QED BY <2>2, <2>3, <2>4
<1>7. ASSUME NEW x, x \in Held(ent, lvl) PROVE x \in Held(new, lvl2)
  <2>1. PICK c \in N : lvl[c] = 0 /\ x \in ent[c]
    BY <1>4, <1>7
  <2>2. CASE c = b
    BY <2>1, <2>2, <1>2, <1>3, <1>5
  <2>3. CASE c \in N \ {a, b}
    BY <2>1, <2>3, <1>2, <1>3
  <2> QED BY <2>1, <2>2, <2>3
<1> QED BY <1>6, <1>7

\* An empty leaf holds nothing.
LEMMA PruneHeld ==
  ASSUME NEW ent, NEW lvl, NEW a \in DOMAIN ent, lvl[a] # 0, NEW b, ent[b] = {}, NEW p,
         NEW new, new = PrunedSets(ent, a, b, p),
         NEW lvl2, lvl2 = PrunedLevels(ent, lvl, b)
  PROVE  Held(new, lvl2) = Held(ent, lvl)
<1>1. /\ DOMAIN new = DOMAIN ent \ {b}
      /\ \A c \in DOMAIN ent : c # b => lvl2[c] = lvl[c] /\ (c # a => new[c] = ent[c])
  BY DEF PrunedSets, PrunedLevels
<1>2. \A x : x \in Held(new, lvl2) <=> \E c \in DOMAIN new : lvl2[c] = 0 /\ x \in new[c]
  BY HeldIn
<1>3. \A x : x \in Held(ent, lvl) <=> \E c \in DOMAIN ent : lvl[c] = 0 /\ x \in ent[c]
  BY HeldIn
<1>4. \A x : x \in Held(new, lvl2) <=> x \in Held(ent, lvl)
  BY <1>1, <1>2, <1>3
<1> QED BY <1>4

-----------------------------------------------------------------------------
(* The nodes of a tree *)

Fits(node) ==
  /\ node \in [leaf : {TRUE}, entries : Seq(Extents)] \cup [leaf : {FALSE}, entries : Seq(Pointers)]
  /\ Ascending(node.entries) /\ Len(node.entries) <= Room(node)

SetsOf(ns) == [b \in DOMAIN ns |-> Range(ns[b].entries)]

TreeBy(ns, lvl, span) ==
  /\ \A b \in DOMAIN ns : Fits(ns[b]) /\ (ns[b].leaf <=> lvl[b] = 0)
  /\ Shape(SetsOf(ns), lvl, span)
Tree(ns) == \E lvl, span : TreeBy(ns, lvl, span)

\* The extents in the leaves of a tree.
Store(ns) == UNION {Range(ns[b].entries) : b \in {c \in DOMAIN ns : ns[c].leaf}}

\* The entries of a block as a set.
LEMMA SetsIs ==
  ASSUME NEW ns
  PROVE  DOMAIN SetsOf(ns) = DOMAIN ns /\ \A b \in DOMAIN ns : SetsOf(ns)[b] = Range(ns[b].entries)
BY DEF SetsOf

\* The form of a node that fits.
LEMMA NodeIs ==
  ASSUME NEW node, Fits(node)
  PROVE  /\ node.leaf => node.entries \in Seq(Extents) /\ Room(node) = LeafMax
         /\ ~node.leaf => node.entries \in Seq(Pointers) /\ Room(node) = IndexMax
         /\ node.leaf \in BOOLEAN /\ node = [leaf |-> node.leaf, entries |-> node.entries]
         /\ node.entries \in Seq(Items) /\ Ascending(node.entries) /\ Len(node.entries) <= Room(node)
         /\ Extents \in SUBSET Items /\ Pointers \in SUBSET Items
<1>1. Extents \in SUBSET Items /\ Pointers \in SUBSET Items
  BY DEF Items
<1>2. Ascending(node.entries) /\ Len(node.entries) <= Room(node)
  BY DEF Fits
<1>3. CASE node \in [leaf : {TRUE}, entries : Seq(Extents)]
  <2>1. node.leaf = TRUE /\ node.entries \in Seq(Extents)
        /\ node = [leaf |-> node.leaf, entries |-> node.entries]
    BY <1>3
  <2>2. node.entries \in Seq(Items)
    BY <1>1, <2>1
  <2> QED BY <1>1, <1>2, <2>1, <2>2 DEF Room
<1>4. CASE node \in [leaf : {FALSE}, entries : Seq(Pointers)]
  <2>1. node.leaf = FALSE /\ node.entries \in Seq(Pointers)
        /\ node = [leaf |-> node.leaf, entries |-> node.entries]
    BY <1>4
  <2>2. node.entries \in Seq(Items)
    BY <1>1, <2>1
  <2> QED BY <1>1, <1>2, <2>1, <2>2 DEF Room
<1> QED BY <1>3, <1>4 DEF Fits

\* The extents of a tree are what its leaves hold as sets.
LEMMA StoreIs ==
  ASSUME NEW ns, NEW lvl, NEW span, TreeBy(ns, lvl, span)
  PROVE  Store(ns) = Held(SetsOf(ns), lvl)
<1>1. \A x : x \in Held(SetsOf(ns), lvl) <=> \E b \in DOMAIN ns : lvl[b] = 0 /\ x \in Range(ns[b].entries)
  BY HeldIn, SetsIs
<1>2. \A b \in DOMAIN ns : ns[b].leaf <=> lvl[b] = 0
  BY DEF TreeBy
<1>3. \A x : x \in Store(ns) <=> \E b \in DOMAIN ns : ns[b].leaf /\ x \in Range(ns[b].entries)
  BY DEF Store
<1>4. \A x : x \in Store(ns) <=> x \in Held(SetsOf(ns), lvl)
  BY <1>1, <1>2, <1>3
<1> QED BY <1>4

\* Each level has a block, so that there are more blocks than levels above the
\* leaves.
LEMMA LevelsFewer ==
  ASSUME NEW ent, NEW lvl, NEW span, Shape(ent, lvl, span)
  PROVE  Cardinality(DOMAIN ent) \in Nat /\ lvl[Root] \in Nat /\ lvl[Root] < Cardinality(DOMAIN ent)
<1> DEFINE N == DOMAIN ent
           H == lvl[Root]
           T == {n \in Nat : n <= H => \E b \in N : lvl[b] = H - n}
           V == {lvl[b] : b \in N}
<1>1. Root \in N /\ IsFiniteSet(N) /\ lvl \in [N -> Nat] /\ H \in Nat /\ \A b \in N : span[b] # {}
  BY DEF Shape, Levels
<1>2. 0 \in T
  BY <1>1
<1>3. ASSUME NEW n \in Nat, n \in T PROVE n + 1 \in T
  <2> SUFFICES ASSUME n + 1 <= H PROVE \E b \in N : lvl[b] = H - (n + 1)
    BY <1>3
  <2>1. PICK b \in N : lvl[b] = H - n
    BY <1>1, <1>3
  <2>2. lvl[b] # 0
    BY <1>1, <2>1
  <2>3. PICK k : k \in span[b]
    BY <1>1
  <2>4. PICK x \in ent[b] : x.to \in N /\ lvl[b] = lvl[x.to] + 1
    BY <2>2, <2>3, ChildFor
  <2>5. lvl[x.to] \in Nat
    BY <1>1, <2>4
  <2>6. lvl[x.to] = H - (n + 1)
    BY <1>1, <2>1, <2>4, <2>5
  <2> QED BY <2>4, <2>6
<1>4. \A n \in Nat : n \in T
  <2> HIDE DEF T
  <2> QED BY <1>2, <1>3, ExtentInduction
<1>5. 0..H \subseteq V
  <2> SUFFICES ASSUME NEW m \in 0..H PROVE \E b \in N : lvl[b] = m
    OBVIOUS
  <2>1. H - m \in Nat /\ H - m <= H /\ H - (H - m) = m
    BY <1>1
  <2> QED BY <2>1, <1>4
<1>6. lvl \in Surjection(N, V)
  BY <1>1 DEF Surjection
<1>7. IsFiniteSet(V) /\ Cardinality(V) <= Cardinality(N)
  <2> HIDE DEF V, N
  <2> QED BY <1>1, <1>6, FS_Surjection
<1>8. Cardinality(0..H) <= Cardinality(V) /\ Cardinality(0..H) = H + 1
  <2>1. Cardinality(0..H) <= Cardinality(V)
    <3> HIDE DEF V
    <3> QED BY <1>5, <1>7, FS_Subset
  <2>2. Cardinality(0..H) = H + 1
    BY <1>1, FS_Interval
  <2> QED BY <2>1, <2>2
<1>9. Cardinality(N) \in Nat /\ Cardinality(V) \in Nat
  BY <1>1, <1>7, FS_CardinalityType
<1> QED BY <1>1, <1>7, <1>8, <1>9

-----------------------------------------------------------------------------
(* The search *)

\* p leads from the root down, one level at a time, towards the key.
Leads(ns, lvl, span, p, key) ==
  /\ p \in Seq(Block) /\ p # <<>> /\ p[1] = Root
  /\ \A i \in 1..Len(p) : /\ p[i] \in DOMAIN ns /\ lvl[p[i]] = lvl[Root] + 1 - i
                          /\ key \in span[p[i]]
  /\ \A i \in 2..Len(p) : \E x \in Range(ns[p[i - 1]].entries) : x.to = p[i]

\* At a leaf the search stays.
LEMMA FurtherIs ==
  ASSUME NEW v, NEW lvl, NEW span, TreeBy(v.nodes, lvl, span), NEW key \in Nat, NEW p,
         Leads(v.nodes, lvl, span, p, key), lvl[Last(p)] = 0
  PROVE  Further(v, p, key) = p
<1>1. Last(p) \in DOMAIN v.nodes
  BY DEF Leads, Last
<1>2. v.nodes[Last(p)].leaf
  BY <1>1 DEF TreeBy
<1> QED BY <1>2 DEF Further

\* Above the leaves it goes down one level.
LEMMA FurtherDown ==
  ASSUME NEW v, NEW lvl, NEW span, TreeBy(v.nodes, lvl, span), NEW key \in Nat, NEW p,
         Leads(v.nodes, lvl, span, p, key), lvl[Last(p)] # 0, NEW m \in Nat, m = Len(p)
  PROVE  /\ Leads(v.nodes, lvl, span, Further(v, p, key), key)
         /\ Len(Further(v, p, key)) = m + 1
<1> DEFINE ns == v.nodes
           b == Last(p)
<1>1. /\ Shape(SetsOf(ns), lvl, span) /\ DOMAIN SetsOf(ns) = DOMAIN ns
      /\ \A c \in DOMAIN ns : SetsOf(ns)[c] = Range(ns[c].entries)
      /\ \A c \in DOMAIN ns : Fits(ns[c]) /\ (ns[c].leaf <=> lvl[c] = 0)
  BY SetsIs DEF TreeBy
<1>2. p \in Seq(Block) /\ m \in Nat /\ m >= 1 /\ b = p[m] /\ b \in DOMAIN ns /\ key \in span[b]
      /\ lvl[b] = lvl[Root] + 1 - m
  BY DEF Leads, Last
<1>3. lvl \in [DOMAIN ns -> Nat] /\ Root \in DOMAIN ns /\ DOMAIN ns \subseteq Block
  BY <1>1 DEF Shape, Levels
<1> DEFINE s == ns[b].entries
<1>4. ~ns[b].leaf /\ s \in Seq(Pointers) /\ Ascending(s) /\ Pointers \in SUBSET Items
  BY <1>1, <1>2, NodeIs
<1>5. PICK x \in SetsOf(ns)[b] :
        /\ x.key <= key /\ \A y \in SetsOf(ns)[b] : x.key < y.key => key < y.key
        /\ x.to \in DOMAIN SetsOf(ns) /\ lvl[b] = lvl[x.to] + 1 /\ key \in span[x.to]
  BY <1>1, <1>2, ChildFor
<1>6. x \in Range(s) /\ \A y \in Range(s) : x.key < y.key => key < y.key
  BY <1>1, <1>2, <1>5
<1>7. Child(s, key) \in DOMAIN s /\ s[Child(s, key)] = x
  <2> HIDE DEF s
  <2> QED BY <1>4, <1>5, <1>6, ChildIs
<1>8. s # <<>>
  BY <1>7
<1>9. Further(v, p, key) = Append(p, x.to)
  BY <1>4, <1>7, <1>8 DEF Further
<1>10. x.to \in DOMAIN ns /\ x.to \in Block /\ lvl[x.to] = lvl[Root] + 1 - (m + 1)
  <2>1. x.to \in DOMAIN ns /\ x.to \in Block
    BY <1>1, <1>3, <1>5
  <2>2. lvl[x.to] \in Nat /\ lvl[Root] \in Nat
    BY <1>3, <2>1
  <2> QED BY <1>2, <1>5, <2>1, <2>2
<1> DEFINE r == Append(p, x.to)
<1>11. r \in Seq(Block) /\ Len(r) = m + 1 /\ r[m + 1] = x.to /\ \A i \in 1..m : r[i] = p[i]
  BY <1>2, <1>10
<1> HIDE DEF r
<1>12. r # <<>> /\ r[1] = Root
  BY <1>2, <1>11 DEF Leads
<1>13. \A i \in 1..Len(r) : /\ r[i] \in DOMAIN ns /\ lvl[r[i]] = lvl[Root] + 1 - i
                            /\ key \in span[r[i]]
  <2> TAKE i \in 1..Len(r)
  <2>1. CASE i = m + 1
    BY <2>1, <1>5, <1>10, <1>11
  <2>2. CASE i # m + 1
    <3>1. i \in 1..m
      BY <2>2, <1>2, <1>11
    <3> QED BY <3>1, <1>11 DEF Leads
  <2> QED BY <2>1, <2>2
<1>14. \A i \in 2..Len(r) : \E y \in Range(ns[r[i - 1]].entries) : y.to = r[i]
  <2> TAKE i \in 2..Len(r)
  <2>1. CASE i = m + 1
    <3>1. r[i - 1] = b /\ r[i] = x.to
      BY <2>1, <1>2, <1>11
    <3> QED BY <3>1, <1>6
  <2>2. CASE i # m + 1
    <3>1. i \in 2..m /\ i - 1 \in 1..m /\ i \in 1..m
      BY <2>2, <1>2, <1>11
    <3>2. r[i] = p[i] /\ r[i - 1] = p[i - 1]
      BY <3>1, <1>11
    <3> QED BY <3>1, <3>2 DEF Leads
  <2> QED BY <2>1, <2>2
<1>15. Leads(ns, lvl, span, r, key)
  BY <1>11, <1>12, <1>13, <1>14 DEF Leads
<1> QED BY <1>2, <1>9, <1>11, <1>15 DEF r

\* The search is long enough to end in a leaf.
LEMMA PathIs ==
  ASSUME NEW v, NEW lvl, NEW span, TreeBy(v.nodes, lvl, span), NEW key \in Nat
  PROVE  /\ Leads(v.nodes, lvl, span, Path(v, key), key)
         /\ Len(Path(v, key)) = lvl[Root] + 1
<1> DEFINE D == Cardinality(DOMAIN v.nodes)
           H == lvl[Root]
           Goes(f, m) == f = [n \in 0..m |-> IF n = 0 THEN <<Root>> ELSE Further(v, f[n - 1], key)]
           T == {m \in Nat : \E f : Goes(f, m)}
<1>1. D \in Nat /\ H \in Nat /\ H < D /\ Root \in DOMAIN v.nodes /\ span[Root] = Nat
  <2>1. Shape(SetsOf(v.nodes), lvl, span) /\ DOMAIN SetsOf(v.nodes) = DOMAIN v.nodes
    BY SetsIs DEF TreeBy
  <2> QED BY <2>1, LevelsFewer DEF Shape, Levels
<1>2. 0 \in T
  <2>1. Goes([n \in 0..0 |-> <<Root>>], 0)
    OBVIOUS
  <2> QED BY <2>1
<1>3. ASSUME NEW m \in Nat, m \in T PROVE m + 1 \in T
  <2>1. PICK f : Goes(f, m)
    BY <1>3
  <2> DEFINE g == [n \in 0..m+1 |-> IF n = m + 1 THEN Further(v, f[m], key) ELSE f[n]]
  <2>2. \A n \in 0..m+1 : g[n] = IF n = 0 THEN <<Root>> ELSE Further(v, g[n - 1], key)
    <3> TAKE n \in 0..m+1
    <3>1. CASE n = m + 1
      <4>1. g[n] = Further(v, f[m], key) /\ g[n - 1] = f[m] /\ n # 0
        BY <3>1
      <4> QED BY <4>1
    <3>2. CASE n \in 0..m /\ n # 0
      <4>1. g[n] = f[n] /\ g[n - 1] = f[n - 1]
        BY <3>2
      <4> QED BY <4>1, <3>2, <2>1
    <3>3. CASE n = 0
      BY <3>3, <2>1
    <3> QED BY <3>1, <3>2, <3>3
  <2>3. Goes(g, m + 1)
    <3>1. g = [n \in 0..m+1 |-> g[n]]
      OBVIOUS
    <3> HIDE DEF g
    <3> QED BY <3>1, <2>2
  <2> HIDE DEF Goes, g
  <2> QED BY <2>3
<1>4. \E f : Goes(f, D)
  <2>1. \A m \in Nat : m \in T
    <3> HIDE DEF T
    <3> QED BY <1>2, <1>3, ExtentInduction
  <2> QED BY <1>1, <2>1
<1> DEFINE f == CHOOSE h : Goes(h, D)
<1>5. Goes(f, D)
  <2> HIDE DEF Goes
  <2> QED BY <1>4
<1>6. Path(v, key) = f[D]
  BY DEF Path
<1> HIDE DEF f
<1>7. f[0] = <<Root>> /\ \A n \in 1..D : f[n] = Further(v, f[n - 1], key)
  <2>1. f[0] = <<Root>>
    BY <1>1, <1>5
  <2>2. \A n \in 1..D : f[n] = Further(v, f[n - 1], key)
    BY <1>1, <1>5
  <2> QED BY <2>1, <2>2
<1> DEFINE I == {n \in Nat : n <= D => /\ Leads(v.nodes, lvl, span, f[n], key)
                                       /\ Len(f[n]) = IF n <= H THEN n + 1 ELSE H + 1}
<1>8. 0 \in I
  <2> DEFINE r == f[0]
  <2>1. r = <<Root>> /\ r \in Seq(Block) /\ Len(r) = 1 /\ r[1] = Root /\ r # <<>>
    BY <1>7 DEF Block
  <2> HIDE DEF r
  <2>2. Leads(v.nodes, lvl, span, r, key)
    BY <1>1, <2>1 DEF Leads
  <2>3. Leads(v.nodes, lvl, span, f[0], key) /\ Len(f[0]) = 1
    BY <2>1, <2>2 DEF r
  <2>4. 0 \in Nat /\ 0 + 1 = 1 /\ 0 <= H
    BY <1>1
  <2>5. Len(f[0]) = IF 0 <= H THEN 0 + 1 ELSE H + 1
    BY <2>3, <2>4
  <2> QED BY <2>3, <2>4, <2>5
<1>9. ASSUME NEW n \in Nat, n \in I PROVE n + 1 \in I
  <2> SUFFICES ASSUME n + 1 <= D
               PROVE  /\ Leads(v.nodes, lvl, span, f[n + 1], key)
                      /\ Len(f[n + 1]) = IF n + 1 <= H THEN n + 2 ELSE H + 1
    BY <1>9
  <2>1. Leads(v.nodes, lvl, span, f[n], key) /\ Len(f[n]) = IF n <= H THEN n + 1 ELSE H + 1
    BY <1>1, <1>9
  <2>2. f[n + 1] = Further(v, f[n], key)
    <3>1. n + 1 \in 1..D /\ (n + 1) - 1 = n
      BY <1>1
    <3> QED BY <3>1, <1>7
  <2>3. lvl[Last(f[n])] = H + 1 - Len(f[n])
    BY <2>1 DEF Leads, Last
  <2>4. CASE n < H
    <3>1. lvl[Last(f[n])] # 0
      BY <2>1, <2>3, <2>4, <1>1
    <3>2. /\ Leads(v.nodes, lvl, span, Further(v, f[n], key), key)
          /\ Len(Further(v, f[n], key)) = Len(f[n]) + 1
      <4>1. Leads(v.nodes, lvl, span, f[n], key) /\ lvl[Last(f[n])] # 0 /\ n + 1 \in Nat /\ n + 1 = Len(f[n])
        BY <3>1, <2>1, <2>4, <1>1
      <4>2. Leads(v.nodes, lvl, span, Further(v, f[n], key), key) /\ Len(Further(v, f[n], key)) = n + 1 + 1
        BY SMTT(40), <4>1, FurtherDown
      <4> QED BY <4>1, <4>2
    <3> QED BY <3>2, <2>1, <2>2, <2>4, <1>1
  <2>5. CASE ~(n < H)
    <3>1. lvl[Last(f[n])] = 0
      BY <2>1, <2>3, <2>5, <1>1
    <3>2. Further(v, f[n], key) = f[n]
      BY <3>1, <2>1, FurtherIs
    <3> QED BY <3>2, <2>1, <2>2, <2>5, <1>1
  <2> QED BY <2>4, <2>5
<1>10. \A n \in Nat : n \in I
  <2> HIDE DEF I
  <2> QED BY <1>8, <1>9, ExtentInduction
<1>11. Leads(v.nodes, lvl, span, f[D], key) /\ Len(f[D]) = H + 1
  BY <1>1, <1>10
<1> QED BY <1>6, <1>11

\* It ends in the leaf that is responsible for the key.
LEMMA LeafIs ==
  ASSUME NEW v, NEW lvl, NEW span, TreeBy(v.nodes, lvl, span), NEW key \in Nat
  PROVE  /\ LeafOf(v, key) \in DOMAIN v.nodes /\ lvl[LeafOf(v, key)] = 0
         /\ key \in span[LeafOf(v, key)] /\ EndsInLeaf(v, key)
<1> DEFINE p == Path(v, key)
<1>1. Leads(v.nodes, lvl, span, p, key) /\ Len(p) = lvl[Root] + 1
  BY PathIs
<1>2. lvl[Root] \in Nat
  <2>1. Shape(SetsOf(v.nodes), lvl, span)
    BY DEF TreeBy
  <2> QED BY <2>1, LevelsFewer
<1> HIDE DEF p
<1>3. Len(p) \in 1..Len(p)
  BY <1>1, <1>2
<1>4. /\ p[Len(p)] \in DOMAIN v.nodes /\ key \in span[p[Len(p)]]
      /\ lvl[p[Len(p)]] = lvl[Root] + 1 - Len(p)
  BY <1>1, <1>3 DEF Leads
<1>5. lvl[p[Len(p)]] = 0
  BY <1>1, <1>2, <1>4
<1>6. LeafOf(v, key) = p[Len(p)]
  BY DEF LeafOf, Last, p
<1> QED BY <1>4, <1>5, <1>6 DEF TreeBy, EndsInLeaf

\* So what the tree stores is what the search finds.
LEMMA KnownIs ==
  ASSUME NEW v, Tree(v.nodes), NEW key \in Nat
  PROVE  /\ Known(v, key) <=> \E x \in Store(v.nodes) : x.key = key
         /\ Known(v, key) =>
              LET all == v.nodes[LeafOf(v, key)].entries
                  i   == Min(Places(v, key))
              IN  i \in DOMAIN all /\ all[i] = Found(v, key)
                  /\ Found(v, key) \in Store(v.nodes) /\ Found(v, key).key = key
<1> DEFINE b == LeafOf(v, key)
           all == v.nodes[b].entries
           P == Places(v, key)
<1>1. PICK lvl, span : TreeBy(v.nodes, lvl, span)
  BY DEF Tree
<1>2. b \in DOMAIN v.nodes /\ lvl[b] = 0 /\ key \in span[b] /\ v.nodes[b].leaf
  BY <1>1, LeafIs DEF EndsInLeaf
<1>3. Shape(SetsOf(v.nodes), lvl, span) /\ Fits(v.nodes[b])
  BY <1>1, <1>2 DEF TreeBy
<1>4. all \in Seq(Extents)
  BY <1>2, <1>3, NodeIs
<1>5. DOMAIN SetsOf(v.nodes) = DOMAIN v.nodes /\ SetsOf(v.nodes)[b] = Range(all)
  BY <1>2, SetsIs
<1>6. \A x \in Store(v.nodes) : x.key = key => x \in Range(all)
  BY <1>1, <1>2, <1>3, <1>5, HeldOnce, StoreIs
<1>7. \A x \in Range(all) : x \in Store(v.nodes)
  BY <1>2 DEF Store
<1>8. P = {i \in DOMAIN all : all[i].key = key} /\ DOMAIN all = 1..Len(all) /\ Len(all) \in Nat
  BY <1>2, <1>4 DEF Places
<1>9. \A x : x \in Range(all) <=> \E i \in DOMAIN all : x = all[i]
  BY DEF Range
<1> HIDE DEF all, P, b
<1>10. P # {} <=> \E x \in Store(v.nodes) : x.key = key
  BY <1>6, <1>7, <1>8, <1>9
<1>11. P # {} => Min(P) \in P
  <2>1. P \in SUBSET Nat
    BY <1>8
  <2> QED BY <2>1, MinIs
<1>12. P # {} => /\ Min(P) \in DOMAIN all /\ all[Min(P)] \in Store(v.nodes)
                 /\ all[Min(P)].key = key
  BY <1>7, <1>8, <1>9, <1>11
<1> QED BY <1>10, <1>12 DEF Known, Found, P, all, b

-----------------------------------------------------------------------------
(* Volumes in the middle of a call *)

IsVolume(v) == v = [nodes |-> v.nodes, used |-> v.used, raised |-> v.raised]

PutIn(ns, b, node) ==
  [c \in DOMAIN ns \cup {b} |-> IF c = b THEN node ELSE ns[c]]
DropFrom(ns, b) == [c \in DOMAIN ns \ {b} |-> ns[c]]

\* Put changes one node.
LEMMA PutIs ==
  ASSUME NEW v, IsVolume(v), NEW b, NEW node
  PROVE  /\ IsVolume(Put(v, b, node))
         /\ Put(v, b, node).used = v.used /\ Put(v, b, node).raised = v.raised
         /\ Put(v, b, node).nodes = PutIn(v.nodes, b, node)
BY DEF IsVolume, Put, PutIn

\* Drop takes one away.
LEMMA DropIs ==
  ASSUME NEW v, IsVolume(v), NEW b
  PROVE  /\ IsVolume(Drop(v, b))
         /\ Drop(v, b).used = v.used /\ Drop(v, b).raised = v.raised
         /\ Drop(v, b).nodes = DropFrom(v.nodes, b)
BY DEF IsVolume, Drop, DropFrom

\* An error changes nothing else.
LEMMA RaisedIs ==
  ASSUME NEW v, IsVolume(v)
  PROVE  /\ IsVolume(Raised(v)) /\ Raised(v).raised = TRUE
         /\ Raised(v).used = v.used /\ Raised(v).nodes = v.nodes
<1> DEFINE yes == TRUE
<1>1. yes = TRUE
  OBVIOUS
<1> HIDE DEF yes
<1>2. [v EXCEPT !.raised = yes] = [nodes |-> v.nodes, used |-> v.used, raised |-> yes]
  BY DEF IsVolume
<1>3. Raised(v) = [v EXCEPT !.raised = yes]
  BY <1>1 DEF Raised
<1> QED BY <1>1, <1>2, <1>3 DEF IsVolume

\* A leaf gets other entries with keys that are its own.
LEMMA LeafPut ==
  ASSUME NEW ns, NEW lvl, NEW span, TreeBy(ns, lvl, span),
         NEW b \in DOMAIN ns, lvl[b] = 0,
         NEW s \in Seq(Extents), Ascending(s), Len(s) <= LeafMax,
         \A x \in Range(s) : x.key \in span[b],
         NEW new, new = PutIn(ns, b, Leaf(s))
  PROVE  /\ TreeBy(new, lvl, span)
         /\ \A x : x \in Store(new) <=> x \in Range(s) \/ (x \in Store(ns) /\ x \notin Range(ns[b].entries))
<1>1. /\ DOMAIN new = DOMAIN ns /\ new[b] = Leaf(s)
      /\ \A c \in DOMAIN ns : c # b => new[c] = ns[c]
  BY DEF PutIn
<1>2. Leaf(s).leaf = TRUE /\ Leaf(s).entries = s
  BY DEF Leaf
<1>3. Fits(Leaf(s))
  BY <1>2 DEF Fits, Leaf, Room
<1>4. \A c \in DOMAIN new : Fits(new[c]) /\ (new[c].leaf <=> lvl[c] = 0)
  BY <1>1, <1>2, <1>3 DEF TreeBy
<1>5. Extents \in SUBSET Items
  BY DEF Items
<1>6. Range(s) \in SUBSET Extents /\ \A x, y \in Range(s) : x.key = y.key => x = y
  BY <1>5, AscendingOnce
<1>7. /\ DOMAIN SetsOf(ns) = DOMAIN ns /\ Shape(SetsOf(ns), lvl, span)
      /\ SetsOf(ns)[b] = Range(ns[b].entries)
  BY SetsIs DEF TreeBy
<1>8. Shape([SetsOf(ns) EXCEPT ![b] = Range(s)], lvl, span)
  BY <1>6, <1>7, LeafShape
<1>9. SetsOf(new) = [SetsOf(ns) EXCEPT ![b] = Range(s)]
  BY <1>1, <1>2 DEF SetsOf
<1>10. TreeBy(new, lvl, span)
  BY <1>4, <1>8, <1>9 DEF TreeBy
<1>11. \A x : x \in Held(SetsOf(new), lvl)
                <=> x \in Range(s) \/ (x \in Held(SetsOf(ns), lvl) /\ x \notin SetsOf(ns)[b])
  <2> DEFINE ent == SetsOf(ns)
             E == Range(s)
  <2>1. Shape(ent, lvl, span) /\ b \in DOMAIN ent
    BY <1>7
  <2> HIDE DEF ent, E
  <2>2. \A x : x \in Held([ent EXCEPT ![b] = E], lvl)
                  <=> x \in E \/ (x \in Held(ent, lvl) /\ x \notin ent[b])
    BY <2>1, LeafHeld
  <2> QED BY <2>2, <1>9 DEF ent, E
<1>12. Store(new) = Held(SetsOf(new), lvl) /\ Store(ns) = Held(SetsOf(ns), lvl)
  BY <1>10, StoreIs
<1> QED BY <1>7, <1>10, <1>11, <1>12

-----------------------------------------------------------------------------
(* Insertion: a tree with an item that is still to be put into a block *)

With(ns, a, e) ==
  [b \in DOMAIN ns |-> IF b = a THEN Range(ns[a].entries) \cup {e} ELSE Range(ns[b].entries)]

Pending(ns, lvl, span, a, e) ==
  /\ a \in DOMAIN ns
  /\ \A b \in DOMAIN ns : Fits(ns[b]) /\ (ns[b].leaf <=> lvl[b] = 0)
  /\ \A x \in Range(ns[a].entries) : x.key # e.key
  /\ Shape(With(ns, a, e), lvl, span)

\* Where a pointer that is still to be put belongs.
LEMMA PendingIs ==
  ASSUME NEW ns, NEW lvl, NEW span, NEW a, NEW e, Pending(ns, lvl, span, a, e)
  PROVE  /\ DOMAIN With(ns, a, e) = DOMAIN ns
         /\ With(ns, a, e)[a] = Range(ns[a].entries) \cup {e}
         /\ \A b \in DOMAIN ns : b # a => With(ns, a, e)[b] = Range(ns[b].entries)
         /\ Fits(ns[a]) /\ (ns[a].leaf <=> lvl[a] = 0) /\ lvl \in [DOMAIN ns -> Nat]
         /\ ns[a].leaf => e \in Extents
         /\ ~ns[a].leaf => e \in Pointers
<1>1. /\ DOMAIN With(ns, a, e) = DOMAIN ns
      /\ With(ns, a, e)[a] = Range(ns[a].entries) \cup {e}
      /\ \A b \in DOMAIN ns : b # a => With(ns, a, e)[b] = Range(ns[b].entries)
      /\ Fits(ns[a]) /\ (ns[a].leaf <=> lvl[a] = 0) /\ a \in DOMAIN ns
  BY DEF With, Pending
<1>2. Shape(With(ns, a, e), lvl, span)
  BY DEF Pending
<1>3. lvl \in [DOMAIN ns -> Nat]
  BY <1>1, <1>2 DEF Shape, Levels
<1>4. With(ns, a, e)[a] \subseteq IF lvl[a] = 0 THEN Extents ELSE Pointers
  BY <1>1, <1>2 DEF Shape, Filled
<1> QED BY <1>1, <1>3, <1>4

Full(node) == ~(Len(node.entries) < Room(node))
Holding(node, s) == [node EXCEPT !.entries = s]

\* There is room: the item is put into the block.
LEMMA RoomRound ==
  ASSUME NEW ns, NEW lvl, NEW span, NEW a, NEW e, Pending(ns, lvl, span, a, e),
         ~Full(ns[a]),
         NEW node, node = Holding(ns[a], Place(ns[a].entries, e)),
         NEW new, new = PutIn(ns, a, node)
  PROVE  TreeBy(new, lvl, span) /\ Store(new) = Held(With(ns, a, e), lvl)
<1> DEFINE s == ns[a].entries
           X == IF ns[a].leaf THEN Extents ELSE Pointers
<1>1. a \in DOMAIN ns /\ Fits(ns[a]) /\ (ns[a].leaf <=> lvl[a] = 0)
      /\ \A x \in Range(s) : x.key # e.key
  BY PendingIs DEF Pending
<1>2. X \in SUBSET Items /\ s \in Seq(X) /\ Ascending(s) /\ e \in X /\ ns[a].leaf \in BOOLEAN
      /\ ns[a] = [leaf |-> ns[a].leaf, entries |-> s]
  BY <1>1, NodeIs, PendingIs
<1>3. /\ Place(s, e) \in Seq(X) /\ Ascending(Place(s, e))
      /\ Range(Place(s, e)) = Range(s) \cup {e} /\ Len(Place(s, e)) = Len(s) + 1
  <2> HIDE DEF s, X
  <2> QED BY <1>1, <1>2, PlaceSorted
<1>4. node = [leaf |-> ns[a].leaf, entries |-> Place(s, e)]
  BY <1>2 DEF Holding
<1>5. Room(node) = Room(ns[a]) /\ Room(node) \in Nat
  BY <1>4, ExtentTreeAssumption DEF Room
<1>6. Len(s) + 1 <= Room(node)
  BY <1>2, <1>5 DEF Full
<1>7. Fits(node) /\ (node.leaf <=> lvl[a] = 0) /\ Range(node.entries) = Range(s) \cup {e}
  <2>1. node.leaf = ns[a].leaf /\ node.entries = Place(s, e)
    BY <1>4
  <2> QED BY <2>1, <1>1, <1>2, <1>3, <1>4, <1>6 DEF Fits
<1>8. /\ DOMAIN new = DOMAIN ns /\ new[a] = node
      /\ \A c \in DOMAIN ns : c # a => new[c] = ns[c]
  BY <1>1 DEF PutIn
<1>9. \A c \in DOMAIN new : Fits(new[c]) /\ (new[c].leaf <=> lvl[c] = 0)
  BY <1>7, <1>8 DEF Pending
<1>10. SetsOf(new) = With(ns, a, e)
  BY <1>7, <1>8 DEF SetsOf, With
<1>11. TreeBy(new, lvl, span)
  BY <1>9, <1>10 DEF TreeBy, Pending
<1> QED BY <1>10, <1>11, StoreIs

\* ent with the entries of a divided at sep into a and half.
Halves(ent, a, sep, half) ==
  [c \in DOMAIN ent \cup {half} |->
     IF c = half THEN {x \in ent[a] : x.key >= sep}
     ELSE IF c = a THEN {x \in ent[a] : x.key < sep} ELSE ent[c]]

\* The block a of ent was split, and its parent does not yet know.
Halved(ns, ent, lvl, span, a, sep, half) ==
  /\ Shape(ent, lvl, span) /\ a \in DOMAIN ent /\ half \in AdminBlocks \ DOMAIN ent
  /\ sep \in Nat
  /\ \E x \in ent[a] : x.key < sep
  /\ \E x \in ent[a] : x.key = sep
  /\ SetsOf(ns) = Halves(ent, a, sep, half)
  /\ \A b \in DOMAIN ns : Fits(ns[b]) /\ (ns[b].leaf <=> (IF b = half THEN lvl[a] ELSE lvl[b]) = 0)

\* There is no room: the block is split.
LEMMA SplitRound ==
  ASSUME NEW ns, NEW lvl, NEW span, NEW a, NEW e, Pending(ns, lvl, span, a, e),
         Full(ns[a]),
         NEW s, s = ns[a].entries,
         NEW half \in AdminBlocks \ DOMAIN ns,
         NEW low, low = Holding(ns[a], LowerHalf(s, e)),
         NEW high, high = Holding(ns[a], UpperHalf(s, e)),
         NEW new, DOMAIN new = DOMAIN ns \cup {half}, new[half] = high, new[a] = low,
         \A c \in DOMAIN ns \ {a} : new[c] = ns[c]
  PROVE  Halved(new, With(ns, a, e), lvl, span, a, UpperHalf(s, e)[1].key, half)
<1> DEFINE X == IF ns[a].leaf THEN Extents ELSE Pointers
           sep == UpperHalf(s, e)[1].key
           ent == With(ns, a, e)
<1>1. a \in DOMAIN ns /\ Fits(ns[a]) /\ (ns[a].leaf <=> lvl[a] = 0)
      /\ \A x \in Range(s) : x.key # e.key
  BY PendingIs DEF Pending
<1>2. X \in SUBSET Items /\ s \in Seq(X) /\ Ascending(s) /\ e \in X /\ ns[a].leaf \in BOOLEAN
      /\ ns[a] = [leaf |-> ns[a].leaf, entries |-> s] /\ Len(s) <= Room(ns[a])
  BY <1>1, NodeIs, PendingIs
<1>3. Len(s) >= 2 /\ Room(ns[a]) \in Nat
  BY <1>2, ExtentTreeAssumption DEF Room, Full
<1>4. /\ LowerHalf(s, e) \in Seq(X) /\ Ascending(LowerHalf(s, e))
      /\ UpperHalf(s, e) \in Seq(X) /\ Ascending(UpperHalf(s, e))
      /\ Len(LowerHalf(s, e)) <= Len(s) /\ Len(UpperHalf(s, e)) <= Len(s)
      /\ Range(LowerHalf(s, e)) = {x \in Range(s) \cup {e} : x.key < sep}
      /\ Range(UpperHalf(s, e)) = {x \in Range(s) \cup {e} : x.key >= sep}
      /\ sep \in Nat
      /\ \E x \in Range(s) \cup {e} : x.key < sep
      /\ \E x \in Range(s) \cup {e} : x.key = sep
  <2> HIDE DEF X
  <2> QED BY SMTT(40), <1>1, <1>2, <1>3, Divided
<1>5. /\ DOMAIN ent = DOMAIN ns /\ ent[a] = Range(s) \cup {e}
      /\ \A b \in DOMAIN ns : b # a => ent[b] = Range(ns[b].entries)
      /\ Shape(ent, lvl, span)
  BY PendingIs DEF Pending
<1>6. /\ low = [leaf |-> ns[a].leaf, entries |-> LowerHalf(s, e)]
      /\ high = [leaf |-> ns[a].leaf, entries |-> UpperHalf(s, e)]
  BY <1>2 DEF Holding
<1> HIDE DEF sep, ent
<1>7. /\ Room(low) = Room(ns[a]) /\ Room(high) = Room(ns[a])
      /\ low.leaf = ns[a].leaf /\ low.entries = LowerHalf(s, e)
      /\ high.leaf = ns[a].leaf /\ high.entries = UpperHalf(s, e)
  BY <1>6 DEF Room
<1>8. Len(LowerHalf(s, e)) <= Room(ns[a]) /\ Len(UpperHalf(s, e)) <= Room(ns[a])
  BY <1>2, <1>3, <1>4
<1>9. Fits(low) /\ Fits(high)
  BY <1>2, <1>4, <1>6, <1>7, <1>8 DEF Fits
<1>10. ASSUME NEW b \in DOMAIN new
       PROVE  Fits(new[b]) /\ (new[b].leaf <=> (IF b = half THEN lvl[a] ELSE lvl[b]) = 0)
  <2>1. CASE b = half
    BY <2>1, <1>1, <1>7, <1>9
  <2>2. CASE b = a
    BY <2>2, <1>1, <1>7, <1>9
  <2>3. CASE b \in DOMAIN ns \ {a}
    BY <2>3 DEF Pending
  <2> QED BY <2>1, <2>2, <2>3
<1>11. SetsOf(new) = Halves(ent, a, sep, half)
  <2> DEFINE h == Halves(ent, a, sep, half)
  <2>1. /\ h = [c \in DOMAIN new |-> h[c]]
        /\ h[half] = {x \in ent[a] : x.key >= sep} /\ h[a] = {x \in ent[a] : x.key < sep}
        /\ \A c \in DOMAIN ns : c # a => h[c] = ent[c]
    BY <1>1, <1>5 DEF Halves
  <2> HIDE DEF h
  <2>2. \A c \in DOMAIN new : Range(new[c].entries) = h[c]
    <3> TAKE c \in DOMAIN new
    <3>1. CASE c = half
      BY <3>1, <2>1, <1>4, <1>5, <1>7
    <3>2. CASE c = a
      BY <3>2, <2>1, <1>4, <1>5, <1>7
    <3>3. CASE c \in DOMAIN ns \ {a}
      BY <3>3, <2>1, <1>5
    <3> QED BY <3>1, <3>2, <3>3
  <2>3. SetsOf(new) = h
    BY <2>1, <2>2 DEF SetsOf
  <2> QED BY <2>3 DEF h
<1>12. half \in AdminBlocks \ DOMAIN ent /\ a \in DOMAIN ent
  BY <1>1, <1>5
<1> QED BY <1>4, <1>5, <1>10, <1>11, <1>12 DEF Halved, sep, ent

\* The parent is to get a pointer to the new half.
LEMMA HalvedUp ==
  ASSUME NEW ns, NEW ent, NEW lvl, NEW span, NEW b, NEW sep, NEW half,
         Halved(ns, ent, lvl, span, b, sep, half),
         NEW a \in DOMAIN ent, lvl[a] # 0, NEW p \in ent[a], p.to = b
  PROVE  \E lvl2, span2 : /\ Pending(ns, lvl2, span2, a, Pointer(sep, half))
                          /\ Held(With(ns, a, Pointer(sep, half)), lvl2) = Held(ent, lvl)
                          /\ \A c \in DOMAIN ent : lvl2[c] = lvl[c]
<1> DEFINE q == Pointer(sep, half)
           new == SplitSets(ent, a, b, sep, half)
           lvl2 == SplitLevels(ent, lvl, b, half)
           span2 == SplitSpans(ent, span, b, sep, half)
<1>1. /\ Shape(ent, lvl, span) /\ b \in DOMAIN ent /\ half \in AdminBlocks \ DOMAIN ent
      /\ sep \in Nat
      /\ SetsOf(ns) = Halves(ent, b, sep, half)
      /\ \A c \in DOMAIN ns : Fits(ns[c]) /\ (ns[c].leaf <=> (IF c = half THEN lvl[b] ELSE lvl[c]) = 0)
  BY DEF Halved
<1>2. PICK low \in ent[b] : low.key < sep
  BY DEF Halved
<1>3. PICK high \in ent[b] : high.key = sep
  BY DEF Halved
<1>4. /\ Shape(new, lvl2, span2)
      /\ a # b /\ sep \in span[a] /\ \A x \in ent[a] : x.key # sep
  BY <1>1, <1>2, <1>3, SplitShape
<1>5. Held(new, lvl2) = Held(ent, lvl)
  BY <1>1, <1>4, SplitHeld
<1>6. DOMAIN ns = DOMAIN ent \cup {half} /\ \A c \in DOMAIN ns : Range(ns[c].entries) = Halves(ent, b, sep, half)[c]
  <2>1. DOMAIN SetsOf(ns) = DOMAIN ns /\ \A c \in DOMAIN ns : SetsOf(ns)[c] = Range(ns[c].entries)
    BY SetsIs
  <2>2. DOMAIN Halves(ent, b, sep, half) = DOMAIN ent \cup {half}
    BY DEF Halves
  <2> QED BY <1>1, <2>1, <2>2
<1>7. Range(ns[a].entries) = ent[a] /\ a \in DOMAIN ns /\ a # half
  BY <1>1, <1>4, <1>6 DEF Halves
<1>8. With(ns, a, q) = new
  <2>1. \A c \in DOMAIN ns : (IF c = a THEN Range(ns[a].entries) \cup {q} ELSE Range(ns[c].entries)) = new[c]
    <3> TAKE c \in DOMAIN ns
    <3>1. CASE c = a
      BY <3>1, <1>4, <1>7 DEF SplitSets
    <3>2. CASE c # a
      BY <3>2, <1>1, <1>6 DEF Halves, SplitSets
    <3> QED BY <3>1, <3>2
  <2>2. new = [c \in DOMAIN ns |-> new[c]]
    BY <1>6 DEF SplitSets
  <2> HIDE DEF new
  <2> QED BY <2>1, <2>2 DEF With
<1>9. \A c \in DOMAIN ent : lvl2[c] = lvl[c]
  BY <1>1 DEF SplitLevels
<1>10. \A c \in DOMAIN ns : Fits(ns[c]) /\ (ns[c].leaf <=> lvl2[c] = 0)
  BY <1>1, <1>6 DEF SplitLevels
<1>11. q.key = sep
  BY DEF Pointer
<1> HIDE DEF new, lvl2, span2, q
<1>12. Pending(ns, lvl2, span2, a, q)
  BY <1>4, <1>7, <1>8, <1>10, <1>11 DEF Pending
<1> QED BY <1>5, <1>8, <1>9, <1>12 DEF q

\* The root was split: its lower half moves, and a new root points to both.
LEMMA HalvedRoot ==
  ASSUME NEW ns, NEW ent, NEW lvl, NEW span, NEW sep, NEW half,
         Halved(ns, ent, lvl, span, Root, sep, half),
         NEW moved \in AdminBlocks \ DOMAIN ns,
         NEW new, DOMAIN new = DOMAIN ns \cup {moved}, new[moved] = ns[Root],
         new[Root] = Index(<<Pointer(0, moved), Pointer(sep, half)>>),
         \A c \in DOMAIN ns \ {Root} : new[c] = ns[c]
  PROVE  Tree(new) /\ Store(new) = Held(ent, lvl)
<1> DEFINE p == Pointer(0, moved)
           q == Pointer(sep, half)
           M == DOMAIN ent \cup {moved}
           ent1 == GrownSets(ent, moved)
           lvl1 == GrownLevels(ent, lvl, moved)
           span1 == GrownSpans(ent, span, moved)
           ns1 == [c \in DOMAIN ns \cup {moved} |->
                     IF c = Root THEN Index(<<p>>) ELSE IF c = moved THEN ns[Root] ELSE ns[c]]
<1>1. /\ Shape(ent, lvl, span) /\ Root \in DOMAIN ent /\ half \in AdminBlocks \ DOMAIN ent
      /\ sep \in Nat
      /\ SetsOf(ns) = Halves(ent, Root, sep, half)
      /\ \A c \in DOMAIN ns : Fits(ns[c]) /\ (ns[c].leaf <=> (IF c = half THEN lvl[Root] ELSE lvl[c]) = 0)
      /\ \E x \in ent[Root] : x.key < sep
      /\ \E x \in ent[Root] : x.key = sep
  BY DEF Halved
<1>2. /\ DOMAIN ns = DOMAIN ent \cup {half}
      /\ \A c \in DOMAIN ns : Range(ns[c].entries) = Halves(ent, Root, sep, half)[c]
  <2>1. DOMAIN SetsOf(ns) = DOMAIN ns /\ \A c \in DOMAIN ns : SetsOf(ns)[c] = Range(ns[c].entries)
    BY SetsIs
  <2>2. DOMAIN Halves(ent, Root, sep, half) = DOMAIN ent \cup {half}
    BY DEF Halves
  <2> QED BY <1>1, <2>1, <2>2
<1>3. moved \in AdminBlocks \ DOMAIN ent /\ moved # half /\ moved # Root /\ half # Root
      /\ lvl \in [DOMAIN ent -> Nat]
  BY <1>1, <1>2, ExtentTreeAssumption DEF Shape, Levels
<1>4. Shape(ent1, lvl1, span1)
  BY <1>1, <1>3, GrowShape
<1>5. Held(ent1, lvl1) = Held(ent, lvl)
  BY <1>1, <1>3, GrowHeld
<1>6. p \in Pointers /\ p.key = 0 /\ p.to = moved /\ q \in Pointers /\ q.key = sep /\ q.to = half
  BY <1>1, <1>3 DEF Pointers, Pointer, Block
<1>7. /\ DOMAIN ent1 = M /\ ent1[Root] = {p} /\ ent1[moved] = ent[Root]
      /\ \A c \in DOMAIN ent : c # Root => ent1[c] = ent[c]
      /\ lvl1[Root] = lvl[Root] + 1 /\ lvl1[moved] = lvl[Root]
      /\ \A c \in DOMAIN ent : c # Root => lvl1[c] = lvl[c]
      /\ lvl1[Root] # 0
  BY <1>1, <1>3 DEF GrownSets, GrownLevels
<1> HIDE DEF ent1, lvl1, span1
<1>8. \A x \in ent[Root] : x.key \in Nat
  BY <1>1 DEF Shape, Filled, Extents, Pointers
<1>9. 0 < sep
  BY <1>1, <1>8
<1>10. Fits(Index(<<p>>)) /\ Fits(Index(<<p, q>>))
  <2>1. /\ <<p>> \in Seq(Pointers) /\ Len(<<p>>) = 1 /\ Ascending(<<p>>)
        /\ <<p, q>> \in Seq(Pointers) /\ Len(<<p, q>>) = 2
    BY <1>6 DEF Ascending
  <2>2. Ascending(<<p, q>>)
    BY <1>6, <1>9 DEF Ascending
  <2>3. 1 <= IndexMax /\ 2 <= IndexMax
    BY ExtentTreeAssumption
  <2> HIDE DEF p, q
  <2> QED BY <2>1, <2>2, <2>3 DEF Fits, Index, Room
<1>11. /\ DOMAIN ns1 = DOMAIN ns \cup {moved} /\ ns1[Root] = Index(<<p>>) /\ ns1[moved] = ns[Root]
       /\ \A c \in DOMAIN ns : c # Root => ns1[c] = ns[c]
       /\ Root \in DOMAIN ns
  BY <1>1, <1>2, <1>3
<1> HIDE DEF ns1
<1>12. /\ Range(<<p>>) = {p} /\ Index(<<p>>).entries = <<p>> /\ ~Index(<<p>>).leaf
       /\ Range(<<p, q>>) = {p, q} /\ Index(<<p, q>>).entries = <<p, q>> /\ ~Index(<<p, q>>).leaf
  <2>1. /\ DOMAIN <<p>> = {1} /\ <<p>>[1] = p /\ DOMAIN <<p, q>> = {1, 2}
        /\ <<p, q>>[1] = p /\ <<p, q>>[2] = q
    OBVIOUS
  <2> HIDE DEF p, q
  <2> QED BY <2>1 DEF Range, Index
<1>13. SetsOf(ns1) = Halves(ent1, moved, sep, half)
  <2> DEFINE h == Halves(ent1, moved, sep, half)
             g == Halves(ent, Root, sep, half)
  <2>1. /\ DOMAIN h = DOMAIN ns1 /\ h = [c \in DOMAIN h |-> h[c]]
        /\ h[half] = {x \in ent[Root] : x.key >= sep} /\ h[moved] = {x \in ent[Root] : x.key < sep}
        /\ h[Root] = {p} /\ \A c \in DOMAIN ent : c # Root => h[c] = ent[c]
    BY <1>1, <1>2, <1>3, <1>7, <1>11 DEF Halves
  <2>2. /\ g[half] = {x \in ent[Root] : x.key >= sep} /\ g[Root] = {x \in ent[Root] : x.key < sep}
        /\ \A c \in DOMAIN ent : c # Root => g[c] = ent[c]
    BY <1>1, <1>3 DEF Halves
  <2> HIDE DEF h, g
  <2>3. \A c \in DOMAIN ns1 : Range(ns1[c].entries) = h[c]
    <3> TAKE c \in DOMAIN ns1
    <3>1. CASE c = Root
      BY <3>1, <2>1, <1>11, <1>12
    <3>2. CASE c = moved
      BY <3>2, <2>1, <2>2, <1>2, <1>11 DEF g
    <3>3. CASE c = half
      BY <3>3, <2>1, <2>2, <1>2, <1>3, <1>11 DEF g
    <3>4. CASE c \in DOMAIN ent \ {Root}
      BY <3>4, <2>1, <2>2, <1>2, <1>11 DEF g
    <3> QED BY <3>1, <3>2, <3>3, <3>4, <1>2, <1>11
  <2>4. SetsOf(ns1) = h
    BY <2>1, <2>3 DEF SetsOf
  <2> QED BY <2>4 DEF h
<1>14. ASSUME NEW c \in DOMAIN ns1
       PROVE  Fits(ns1[c]) /\ (ns1[c].leaf <=> (IF c = half THEN lvl1[moved] ELSE lvl1[c]) = 0)
  <2>1. CASE c = Root
    BY <2>1, <1>3, <1>7, <1>10, <1>11, <1>12
  <2>2. CASE c = moved
    BY <2>2, <1>1, <1>3, <1>7, <1>11
  <2>3. CASE c = half
    BY <2>3, <1>1, <1>2, <1>3, <1>7, <1>11
  <2>4. CASE c \in DOMAIN ent \ {Root}
    <3>1. c # half /\ ns1[c] = ns[c] /\ lvl1[c] = lvl[c] /\ c \in DOMAIN ns
      BY <2>4, <1>1, <1>2, <1>7, <1>11
    <3> QED BY <3>1, <1>1
  <2> QED BY <2>1, <2>2, <2>3, <2>4, <1>2, <1>11
<1>15. Halved(ns1, ent1, lvl1, span1, moved, sep, half)
  <2>1. moved \in DOMAIN ent1 /\ half \in AdminBlocks \ DOMAIN ent1
    BY <1>1, <1>3, <1>7
  <2> QED BY <2>1, <1>1, <1>4, <1>7, <1>13, <1>14 DEF Halved
<1>16. PICK lvl2, span2 : /\ Pending(ns1, lvl2, span2, Root, q)
                          /\ Held(With(ns1, Root, q), lvl2) = Held(ent1, lvl1)
                          /\ \A c \in DOMAIN ent1 : lvl2[c] = lvl1[c]
  BY <1>6, <1>7, <1>15, <1>1, HalvedUp
<1>17. SetsOf(new) = With(ns1, Root, q)
  <2>1. DOMAIN new = DOMAIN ns1 /\ \A c \in DOMAIN ns1 : c # Root => new[c] = ns1[c]
    BY <1>1, <1>2, <1>3, <1>11
  <2>2. Range(new[Root].entries) = Range(ns1[Root].entries) \cup {q}
    BY <1>11, <1>12
  <2> QED BY <2>1, <2>2 DEF SetsOf, With
<1>18. \A c \in DOMAIN new : Fits(new[c]) /\ (new[c].leaf <=> lvl2[c] = 0)
  <2> TAKE c \in DOMAIN new
  <2>1. \A d \in DOMAIN ns1 : Fits(ns1[d]) /\ (ns1[d].leaf <=> lvl2[d] = 0)
    BY <1>16 DEF Pending
  <2>2. CASE c = Root
    <3>1. lvl2[Root] # 0
      BY <1>7, <1>16, <1>1
    <3> QED BY <2>2, <3>1, <1>10, <1>12
  <2>3. CASE c # Root
    <3>1. c \in DOMAIN ns1 /\ new[c] = ns1[c]
      BY <2>3, <1>1, <1>2, <1>3, <1>11
    <3> QED BY <3>1, <2>1
  <2> QED BY <2>2, <2>3
<1>19. TreeBy(new, lvl2, span2)
  BY <1>16, <1>17, <1>18 DEF TreeBy, Pending
<1> QED BY <1>5, <1>16, <1>17, <1>19, StoreIs DEF Tree

\* The blocks p[1] to p[m], from the root down, are each pointed to by the one
\* before.
Climbs(ns, lvl, p, m) ==
  /\ p[1] = Root
  /\ \A i \in 1..m : p[i] \in DOMAIN ns /\ lvl[p[i]] = lvl[Root] + 1 - i
  /\ \A i \in 2..m : \E x \in Range(ns[p[i - 1]].entries) : x.to = p[i]

Yes == TRUE
No == FALSE
IsWork(w) == w = [vol |-> w.vol, item |-> w.item, done |-> w.done]

\* How far an insertion of an extent is that leads to the store S, when the
\* blocks p[1] to p[m] are still to be visited.
Inserting(w, p, m, S, U) ==
  /\ IsWork(w)
  /\ IsVolume(w.vol) /\ w.vol.used = U /\ w.vol.raised \in BOOLEAN /\ w.done \in BOOLEAN
  /\ w.done /\ ~w.vol.raised => Tree(w.vol.nodes) /\ Store(w.vol.nodes) = S
  /\ ~w.done => ~w.vol.raised
  /\ ~w.done /\ m > 0 =>
       \E lvl, span : /\ Pending(w.vol.nodes, lvl, span, p[m], w.item)
                      /\ Held(With(w.vol.nodes, p[m], w.item), lvl) = S
                      /\ Climbs(w.vol.nodes, lvl, p, m)
  /\ ~w.done /\ m = 0 =>
       \E ent, lvl, span, sep, half :
         /\ Halved(w.vol.nodes, ent, lvl, span, Root, sep, half) /\ Held(ent, lvl) = S
         /\ w.item = Pointer(sep, half)

\* A block of the admin space that the tree does not use.
LEMMA NewAdminIs ==
  ASSUME NEW v, FreeAdmin(v) # {}
  PROVE  NewAdmin(v) \in AdminBlocks \ DOMAIN v.nodes
<1>1. FreeAdmin(v) \in SUBSET Nat
  BY ExtentTreeAssumption DEF FreeAdmin
<1>2. Min(FreeAdmin(v)) \in FreeAdmin(v)
  BY <1>1, MinIs
<1> QED BY <1>2 DEF NewAdmin, FreeAdmin

\* What a round does when the item is not yet in its place.
LEMMA RoundIs ==
  ASSUME NEW w, IsWork(w), w.done = No,
         NEW b, NEW v, v = w.vol, NEW s, s = v.nodes[b].entries
  PROVE  /\ IsWork(Round(w, b))
         /\ ~Full(v.nodes[b]) =>
              /\ Round(w, b).vol = Put(v, b, Holding(v.nodes[b], Place(s, w.item)))
              /\ Round(w, b).item = w.item /\ Round(w, b).done = Yes
         /\ Full(v.nodes[b]) /\ FreeAdmin(v) = {} =>
              /\ Round(w, b).vol = Raised(v)
              /\ Round(w, b).item = w.item /\ Round(w, b).done = Yes
         /\ Full(v.nodes[b]) /\ FreeAdmin(v) # {} =>
              /\ Round(w, b).vol = Put(Put(v, b, Holding(v.nodes[b], LowerHalf(s, w.item))),
                                      NewAdmin(v), Holding(v.nodes[b], UpperHalf(s, w.item)))
              /\ Round(w, b).item = Pointer(UpperHalf(s, w.item)[1].key, NewAdmin(v))
              /\ Round(w, b).done = No
<1>1. CASE ~Full(v.nodes[b])
  <2> DEFINE u == Put(v, b, Holding(v.nodes[b], Place(s, w.item)))
             m == [w EXCEPT !.vol = u]
  <2>1. Round(w, b) = [w EXCEPT !.vol = u, !.done = Yes]
    BY <1>1 DEF Round, Holding, Full, Yes, No
  <2> HIDE DEF u
  <2>2. m = [vol |-> u, item |-> w.item, done |-> w.done]
    BY DEF IsWork
  <2>3. [w EXCEPT !.vol = u, !.done = Yes] = [m EXCEPT !.done = Yes]
    OBVIOUS
  <2> HIDE DEF m
  <2>4. [m EXCEPT !.done = Yes] = [vol |-> u, item |-> w.item, done |-> Yes]
    BY ONLY <2>2
  <2>5. Round(w, b) = [vol |-> u, item |-> w.item, done |-> Yes]
    BY <2>1, <2>3, <2>4
  <2>6. /\ IsWork(Round(w, b)) /\ Round(w, b).vol = u
        /\ Round(w, b).item = w.item /\ Round(w, b).done = Yes
    BY <2>5 DEF IsWork
  <2> QED BY <1>1, <2>6 DEF u
<1>2. CASE Full(v.nodes[b]) /\ FreeAdmin(v) = {}
  <2> DEFINE u == Raised(v)
             m == [w EXCEPT !.vol = u]
  <2>1. Round(w, b) = [w EXCEPT !.vol = u, !.done = Yes]
    BY <1>2 DEF Round, Holding, Full, Yes, No
  <2> HIDE DEF u
  <2>2. m = [vol |-> u, item |-> w.item, done |-> w.done]
    BY DEF IsWork
  <2>3. [w EXCEPT !.vol = u, !.done = Yes] = [m EXCEPT !.done = Yes]
    OBVIOUS
  <2> HIDE DEF m
  <2>4. [m EXCEPT !.done = Yes] = [vol |-> u, item |-> w.item, done |-> Yes]
    BY ONLY <2>2
  <2>5. Round(w, b) = [vol |-> u, item |-> w.item, done |-> Yes]
    BY <2>1, <2>3, <2>4
  <2>6. /\ IsWork(Round(w, b)) /\ Round(w, b).vol = u
        /\ Round(w, b).item = w.item /\ Round(w, b).done = Yes
    BY <2>5 DEF IsWork
  <2> QED BY <1>2, <2>6 DEF u
<1>3. CASE Full(v.nodes[b]) /\ FreeAdmin(v) # {}
  <2> DEFINE u == Put(Put(v, b, Holding(v.nodes[b], LowerHalf(s, w.item))),
                      NewAdmin(v), Holding(v.nodes[b], UpperHalf(s, w.item)))
             q == Pointer(UpperHalf(s, w.item)[1].key, NewAdmin(v))
             m == [w EXCEPT !.vol = u]
  <2>1. Round(w, b) = [w EXCEPT !.vol = u, !.item = q]
    BY <1>3 DEF Round, Holding, Full, Yes, No, LowerHalf, UpperHalf
  <2> HIDE DEF u, q
  <2>2. m = [vol |-> u, item |-> w.item, done |-> w.done]
    BY DEF IsWork
  <2>3. [w EXCEPT !.vol = u, !.item = q] = [m EXCEPT !.item = q]
    OBVIOUS
  <2> HIDE DEF m
  <2>4. [m EXCEPT !.item = q] = [vol |-> u, item |-> q, done |-> w.done]
    BY ONLY <2>2
  <2>5. Round(w, b) = [vol |-> u, item |-> q, done |-> w.done]
    BY <2>1, <2>3, <2>4
  <2>6. /\ IsWork(Round(w, b)) /\ Round(w, b).vol = u
        /\ Round(w, b).item = q /\ Round(w, b).done = w.done
    BY <2>5 DEF IsWork
  <2> QED BY SMTT(40), <1>3, <2>6 DEF u, q
<1> QED BY <1>1, <1>2, <1>3

\* A round of _insert_bnode keeps to what Inserting says.
LEMMA RoundKeeps ==
  ASSUME NEW w, NEW p, NEW m \in Nat, m > 0, NEW S, NEW U, Inserting(w, p, m, S, U)
  PROVE  Inserting(Round(w, p[m]), p, m - 1, S, U)
<1> DEFINE v == w.vol
           e == w.item
           ns == v.nodes
           b == p[m]
           s == ns[b].entries
           r == Round(w, b)
<1> SUFFICES Inserting(r, p, m - 1, S, U)
  OBVIOUS
<1>1. /\ IsWork(w)
      /\ IsVolume(v) /\ v.used = U /\ v.raised \in BOOLEAN /\ w.done \in BOOLEAN
      /\ w.done /\ ~v.raised => Tree(ns) /\ Store(ns) = S
      /\ ~w.done => ~v.raised
  BY DEF Inserting
<1>2. CASE w.done
  <2>1. r = w
    BY <1>2 DEF Round
  <2> HIDE DEF r
  <2> QED BY <1>1, <1>2, <2>1 DEF Inserting
<1>3. CASE ~w.done
  <2>0. Yes = TRUE /\ No = FALSE /\ w.done = No /\ v.raised = No
    BY <1>1, <1>3 DEF Yes, No
  <2>1. PICK lvl, span : /\ Pending(ns, lvl, span, b, e) /\ Held(With(ns, b, e), lvl) = S
                         /\ Climbs(ns, lvl, p, m)
    BY <1>3 DEF Inserting
  <2>2. IsWork(r)
    BY <1>1, <2>0, RoundIs
  <2>3. /\ DOMAIN With(ns, b, e) = DOMAIN ns /\ lvl \in [DOMAIN ns -> Nat] /\ b \in DOMAIN ns
        /\ With(ns, b, e)[b] = Range(s) \cup {e}
        /\ \A c \in DOMAIN ns : c # b => With(ns, b, e)[c] = Range(ns[c].entries)
        /\ Shape(With(ns, b, e), lvl, span)
    BY <2>1, PendingIs DEF Pending
  <2>20. v = w.vol /\ e = w.item /\ r = Round(w, b)
    OBVIOUS
  <2>21. IsWork(w) /\ w.done = No
    BY <1>1, <2>0
  <2> HIDE DEF v, e, b, r
  <2>4. CASE ~Full(ns[b])
    <3> DEFINE node == Holding(ns[b], Place(s, e))
               u == Put(v, b, node)
    <3>1. r.vol = u /\ r.item = e /\ r.done = Yes
      BY <2>4, <2>20, <2>21, RoundIs
    <3> HIDE DEF node
    <3>2. IsVolume(u) /\ u.used = U /\ u.raised = No
      BY <1>1, <2>0, PutIs
    <3>3. u.nodes = PutIn(ns, b, node)
      BY <1>1, PutIs
    <3>4. Tree(u.nodes) /\ Store(u.nodes) = S
      <4>1. TreeBy(u.nodes, lvl, span) /\ Store(u.nodes) = Held(With(ns, b, e), lvl)
        BY <2>1, <2>4, <3>3, RoomRound DEF node
      <4> QED BY <4>1, <2>1 DEF Tree
    <3> HIDE DEF u
    <3>6. r.done \in BOOLEAN /\ r.done /\ u.raised \in BOOLEAN
      BY <3>1, <3>2, <2>0
    <3> QED BY <2>2, <3>1, <3>2, <3>4, <3>6 DEF Inserting
  <2>5. CASE Full(ns[b]) /\ FreeAdmin(v) = {}
    <3> DEFINE u == Raised(v)
    <3>1. r.vol = u /\ r.item = e /\ r.done = Yes
      BY <2>5, <2>20, <2>21, RoundIs
    <3>2. IsVolume(u) /\ u.used = U /\ u.raised = Yes
      BY <1>1, <2>0, RaisedIs
    <3> HIDE DEF u
    <3>4. r.done \in BOOLEAN /\ r.done /\ u.raised \in BOOLEAN /\ u.raised
      BY <3>1, <3>2, <2>0
    <3> QED BY <2>2, <3>1, <3>2, <3>4 DEF Inserting
  <2>6. CASE Full(ns[b]) /\ FreeAdmin(v) # {}
    <3> DEFINE half == NewAdmin(v)
               low == Holding(ns[b], LowerHalf(s, e))
               high == Holding(ns[b], UpperHalf(s, e))
               sep == UpperHalf(s, e)[1].key
               v1 == Put(v, b, low)
               u == Put(v1, half, high)
               q == Pointer(sep, half)
               ent == With(ns, b, e)
    <3>1. r.vol = u /\ r.item = q /\ r.done = No
      BY <2>6, <2>20, <2>21, RoundIs
    <3>2. half \in AdminBlocks \ DOMAIN ns
      BY <2>6, NewAdminIs
    <3> HIDE DEF low, high, half
    <3>3. /\ IsVolume(v1) /\ v1.used = U /\ v1.raised = No
          /\ v1.nodes = PutIn(ns, b, low)
      BY <1>1, <2>0, PutIs
    <3> HIDE DEF v1
    <3>4. /\ IsVolume(u) /\ u.used = U /\ u.raised = No
          /\ u.nodes = PutIn(v1.nodes, half, high)
      BY <3>3, PutIs
    <3> HIDE DEF u
    <3>5. /\ DOMAIN u.nodes = DOMAIN ns \cup {half}
          /\ u.nodes[half] = high /\ u.nodes[b] = low
          /\ \A c \in DOMAIN ns \ {b} : u.nodes[c] = ns[c]
      BY <2>3, <3>2, <3>3, <3>4 DEF PutIn
    <3>6. Halved(u.nodes, ent, lvl, span, b, sep, half)
      <4> HIDE DEF s
      <4> QED BY <2>1, <2>6, <3>2, <3>5, SplitRound DEF low, high, s
    <3> HIDE DEF sep, q, ent
    <3>7. /\ r.vol = u /\ r.item = q /\ IsWork(r)
          /\ r.done \in BOOLEAN /\ ~r.done /\ u.raised \in BOOLEAN /\ ~u.raised
      BY <3>1, <3>4, <2>0, <2>2
    <3>8. CASE m = 1
      <4>1. b = Root
        BY <3>8, <2>1 DEF Climbs, b
      <4>2. \E ent0, lvl0, span0, sep0, half0 :
              /\ Halved(u.nodes, ent0, lvl0, span0, Root, sep0, half0) /\ Held(ent0, lvl0) = S
              /\ q = Pointer(sep0, half0)
        BY <4>1, <3>6, <2>1 DEF ent, q
      <4>3. m - 1 = 0
        BY <3>8
      <4> QED BY <4>2, <4>3, <3>4, <3>7 DEF Inserting
    <3>9. CASE m > 1
      <4> DEFINE a == p[m - 1]
      <4>1. /\ m \in 2..m /\ m - 1 \in 1..m /\ m \in 1..m
        BY <3>9
      <4>2. PICK x \in Range(ns[a].entries) : x.to = b
        BY <4>1, <2>1 DEF Climbs, b
      <4>3. a \in DOMAIN ns /\ lvl[a] = lvl[Root] + 1 - (m - 1) /\ lvl[b] = lvl[Root] + 1 - m
        BY <4>1, <2>1 DEF Climbs, b
      <4>4. lvl[Root] \in Nat
        BY <2>3 DEF Shape, Levels
      <4>5. lvl[a] = lvl[b] + 1 /\ lvl[a] # 0 /\ a # b
        BY <2>3, <4>3, <4>4
      <4>6. x \in ent[a] /\ a \in DOMAIN ent
        BY <2>3, <4>2, <4>3, <4>5 DEF ent
      <4>7. PICK lvl2, span2 : /\ Pending(u.nodes, lvl2, span2, a, q)
                               /\ Held(With(u.nodes, a, q), lvl2) = Held(ent, lvl)
                               /\ \A c \in DOMAIN ent : lvl2[c] = lvl[c]
        BY <3>6, <4>2, <4>5, <4>6, HalvedUp DEF q
      <4>8. Climbs(u.nodes, lvl2, p, m - 1)
        <5>1. p[1] = Root /\ Root \in DOMAIN ns
          <6>1. 1 \in 1..m
            OBVIOUS
          <6> QED BY <6>1, <2>1 DEF Climbs
        <5>2. \A i \in 1..m-1 : p[i] \in DOMAIN ns /\ lvl[p[i]] = lvl[Root] + 1 - i /\ p[i] # b
          <6> TAKE i \in 1..m-1
          <6>1. i \in 1..m /\ i # m
            OBVIOUS
          <6>2. p[i] \in DOMAIN ns /\ lvl[p[i]] = lvl[Root] + 1 - i
            BY <6>1, <2>1 DEF Climbs
          <6> QED BY <6>1, <6>2, <4>3, <4>4
        <5>3. \A i \in 1..m-1 : p[i] \in DOMAIN u.nodes /\ lvl2[p[i]] = lvl2[Root] + 1 - i
          BY <5>1, <5>2, <4>7, <3>5, <2>3 DEF ent
        <5>4. \A i \in 2..m-1 : \E y \in Range(u.nodes[p[i - 1]].entries) : y.to = p[i]
          <6> TAKE i \in 2..m-1
          <6>1. i \in 2..m /\ i - 1 \in 1..m-1
            OBVIOUS
          <6>2. u.nodes[p[i - 1]] = ns[p[i - 1]]
            BY <6>1, <5>2, <3>5
          <6> QED BY <6>1, <6>2, <2>1 DEF Climbs
        <5> QED BY <5>1, <5>3, <5>4 DEF Climbs
      <4>9. \E lvl0, span0 : /\ Pending(u.nodes, lvl0, span0, p[m - 1], q)
                             /\ Held(With(u.nodes, p[m - 1], q), lvl0) = S
                             /\ Climbs(u.nodes, lvl0, p, m - 1)
        BY <4>7, <4>8, <2>1 DEF ent
      <4>10. m - 1 > 0 /\ m - 1 # 0
        BY <3>9
      <4> QED BY <4>9, <4>10, <3>4, <3>7 DEF Inserting
    <3> QED BY <3>8, <3>9
  <2> QED BY <2>4, <2>5, <2>6
<1> QED BY <1>1, <1>2, <1>3

\* Before the first round the extent is to be put into its leaf.
LEMMA InsertingFrom ==
  ASSUME NEW v, IsVolume(v), v.raised = No, Tree(v.nodes), NEW e \in Extents,
         \A x \in Store(v.nodes) : x.key # e.key
  PROVE  /\ Len(Path(v, e.key)) \in Nat
         /\ Inserting([vol |-> v, item |-> e, done |-> FALSE], Path(v, e.key), Len(Path(v, e.key)),
                      Store(v.nodes) \cup {e}, v.used)
<1> DEFINE ns == v.nodes
           p == Path(v, e.key)
           m == Len(p)
           b == p[m]
           ent == SetsOf(ns)
           E == Range(ns[b].entries) \cup {e}
           w == [vol |-> v, item |-> e, done |-> No]
<1>1. PICK lvl, span : TreeBy(ns, lvl, span)
  BY DEF Tree
<1>2. e.key \in Nat
  BY DEF Extents
<1>3. Leads(ns, lvl, span, p, e.key) /\ m = lvl[Root] + 1
  BY <1>1, <1>2, PathIs
<1>4. Shape(ent, lvl, span) /\ lvl[Root] \in Nat /\ DOMAIN ent = DOMAIN ns
      /\ \A c \in DOMAIN ns : ent[c] = Range(ns[c].entries)
  BY <1>1, LevelsFewer, SetsIs DEF TreeBy
<1>5. b \in DOMAIN ns /\ lvl[b] = 0 /\ e.key \in span[b]
  <2>1. LeafOf(v, e.key) = b
    BY DEF LeafOf, Last
  <2> QED BY <2>1, <1>1, <1>2, LeafIs
<1>6. ns[b].leaf
  BY <1>1, <1>5 DEF TreeBy
<1>7. \A x \in Range(ns[b].entries) : x.key # e.key
  BY <1>5, <1>6 DEF Store
<1>8. m \in Nat /\ m > 0
  BY <1>3, <1>4
<1>9. Climbs(ns, lvl, p, m)
  BY <1>3, <1>8 DEF Leads, Climbs
<1> HIDE DEF p, m, b
<1>10. E \in SUBSET Extents /\ \A x \in E : x.key \in span[b] /\ \A y \in E : x.key = y.key => x = y
  <2>1. /\ ent[b] \subseteq Extents /\ \A x \in ent[b] : x.key \in span[b]
        /\ \A x, y \in ent[b] : x.key = y.key => x = y
    BY <1>4, <1>5 DEF Shape, Filled
  <2> QED BY <2>1, <1>4, <1>5, <1>7
<1> HIDE DEF ent, E
<1>11. Shape([ent EXCEPT ![b] = E], lvl, span)
  <2>1. b \in DOMAIN ent
    BY <1>4, <1>5
  <2>2. \A x, y \in E : x.key = y.key => x = y
    BY <1>10
  <2> QED BY <2>1, <2>2, <1>4, <1>5, <1>10, LeafShape
<1>12. With(ns, b, e) = [ent EXCEPT ![b] = E]
  BY <1>4, <1>5 DEF With, E, ent, SetsOf
<1>13. Pending(ns, lvl, span, b, e)
  BY <1>1, <1>5, <1>7, <1>11, <1>12 DEF Pending, TreeBy
<1>14. Held(With(ns, b, e), lvl) = Store(ns) \cup {e}
  <2>1. \A x : x \in Held([ent EXCEPT ![b] = E], lvl) <=> x \in E \/ (x \in Held(ent, lvl) /\ x \notin ent[b])
    <3>1. b \in DOMAIN ent
      BY <1>4, <1>5
    <3> QED BY <3>1, <1>4, <1>5, LeafHeld
  <2>2. Held(ent, lvl) = Store(ns)
    BY <1>1, StoreIs DEF ent
  <2>3. ent[b] = Range(ns[b].entries) /\ \A x \in ent[b] : x \in Store(ns)
    BY <1>4, <1>5, <1>6 DEF Store
  <2>4. \A x : x \in Held([ent EXCEPT ![b] = E], lvl) <=> x \in Store(ns) \cup {e}
    BY <2>1, <2>2, <2>3 DEF E
  <2> QED BY <2>4, <1>12
<1>15. w.vol = v /\ w.item = e /\ w.done = No /\ IsWork(w)
  BY DEF IsWork
<1>16. /\ w.done \in BOOLEAN /\ ~w.done /\ v.raised \in BOOLEAN /\ ~v.raised
  BY <1>15 DEF No
<1>17. \E lvl0, span0 : /\ Pending(ns, lvl0, span0, p[m], e)
                        /\ Held(With(ns, p[m], e), lvl0) = Store(ns) \cup {e}
                        /\ Climbs(ns, lvl0, p, m)
  BY <1>9, <1>13, <1>14 DEF b
<1>18. m # 0
  BY <1>8
<1> HIDE DEF w
<1>19. Inserting(w, p, m, Store(ns) \cup {e}, v.used)
  BY <1>15, <1>16, <1>17, <1>18 DEF Inserting
<1> QED BY <1>8, <1>19 DEF w, p, m, No

\* What the rounds and the new root make of it.
LEMMA InsertIs ==
  ASSUME NEW v, IsVolume(v), v.raised = No, Tree(v.nodes), NEW e \in Extents,
         \A x \in Store(v.nodes) : x.key # e.key,
         NEW r, r = Insert(v, Path(v, e.key), e)
  PROVE  /\ IsVolume(r) /\ r.used = v.used /\ r.raised \in BOOLEAN
         /\ ~r.raised => Tree(r.nodes) /\ Store(r.nodes) = Store(v.nodes) \cup {e}
<1> DEFINE p == Path(v, e.key)
           L == Len(p)
           S == Store(v.nodes) \cup {e}
           w0 == [vol |-> v, item |-> e, done |-> FALSE]
           Goes(f, m) == f = [n \in 0..m |-> IF n = 0 THEN w0 ELSE Round(f[n - 1], p[L - n + 1])]
           T == {m \in Nat : \E f : Goes(f, m)}
<1>1. L \in Nat /\ Inserting(w0, p, L, S, v.used)
  BY InsertingFrom
<1> HIDE DEF w0, S
<1>2. 0 \in T
  <2>1. Goes([n \in 0..0 |-> w0], 0)
    OBVIOUS
  <2> QED BY <2>1
<1>3. ASSUME NEW m \in Nat, m \in T PROVE m + 1 \in T
  <2>1. PICK f : Goes(f, m)
    BY <1>3
  <2> DEFINE g == [n \in 0..m+1 |-> IF n = m + 1 THEN Round(f[m], p[L - (m + 1) + 1]) ELSE f[n]]
  <2>2. \A n \in 0..m+1 : g[n] = IF n = 0 THEN w0 ELSE Round(g[n - 1], p[L - n + 1])
    <3> TAKE n \in 0..m+1
    <3>1. CASE n = m + 1
      <4>1. g[n] = Round(f[m], p[L - n + 1]) /\ g[n - 1] = f[m] /\ n # 0
        BY <3>1
      <4> QED BY <4>1
    <3>2. CASE n \in 0..m /\ n # 0
      <4>1. g[n] = f[n] /\ g[n - 1] = f[n - 1]
        BY <3>2
      <4> QED BY <4>1, <3>2, <2>1
    <3>3. CASE n = 0
      BY <3>3, <2>1
    <3> QED BY <3>1, <3>2, <3>3
  <2>3. Goes(g, m + 1)
    <3>1. g = [n \in 0..m+1 |-> g[n]]
      OBVIOUS
    <3> HIDE DEF g
    <3> QED BY <3>1, <2>2
  <2> HIDE DEF Goes, g
  <2> QED BY <2>3
<1>4. \E f : Goes(f, L)
  <2>1. \A m \in Nat : m \in T
    <3> HIDE DEF T
    <3> QED BY <1>2, <1>3, ExtentInduction
  <2> QED BY <1>1, <2>1
<1> DEFINE f == CHOOSE h : Goes(h, L)
<1>5. Goes(f, L)
  <2> HIDE DEF Goes
  <2> QED BY <1>4
<1>6. r = Grown(f[L])
  BY DEF Insert, w0
<1> HIDE DEF f
<1>7. f[0] = w0 /\ \A n \in 1..L : f[n] = Round(f[n - 1], p[L - n + 1])
  <2>1. f[0] = w0
    BY <1>1, <1>5
  <2>2. \A n \in 1..L : f[n] = Round(f[n - 1], p[L - n + 1])
    BY <1>1, <1>5
  <2> QED BY <2>1, <2>2
<1> DEFINE I == {n \in Nat : n <= L => Inserting(f[n], p, L - n, S, v.used)}
<1> HIDE DEF p, L
<1>8. 0 \in I
  <2>1. L - 0 = L
    BY <1>1
  <2> QED BY <1>1, <1>7, <2>1
<1>9. ASSUME NEW n \in Nat, n \in I PROVE n + 1 \in I
  <2> SUFFICES ASSUME n + 1 <= L PROVE Inserting(f[n + 1], p, L - (n + 1), S, v.used)
    BY <1>9
  <2> DEFINE m == L - n
  <2>1. m \in Nat /\ m > 0 /\ n + 1 \in 1..L /\ (n + 1) - 1 = n /\ L - (n + 1) + 1 = m /\ n <= L
        /\ L - (n + 1) = m - 1
    BY <1>1
  <2>2. f[n + 1] = Round(f[n], p[m]) /\ Inserting(f[n], p, m, S, v.used)
    BY <1>7, <1>9, <2>1
  <2> HIDE DEF m
  <2>3. Inserting(Round(f[n], p[m]), p, m - 1, S, v.used)
    BY <2>1, <2>2, RoundKeeps
  <2> QED BY <2>1, <2>2, <2>3
<1>10. \A n \in Nat : n \in I
  <2> HIDE DEF I
  <2> QED BY <1>8, <1>9, ExtentInduction
<1>11. Inserting(f[L], p, 0, S, v.used)
  <2>1. L - L = 0 /\ L <= L
    BY <1>1
  <2> QED BY <1>1, <1>10, <2>1
<1> DEFINE w == f[L]
           u == w.vol
<1>12. /\ IsVolume(u) /\ u.used = v.used /\ u.raised \in BOOLEAN
       /\ w.done /\ ~u.raised => Tree(u.nodes) /\ Store(u.nodes) = S
       /\ w.done \in BOOLEAN
  BY <1>11 DEF Inserting
<1> HIDE DEF w
<1>13. CASE w.done
  <2>1. r = u
    BY <1>6, <1>13 DEF Grown, w
  <2> QED BY <1>12, <1>13, <2>1 DEF S
<1>14. CASE ~w.done /\ FreeAdmin(u) = {}
  <2>1. r = Raised(u)
    BY <1>6, <1>14 DEF Grown, w
  <2> QED BY ZenonT(40), <1>12, <2>1, RaisedIs
<1>15. CASE ~w.done /\ FreeAdmin(u) # {}
  <2>1. PICK ent, lvl, span, sep, half :
          /\ Halved(u.nodes, ent, lvl, span, Root, sep, half) /\ Held(ent, lvl) = S
          /\ w.item = Pointer(sep, half)
    BY <1>11, <1>15 DEF Inserting, w
  <2> DEFINE moved == NewAdmin(u)
             node == Index(<<Pointer(0, moved), w.item>>)
             u1 == Put(u, moved, u.nodes[Root])
  <2>2. r = Put(u1, Root, node)
    BY <1>6, <1>15 DEF Grown, w
  <2>3. moved \in AdminBlocks \ DOMAIN u.nodes
    BY <1>15, NewAdminIs
  <2>4. IsVolume(u1) /\ u1.used = v.used /\ u1.raised = u.raised
        /\ u1.nodes = PutIn(u.nodes, moved, u.nodes[Root])
    BY <1>12, PutIs
  <2> HIDE DEF u1, moved
  <2>5. IsVolume(r) /\ r.used = v.used /\ r.raised = u.raised /\ r.nodes = PutIn(u1.nodes, Root, node)
    BY <2>2, <2>4, PutIs
  <2>6. Root \in DOMAIN u.nodes
    <3>1. Root \in DOMAIN ent /\ SetsOf(u.nodes) = Halves(ent, Root, sep, half)
      BY <2>1 DEF Halved
    <3>2. Root \in DOMAIN Halves(ent, Root, sep, half)
      BY <3>1 DEF Halves
    <3> QED BY <3>1, <3>2, SetsIs
  <2>7. moved # Root
    BY <2>3, <2>6
  <2>8. /\ DOMAIN r.nodes = DOMAIN u.nodes \cup {moved} /\ r.nodes[moved] = u.nodes[Root]
        /\ r.nodes[Root] = node
        /\ \A c \in DOMAIN u.nodes \ {Root} : r.nodes[c] = u.nodes[c]
    <3>1. /\ DOMAIN u1.nodes = DOMAIN u.nodes \cup {moved} /\ u1.nodes[moved] = u.nodes[Root]
          /\ \A c \in DOMAIN u.nodes : u1.nodes[c] = u.nodes[c]
      BY <2>3, <2>4 DEF PutIn
    <3> HIDE DEF node
    <3>2. /\ DOMAIN r.nodes = DOMAIN u1.nodes \cup {Root} /\ r.nodes[Root] = node
          /\ \A c \in DOMAIN u1.nodes : c # Root => r.nodes[c] = u1.nodes[c]
      BY <2>5 DEF PutIn
    <3> QED BY <3>1, <3>2, <2>3, <2>6, <2>7
  <2>9. Tree(r.nodes) /\ Store(r.nodes) = Held(ent, lvl)
    BY <2>1, <2>3, <2>8, HalvedRoot
  <2> QED BY <1>12, <2>1, <2>5, <2>9 DEF S
<1> QED BY <1>12, <1>13, <1>14, <1>15

Fresh(ns, e) == \A x \in Store(ns) : x.key # e.key

\* An extent with a new key is added, unless the admin space ends.
LEMMA AddExtentIs ==
  ASSUME NEW v, IsVolume(v), v.raised = No, Tree(v.nodes), NEW e \in Extents, Fresh(v.nodes, e),
         NEW r, r = AddExtent(v, e)
  PROVE  /\ IsVolume(r) /\ r.used = v.used /\ r.raised \in BOOLEAN
         /\ ~r.raised => Tree(r.nodes) /\ Store(r.nodes) = Store(v.nodes) \cup {e}
<1>1. e.key \in Nat
  BY ItemKeys DEF Items
<1>2. PICK lvl, span : TreeBy(v.nodes, lvl, span)
  BY DEF Tree
<1>3. EndsInLeaf(v, e.key)
  BY <1>1, <1>2, LeafIs
<1>4. ~v.raised
  BY DEF No
<1>5. r = Insert(v, Path(v, e.key), e)
  BY <1>3, <1>4 DEF AddExtent
<1>6. \A x \in Store(v.nodes) : x.key # e.key
  BY DEF Fresh
<1> QED BY <1>5, <1>6, InsertIs

-----------------------------------------------------------------------------
(* Deletion *)

\* A patched extent takes the place of the one with its key.
LEMMA PatchIs ==
  ASSUME NEW v, IsVolume(v), v.raised = No, Tree(v.nodes),
         NEW key \in Nat \ {0}, Known(v, key),
         NEW next, NEW prev, NEW x, x = Patched(Found(v, key), next, prev), x \in Extents,
         NEW r, r = Patch(v, key, next, prev)
  PROVE  /\ IsVolume(r) /\ r.used = v.used /\ r.raised = No /\ Tree(r.nodes)
         /\ \A y : y \in Store(r.nodes) <=> y = x \/ (y \in Store(v.nodes) /\ y.key # key)
<1> DEFINE b   == LeafOf(v, key)
           all == v.nodes[b].entries
           i   == Min(Places(v, key))
           s   == [all EXCEPT ![i] = x]
<1>1. i \in DOMAIN all /\ all[i] = Found(v, key) /\ Found(v, key).key = key
  BY KnownIs
<1>2. x = Patched(all[i], next, prev) /\ x.key = key
  <2>1. x.key = Found(v, key).key
    BY DEF Patched, Extent
  <2> QED BY <1>1, <2>1
<1>3. r = Put(v, b, Leaf(s))
  <2>1. ~v.raised
    BY DEF No
  <2> QED BY <1>2, <2>1 DEF Patch
<1>4. PICK lvl, span : TreeBy(v.nodes, lvl, span)
  BY DEF Tree
<1>5. b \in DOMAIN v.nodes /\ lvl[b] = 0 /\ key \in span[b] /\ v.nodes[b].leaf
  BY <1>4, LeafIs DEF EndsInLeaf
<1>6. Shape(SetsOf(v.nodes), lvl, span) /\ Fits(v.nodes[b])
  BY <1>4, <1>5 DEF TreeBy
<1>7. all \in Seq(Extents) /\ Ascending(all) /\ Len(all) <= LeafMax /\ Extents \in SUBSET Items
  BY <1>5, <1>6, NodeIs
<1>8. DOMAIN SetsOf(v.nodes) = DOMAIN v.nodes /\ SetsOf(v.nodes)[b] = Range(all)
  BY <1>5, SetsIs
<1>9. \A y \in Store(v.nodes) : y.key = key => y \in Range(all)
  BY <1>4, <1>5, <1>6, <1>8, HeldOnce, StoreIs
<1>10. \A y \in Range(all) : y.key \in span[b]
  BY <1>5, <1>6, <1>8 DEF Shape, Filled
<1>11. \A y \in Range(all) : y \in Store(v.nodes)
  BY <1>5 DEF Store
<1>12. all[i] \in Range(all)
  BY <1>1 DEF Range
<1>13. \A y, z \in Range(all) : y.key = z.key => y = z
  BY <1>7, AscendingOnce
<1> HIDE DEF all, i, b
<1>14. /\ s \in Seq(Extents) /\ Ascending(s) /\ Len(s) = Len(all)
       /\ \A y : y \in Range(s) <=> y = x \/ (y \in Range(all) /\ y.key # x.key)
  <2>1. x.key = all[i].key
    BY <1>1, <1>2
  <2> DEFINE X == Extents
  <2>2. X \in SUBSET Items /\ all \in Seq(X) /\ x \in X /\ s = Replaced(all, i, x)
    BY <1>7 DEF Replaced
  <2> HIDE DEF X, s
  <2>3. s \in Seq(X) /\ Ascending(s) /\ Len(s) = Len(all)
        /\ \A y : y \in Range(s) <=> y = x \/ (y \in Range(all) /\ y.key # x.key)
    <3> HIDE DEF b
    <3>1. i \in DOMAIN all /\ Ascending(all)
      BY <1>1, <1>7
    <3> QED BY <2>1, <2>2, <3>1, ReplaceSorted
  <2> QED BY <2>3 DEF X
<1> HIDE DEF s
<1>15. \A y : y \in Range(s) <=> y = x \/ (y \in Range(all) /\ y.key # key)
  BY <1>2, <1>14
<1>16. /\ \A y \in Range(s) : y.key \in span[b]
       /\ Len(s) <= LeafMax
  BY <1>2, <1>5, <1>7, <1>10, <1>14, <1>15
<1>17. IsVolume(r) /\ r.used = v.used /\ r.raised = v.raised /\ r.nodes = PutIn(v.nodes, b, Leaf(s))
  BY <1>3, PutIs
<1>18. /\ TreeBy(r.nodes, lvl, span)
       /\ \A y : y \in Store(r.nodes)
                   <=> y \in Range(s) \/ (y \in Store(v.nodes) /\ y \notin Range(all))
  BY <1>4, <1>5, <1>14, <1>16, <1>17, LeafPut DEF all
<1>19. Tree(r.nodes)
  BY <1>18 DEF Tree
<1>20. \A y : y \in Store(r.nodes) <=> y = x \/ (y \in Store(v.nodes) /\ y.key # key)
  BY <1>1, <1>9, <1>11, <1>12, <1>13, <1>15, <1>18
<1> QED BY <1>17, <1>19, <1>20

OneLess(s, all) == Len(all) \in Nat /\ Len(s) = Len(all) - 1 /\ s \in Seq(Extents)

\* An extent is taken out of its leaf.
LEMMA TakeExtent ==
  ASSUME NEW v, IsVolume(v), NEW lvl, NEW span, TreeBy(v.nodes, lvl, span),
         NEW key \in Nat, Known(v, key),
         NEW b, b = LeafOf(v, key), NEW all, all = v.nodes[b].entries,
         NEW s, s = RemoveAt(all, Min(Places(v, key))),
         NEW r, r = Put(v, b, Leaf(s))
  PROVE  /\ IsVolume(r) /\ r.used = v.used /\ r.raised = v.raised
         /\ TreeBy(r.nodes, lvl, span) /\ r.nodes[b] = Leaf(s) /\ DOMAIN r.nodes = DOMAIN v.nodes
         /\ \A c \in DOMAIN v.nodes : c # b => r.nodes[c] = v.nodes[c]
         /\ OneLess(s, all)
         /\ \A y : y \in Store(r.nodes) <=> y \in Store(v.nodes) /\ y.key # key
<1> DEFINE i == Min(Places(v, key))
<1>1. Tree(v.nodes)
  BY DEF Tree
<1>2. i \in DOMAIN all /\ all[i] = Found(v, key) /\ all[i].key = key
  BY <1>1, KnownIs
<1>3. b \in DOMAIN v.nodes /\ lvl[b] = 0 /\ key \in span[b] /\ v.nodes[b].leaf
  BY LeafIs DEF EndsInLeaf
<1>4. Shape(SetsOf(v.nodes), lvl, span) /\ Fits(v.nodes[b])
  BY <1>3 DEF TreeBy
<1>5. all \in Seq(Extents) /\ Ascending(all) /\ Len(all) <= LeafMax /\ Extents \in SUBSET Items
  BY <1>3, <1>4, NodeIs
<1>6. DOMAIN SetsOf(v.nodes) = DOMAIN v.nodes /\ SetsOf(v.nodes)[b] = Range(all)
  BY <1>3, SetsIs
<1>7. \A y \in Store(v.nodes) : y.key = key => y \in Range(all)
  BY <1>3, <1>4, <1>6, HeldOnce, StoreIs
<1>8. \A y \in Range(all) : y.key \in span[b]
  BY <1>3, <1>4, <1>6 DEF Shape, Filled
<1>9. \A y \in Range(all) : y \in Store(v.nodes)
  BY <1>3 DEF Store
<1>10. \A y, z \in Range(all) : y.key = z.key => y = z
  BY <1>5, AscendingOnce
<1>11. all[i] \in Range(all)
  BY <1>2 DEF Range
<1> HIDE DEF i
<1>12. /\ s \in Seq(Extents) /\ Ascending(s) /\ Len(s) = Len(all) - 1
       /\ Range(s) = Range(all) \ {all[i]}
  <2>1. s = RemoveAt(all, i)
    BY DEF i
  <2> QED BY <1>2, <1>5, <2>1, RemoveSorted
<1>13. Len(all) \in Nat
  BY <1>5
<1>14. Len(s) <= LeafMax /\ \A y \in Range(s) : y.key \in span[b]
  <2>1. Len(s) \in Nat /\ LeafMax \in Nat
    BY <1>12, ExtentTreeAssumption
  <2> QED BY <1>5, <1>8, <1>12, <1>13, <2>1
<1>15. IsVolume(r) /\ r.used = v.used /\ r.raised = v.raised /\ r.nodes = PutIn(v.nodes, b, Leaf(s))
  BY PutIs
<1>16. /\ TreeBy(r.nodes, lvl, span)
       /\ \A y : y \in Store(r.nodes)
                   <=> y \in Range(s) \/ (y \in Store(v.nodes) /\ y \notin Range(all))
  BY <1>3, <1>12, <1>14, <1>15, LeafPut
<1>17. \A y : y \in Store(r.nodes) <=> y \in Store(v.nodes) /\ y.key # key
  BY <1>2, <1>7, <1>9, <1>10, <1>11, <1>12, <1>16
<1>18. /\ r.nodes[b] = Leaf(s) /\ DOMAIN r.nodes = DOMAIN v.nodes
       /\ \A c \in DOMAIN v.nodes : c # b => r.nodes[c] = v.nodes[c]
  BY <1>3, <1>15 DEF PutIn
<1>19. OneLess(s, all)
  BY <1>12, <1>13 DEF OneLess
<1> QED BY <1>15, <1>16, <1>17, <1>18, <1>19

PointsTo(all, b) == \E x \in Range(all) : x.to = b
Collapsing(v) == [vol |-> v, more |-> TRUE]
StopsAfter(r, all) == Len(all) \in Nat /\ (Len(all) # 2 => ~r.more)
Emptied(node) == node.entries = <<>>

\* An empty leaf that is not the first of its parent leaves the tree.
LEMMA TakenOutIs ==
  ASSUME NEW v, IsVolume(v), NEW lvl, NEW span, TreeBy(v.nodes, lvl, span),
         NEW a \in DOMAIN v.nodes, lvl[a] # 0, NEW all, all = v.nodes[a].entries,
         NEW b \in DOMAIN v.nodes, PointsTo(all, b), lvl[b] = 0,
         Emptied(v.nodes[b]), all[1].to # b,
         NEW w, w = Collapsing(v), NEW r, r = TakenOut(w, a, b)
  PROVE  /\ IsVolume(r.vol) /\ r.vol.used = v.used /\ r.vol.raised = v.raised
         /\ Tree(r.vol.nodes) /\ Store(r.vol.nodes) = Store(v.nodes)
         /\ StopsAfter(r, all)
<1> DEFINE P == {n \in DOMAIN all : all[n].to = b}
           i == Min(P)
           rest == RemoveAt(all, i)
           p == all[i]
           u == Put(v, a, Index(rest))
           new == Drop(u, b)
<1>1. Shape(SetsOf(v.nodes), lvl, span) /\ Fits(v.nodes[a]) /\ ~v.nodes[a].leaf
  BY DEF TreeBy
<1>2. all \in Seq(Pointers) /\ Ascending(all) /\ Len(all) <= IndexMax /\ Pointers \in SUBSET Items
  BY <1>1, NodeIs
<1>3. DOMAIN all = 1..Len(all) /\ Len(all) \in Nat
  BY <1>2
<1>4. P # {} /\ P \in SUBSET Nat
  <2>1. \E n \in DOMAIN all : all[n].to = b
    BY SMTT(40) DEF PointsTo, Range
  <2> QED BY <2>1, <1>3
<1>5. i \in DOMAIN all /\ p.to = b
  <2> HIDE DEF P
  <2>1. i \in P
    BY <1>4, MinIs
  <2> QED BY <2>1 DEF P
<1>6. r = [vol |-> new, more |-> CollapseFurther(Len(rest))]
  BY DEF TakenOut, Collapsing
<1> HIDE DEF P, i
<1>7. /\ rest \in Seq(Pointers) /\ Ascending(rest) /\ Len(rest) = Len(all) - 1
      /\ Range(rest) = Range(all) \ {p}
  BY <1>2, <1>5, RemoveSorted
<1>8. i # 1 /\ 1 \in DOMAIN all /\ 1 < i
  BY <1>3, <1>5
<1>9. p \in Range(all) /\ all[1] \in Range(all) /\ all[1].key < p.key
  <2>1. all[1].key < p.key
    BY <1>2, <1>5, <1>8 DEF Ascending
  <2> QED BY <1>5, <1>8, <2>1 DEF Range
<1> HIDE DEF rest, p
<1>10. /\ IsVolume(u) /\ u.used = v.used /\ u.raised = v.raised
       /\ u.nodes = PutIn(v.nodes, a, Index(rest))
  BY PutIs
<1> HIDE DEF u
<1>11. /\ IsVolume(new) /\ new.used = v.used /\ new.raised = v.raised
       /\ new.nodes = DropFrom(u.nodes, b)
  BY <1>10, DropIs
<1> HIDE DEF new
<1>12. a # b
  OBVIOUS
<1>13. /\ DOMAIN new.nodes = DOMAIN v.nodes \ {b} /\ new.nodes[a] = Index(rest)
       /\ \A c \in DOMAIN v.nodes : c # a /\ c # b => new.nodes[c] = v.nodes[c]
  BY <1>10, <1>11, <1>12 DEF PutIn, DropFrom
<1> DEFINE ent == SetsOf(v.nodes)
           lvl2 == PrunedLevels(ent, lvl, b)
           cut == PrunedSets(ent, a, b, p)
<1>14. DOMAIN ent = DOMAIN v.nodes /\ ent[a] = Range(all) /\ ent[b] = {}
  <2>1. Range(v.nodes[b].entries) = {}
    BY DEF Range, Emptied
  <2> QED BY <2>1, SetsIs
<1>15. SetsOf(new.nodes) = cut
  <2>1. Index(rest).entries = rest
    BY DEF Index
  <2>2. \A c \in DOMAIN new.nodes : Range(new.nodes[c].entries) = cut[c]
    <3> TAKE c \in DOMAIN new.nodes
    <3>1. CASE c = a
      BY <3>1, <2>1, <1>7, <1>12, <1>13, <1>14 DEF PrunedSets
    <3>2. CASE c # a
      BY <3>2, <1>13, <1>14, SetsIs DEF PrunedSets
    <3> QED BY <3>1, <3>2
  <2>3. DOMAIN cut = DOMAIN new.nodes
    BY <1>13, <1>14 DEF PrunedSets
  <2>4. cut = [c \in DOMAIN new.nodes |-> cut[c]]
    BY <2>3 DEF PrunedSets
  <2> HIDE DEF cut
  <2> QED BY <2>2, <2>4 DEF SetsOf
<1>16. \E span2 : Shape(cut, lvl2, span2)
  <2>1. Shape(ent, lvl, span) /\ a \in DOMAIN ent /\ p \in ent[a] /\ b = p.to /\ all[1] \in ent[a]
    BY <1>1, <1>5, <1>9, <1>14
  <2> HIDE DEF ent
  <2> QED BY <1>9, <2>1, PruneShape
<1>17. Held(cut, lvl2) = Held(ent, lvl)
  <2>1. a \in DOMAIN ent /\ ent[b] = {}
    BY <1>14
  <2> HIDE DEF ent
  <2> QED BY <2>1, PruneHeld
<1>18. \A c \in DOMAIN new.nodes : Fits(new.nodes[c]) /\ (new.nodes[c].leaf <=> lvl2[c] = 0)
  <2>1. Fits(Index(rest)) /\ ~Index(rest).leaf
    <3>1. Len(rest) <= IndexMax
      <4>1. Len(rest) \in Nat /\ IndexMax \in Nat
        BY <1>7, ExtentTreeAssumption
      <4> QED BY <4>1, <1>2, <1>3, <1>7
    <3>2. ~Index(rest).leaf /\ Index(rest).entries = rest
      BY DEF Index
    <3>3. Room(Index(rest)) = IndexMax
      BY <3>2 DEF Room
    <3>4. Index(rest) \in [leaf : {FALSE}, entries : Seq(Pointers)]
      BY <1>7 DEF Index
    <3> QED BY <3>1, <3>2, <3>3, <3>4, <1>7 DEF Fits
  <2> TAKE c \in DOMAIN new.nodes
  <2>2. lvl2[c] = lvl[c] /\ c \in DOMAIN v.nodes /\ c # b
    BY <1>13, <1>14 DEF PrunedLevels
  <2>3. CASE c = a
    BY <2>1, <2>2, <2>3, <1>13
  <2>4. CASE c # a
    BY <2>2, <2>4, <1>13 DEF TreeBy
  <2> QED BY <2>3, <2>4
<1>19. PICK span2 : TreeBy(new.nodes, lvl2, span2)
  <2> HIDE DEF lvl2, cut
  <2> QED BY <1>15, <1>16, <1>18 DEF TreeBy
<1>20. Tree(new.nodes) /\ Store(new.nodes) = Store(v.nodes)
  <2> HIDE DEF lvl2, cut, ent
  <2>1. Store(new.nodes) = Held(cut, lvl2)
    BY <1>15, <1>19, StoreIs
  <2>2. Store(v.nodes) = Held(ent, lvl)
    BY StoreIs DEF ent
  <2> QED BY <2>1, <2>2, <1>17, <1>19 DEF Tree
<1>21. r.vol = new /\ (Len(all) # 2 => ~r.more)
  <2>1. Len(all) # 2 => ~CollapseFurther(Len(rest))
    BY <1>3, <1>7 DEF CollapseFurther
  <2> QED BY <2>1, <1>6
<1> QED BY <1>3, <1>11, <1>20, <1>21 DEF StopsAfter

\* A collapse with nothing more to do changes nothing.
LEMMA TakenOutIdle ==
  ASSUME NEW w, ~w.more, NEW a, NEW b
  PROVE  TakenOut(w, a, b) = w
BY DEF TakenOut

\* The leaf at the end of p is not the first of its parent, which keeps others.
SparesLast(ns, p) ==
  LET all == ns[p[Len(p) - 1]].entries
  IN  ns[p[Len(p)]].entries = <<>> /\ Len(p) > 1 =>
        all[1].to # p[Len(p)] /\ Len(all) >= (IF Len(p) = 2 THEN 2 ELSE 3)

Long(lvl, p, h) == h = lvl[Root] /\ Len(p) = h + 1

\* p leads to such a leaf of a tree.
Collapsible(ns, p) ==
  /\ SparesLast(ns, p)
  /\ \E lvl, span : \E key, h \in Nat :
       TreeBy(ns, lvl, span) /\ Leads(ns, lvl, span, p, key) /\ Long(lvl, p, h)

\* The loop of _remove_extent takes out an empty leaf, and stops there.
LEMMA CollapseIs ==
  ASSUME NEW v, IsVolume(v), NEW p, Collapsible(v.nodes, p),
         NEW r, r = Collapse(v, p)
  PROVE  /\ IsVolume(r) /\ r.used = v.used /\ r.raised = v.raised
         /\ Tree(r.nodes) /\ Store(r.nodes) = Store(v.nodes)
<1> DEFINE L == Len(p)
           b == p[L]
           all == v.nodes[p[L - 1]].entries
           empty == v.nodes[b].entries = <<>>
           w0 == [vol |-> v, more |-> empty]
           Goes(f, m) == f = [n \in 0..m |-> IF n = 0 THEN w0 ELSE TakenOut(f[n - 1], p[L - n], p[L - n + 1])]
           T == {m \in Nat : \E f : Goes(f, m)}
<1>19. PICK lvl, span : \E key, h \in Nat :
         TreeBy(v.nodes, lvl, span) /\ Leads(v.nodes, lvl, span, p, key) /\ Long(lvl, p, h)
  BY DEF Collapsible
<1>18. PICK key \in Nat, h \in Nat :
         TreeBy(v.nodes, lvl, span) /\ Leads(v.nodes, lvl, span, p, key) /\ Long(lvl, p, h)
  BY <1>19
<1>1. L \in Nat /\ L >= 1 /\ L - 1 \in Nat
  BY <1>18 DEF Long
<1>15. empty /\ L > 1 => all[1].to # b /\ Len(all) >= (IF L = 2 THEN 2 ELSE 3)
  BY DEF Collapsible, SparesLast
<1> HIDE DEF w0
<1>2. 0 \in T
  <2>1. Goes([n \in 0..0 |-> w0], 0)
    OBVIOUS
  <2> QED BY <2>1
<1>3. ASSUME NEW m \in Nat, m \in T PROVE m + 1 \in T
  <2>1. PICK f : Goes(f, m)
    BY <1>3
  <2> DEFINE g == [n \in 0..m+1 |->
                     IF n = m + 1 THEN TakenOut(f[m], p[L - (m + 1)], p[L - (m + 1) + 1]) ELSE f[n]]
  <2>2. \A n \in 0..m+1 :
          g[n] = IF n = 0 THEN w0 ELSE TakenOut(g[n - 1], p[L - n], p[L - n + 1])
    <3> TAKE n \in 0..m+1
    <3>1. CASE n = m + 1
      <4>1. g[n] = TakenOut(f[m], p[L - n], p[L - n + 1]) /\ g[n - 1] = f[m] /\ n # 0
        BY <3>1
      <4> QED BY <4>1
    <3>2. CASE n \in 0..m /\ n # 0
      <4>1. n \in 0..m+1 /\ n - 1 \in 0..m+1 /\ n # m + 1 /\ n - 1 # m + 1
        BY <3>2
      <4>2. g[n] = f[n] /\ g[n - 1] = f[n - 1]
        BY <4>1
      <4> QED BY <4>2, <3>2, <2>1
    <3>3. CASE n = 0
      BY <3>3, <2>1
    <3> QED BY <3>1, <3>2, <3>3
  <2>3. Goes(g, m + 1)
    <3>1. g = [n \in 0..m+1 |-> g[n]]
      OBVIOUS
    <3> HIDE DEF g
    <3> QED BY <3>1, <2>2
  <2> HIDE DEF Goes, g
  <2> QED BY <2>3
<1>4. \E f : Goes(f, L - 1)
  <2>1. \A m \in Nat : m \in T
    <3> HIDE DEF T
    <3> QED BY <1>2, <1>3, ExtentInduction
  <2> QED BY <1>1, <2>1
<1> DEFINE f == CHOOSE q : Goes(q, L - 1)
<1>5. Goes(f, L - 1)
  <2> HIDE DEF Goes
  <2> QED BY <1>4
<1>6. r = f[L - 1].vol
  BY DEF Collapse, w0, Last
<1> HIDE DEF f
<1>7. f[0] = w0 /\ \A n \in 1..L-1 : f[n] = TakenOut(f[n - 1], p[L - n], p[L - n + 1])
  <2>1. f[0] = w0
    BY <1>1, <1>5
  <2>2. ASSUME NEW n \in 1..L-1 PROVE f[n] = TakenOut(f[n - 1], p[L - n], p[L - n + 1])
    <3>1. n \in 0..L-1 /\ n # 0
      BY <1>1
    <3> HIDE DEF L
    <3> QED BY <1>5, <3>1
  <2> QED BY <2>1, <2>2
<1>0. L = Len(p)
  OBVIOUS
<1>16. L = h + 1
  BY <1>18 DEF Long
<1>17. b = p[L] /\ all = v.nodes[p[L - 1]].entries /\ (empty <=> v.nodes[b].entries = <<>>)
  OBVIOUS
<1> HIDE DEF L, b, all, empty
<1>8. ASSUME NEW m \in 0..L-1, ~f[m].more PROVE f[L - 1] = f[m]
  <2> DEFINE I == {n \in Nat : n >= m /\ n <= L - 1 => f[n] = f[m]}
  <2>1. 0 \in I
    BY <1>1
  <2>2. ASSUME NEW n \in Nat, n \in I PROVE n + 1 \in I
    <3> SUFFICES ASSUME n + 1 >= m, n + 1 <= L - 1 PROVE f[n + 1] = f[m]
      OBVIOUS
    <3>1. CASE n >= m
      <4>1. n <= L - 1 /\ n + 1 \in 1..L-1 /\ (n + 1) - 1 = n
        BY <1>1, <3>1
      <4>3. f[n] = f[m]
        BY <2>2, <3>1, <4>1
      <4>2. f[n + 1] = TakenOut(f[n], p[L - (n + 1)], p[L - (n + 1) + 1])
        BY <1>7, <4>1
      <4>4. ~f[n].more
        BY <4>3, <1>8
      <4> QED BY <4>2, <4>3, <4>4, TakenOutIdle
    <3>2. CASE ~(n >= m)
      <4>1. n + 1 = m
        BY <3>2
      <4> QED BY <4>1
    <3> QED BY <3>1, <3>2
  <2>3. \A n \in Nat : n \in I
    <3> HIDE DEF I
    <3> QED BY <2>1, <2>2, ExtentInduction
  <2> QED BY <1>1, <2>3
<1>9. w0.vol = v
  BY DEF w0
<1>10. Tree(v.nodes)
  BY <1>18 DEF Tree
<1>11. CASE ~empty
  <2>2. ~w0.more
    BY <1>11 DEF w0
  <2>3. 0 \in 0..L-1 /\ f[0] = w0
    BY <1>1, <1>7
  <2>1. f[L - 1] = w0
    BY <1>8, <2>2, <2>3
  <2> QED BY <1>6, <1>9, <1>10, <2>1
<1>12. CASE L = 1
  <2>1. f[L - 1] = w0
    BY <1>7, <1>12
  <2> QED BY <1>6, <1>9, <1>10, <2>1
<1>13. CASE empty /\ L > 1
  <2> DEFINE a == p[L - 1]
  <2>1. L - 1 \in 1..Len(p) /\ L \in 1..Len(p) /\ L \in 2..Len(p) /\ 1 \in 1..L-1
    BY <1>0, <1>1, <1>13
  <2>2. /\ a \in DOMAIN v.nodes /\ b \in DOMAIN v.nodes
        /\ lvl[a] = h + 1 - (L - 1) /\ lvl[b] = h + 1 - L
        /\ \E x \in Range(all) : x.to = b
    BY <1>0, <1>17, <1>18, <2>1 DEF Leads, Long
  <2>3. lvl[a] = 1 /\ lvl[b] = 0
    <3>1. h + 1 - (L - 1) = 1 /\ h + 1 - L = 0
      BY <1>16
    <3> HIDE DEF a
    <3> QED BY <2>2, <3>1
  <2>4. all[1].to # b /\ Len(all) >= (IF L = 2 THEN 2 ELSE 3)
    BY <1>13, <1>15
  <2>5. v.nodes[b].entries = <<>> /\ all = v.nodes[a].entries
    BY <1>13, <1>17
  <2>6. PointsTo(all, b)
    BY <2>2 DEF PointsTo
  <2> DEFINE t == TakenOut(w0, a, b)
  <2>7. f[1] = t
    <3>1. L - 1 + 1 = L /\ 1 - 1 = 0
      BY <1>1
    <3> QED BY <1>7, <1>17, <2>1, <3>1
  <2>8. w0 = Collapsing(v)
    BY <1>13 DEF w0, Collapsing
  <2> HIDE DEF a
  <2>9. /\ IsVolume(t.vol) /\ t.vol.used = v.used /\ t.vol.raised = v.raised
        /\ Tree(t.vol.nodes) /\ Store(t.vol.nodes) = Store(v.nodes)
        /\ StopsAfter(t, all)
    <3>1. /\ lvl[a] # 0 /\ t = TakenOut(w0, a, b) /\ all[1].to # b
          /\ a \in DOMAIN v.nodes /\ b \in DOMAIN v.nodes /\ lvl[b] = 0
      BY <2>2, <2>3, <2>4, <2>6
    <3> HIDE DEF t
    <3>2. Emptied(v.nodes[b]) /\ all = v.nodes[a].entries
      BY <2>5 DEF Emptied
    <3>3. TreeBy(v.nodes, lvl, span)
      BY <1>18
    <3> QED BY <2>6, <2>8, <3>1, <3>2, <3>3, TakenOutIs
  <2> HIDE DEF t
  <2>10. f[L - 1] = t
    <3>1. CASE L = 2
      BY <2>7, <3>1
    <3>2. CASE L # 2
      <4>1. ~t.more
        <5>1. PICK n \in Nat : Len(all) = n
          BY <2>9 DEF StopsAfter
        <5>2. Len(all) # 2
          BY <2>4, <3>2, <5>1
        <5> QED BY <2>9, <5>2 DEF StopsAfter
      <4>2. 1 \in 0..L-1
        BY <1>1, <2>1
      <4> QED BY <4>1, <4>2, <1>8, <2>7
    <3> QED BY <3>1, <3>2
  <2> QED BY <1>6, <2>9, <2>10
<1>14. L = 1 \/ L > 1
  BY <1>1
<1> QED BY <1>11, <1>12, <1>13, <1>14

\* The way to the leaf is the same after an extent was taken out of it.
LEMMA LeadsStill ==
  ASSUME NEW ns, NEW lvl, NEW span, NEW p, NEW key, Leads(ns, lvl, span, p, key),
         NEW h \in Nat, Long(lvl, p, h), NEW b, b = p[Len(p)],
         NEW new, DOMAIN new = DOMAIN ns, \A c \in DOMAIN ns : c # b => new[c] = ns[c]
  PROVE  /\ Leads(new, lvl, span, p, key)
         /\ Len(p) > 1 => new[p[Len(p) - 1]] = ns[p[Len(p) - 1]]
<1> DEFINE L == Len(p)
<1>1. L = h + 1 /\ lvl[Root] = h /\ p \in Seq(Block) /\ p # <<>> /\ p[1] = Root
  BY DEF Long, Leads
<1>2. /\ \A i \in 1..L : p[i] \in DOMAIN ns /\ lvl[p[i]] = h + 1 - i /\ key \in span[p[i]]
      /\ \A i \in 2..L : \E x \in Range(ns[p[i - 1]].entries) : x.to = p[i]
  BY <1>1 DEF Leads
<1> HIDE DEF L
<1>3. L \in 1..L /\ b = p[L]
  BY <1>1 DEF L
<1>4. \A i \in 1..L : i # L => p[i] # b
  <2>1. lvl[b] = 0
    BY <1>1, <1>2, <1>3
  <2>2. \A i \in 1..L : i # L => h + 1 - i # 0
    BY <1>1
  <2> QED BY <1>2, <2>1, <2>2
<1>5. \A i \in 2..L : new[p[i - 1]] = ns[p[i - 1]]
  <2> TAKE i \in 2..L
  <2>1. i - 1 \in 1..L /\ i - 1 # L
    BY <1>1
  <2> QED BY <1>2, <1>4, <2>1
<1>6. \A i \in 2..L : \E x \in Range(new[p[i - 1]].entries) : x.to = p[i]
  BY <1>2, <1>5
<1>7. Leads(new, lvl, span, p, key)
  <2>1. \A i \in 1..L : p[i] \in DOMAIN new /\ lvl[p[i]] = lvl[Root] + 1 - i /\ key \in span[p[i]]
    BY <1>1, <1>2
  <2> QED BY <1>1, <1>6, <2>1 DEF Leads, L
<1>8. L > 1 => new[p[L - 1]] = ns[p[L - 1]]
  <2>1. L > 1 => L \in 2..L
    BY <1>1
  <2> QED BY <1>5, <2>1
<1> QED BY <1>7, <1>8 DEF L

\* The next extent of a first one becomes the first.
First(e) == Extent(e.key, e.next, 0)

\* Everything but what is known by a key.
Without(S, key) == {x \in S : x.key # key}

\* e is the first extent of a chain and known by the key, and the next is known.
Heads(v, e, key) ==
  /\ Known(v, key) /\ e = Found(v, key) /\ e.prev = 0 /\ e.next \in Nat /\ e.next # key
  /\ e.next # 0 => Known(v, e.next)

Relinked(S, key, next, x) == Without(Without(S, key), next) \cup {First(x)}

\* S without e, and the next extent made the first.
Unlinked(S, e, key, T) ==
  /\ e.next = 0 => T = Without(S, key)
  /\ e.next # 0 => \E z \in S : /\ z.key = e.next
                               /\ T = Relinked(S, key, e.next, z)

\* The first extent of a chain is taken out of the tree.
LEMMA RemoveExtentIs ==
  ASSUME NEW v, IsVolume(v), v.raised = No, Tree(v.nodes),
         NEW key \in Nat \ {0}, Spared(v, key), NEW e, Heads(v, e, key),
         NEW r, r = RemoveExtent(v, key)
  PROVE  /\ IsVolume(r) /\ r.used = v.used /\ r.raised = No /\ Tree(r.nodes)
         /\ Unlinked(Store(v.nodes), e, key, Store(r.nodes))
<1> DEFINE p == Path(v, key)
           b == LeafOf(v, key)
           all == v.nodes[b].entries
           s == RemoveAt(all, Min(Places(v, key)))
           out == Put(v, b, Leaf(s))
           tree == Collapse(out, p)
<1>16. /\ Known(v, key) /\ e = Found(v, key) /\ e.prev = 0 /\ e.next \in Nat /\ e.next # key
       /\ e.next # 0 => Known(v, e.next)
  BY DEF Heads
<1>1. PICK lvl, span : TreeBy(v.nodes, lvl, span)
  BY DEF Tree
<1>2. /\ IsVolume(out) /\ out.used = v.used /\ out.raised = v.raised
      /\ TreeBy(out.nodes, lvl, span) /\ out.nodes[b] = Leaf(s) /\ DOMAIN out.nodes = DOMAIN v.nodes
      /\ \A c \in DOMAIN v.nodes : c # b => out.nodes[c] = v.nodes[c]
      /\ OneLess(s, all)
      /\ \A y : y \in Store(out.nodes) <=> y \in Store(v.nodes) /\ y.key # key
  <2> HIDE DEF b, all, s, out
  <2>1. b = LeafOf(v, key) /\ all = v.nodes[b].entries /\ s = RemoveAt(all, Min(Places(v, key)))
        /\ out = Put(v, b, Leaf(s))
    BY DEF b, all, s, out
  <2> QED BY <1>1, <1>16, <2>1, TakeExtent
<1>3. Leads(v.nodes, lvl, span, p, key) /\ Len(p) = lvl[Root] + 1
  BY <1>1, PathIs
<1>4. PICK h \in Nat : Long(lvl, p, h)
  <2>1. Shape(SetsOf(v.nodes), lvl, span)
    BY <1>1 DEF TreeBy
  <2>2. lvl[Root] \in Nat
    BY <2>1, LevelsFewer
  <2> QED BY <1>3, <2>2 DEF Long
<1>5. b = p[Len(p)]
  BY DEF LeafOf, Last
<1>6. r = Patch(Patch(tree, e.prev, e.next, Same), e.next, Same, e.prev)
  BY <1>16 DEF RemoveExtent
<1>7. Len(p) > 1 /\ Len(all) = 1 =>
        LET parent == v.nodes[p[Len(p) - 1]].entries
        IN  parent[1].to # b /\ Len(parent) >= (IF Len(p) = 2 THEN 2 ELSE 3)
  BY <1>5, <1>16 DEF Spared, LeafOf, Last
<1> HIDE DEF p, b, all, s, out
<1>8. /\ Leads(out.nodes, lvl, span, p, key)
      /\ Len(p) > 1 => out.nodes[p[Len(p) - 1]] = v.nodes[p[Len(p) - 1]]
  BY <1>2, <1>3, <1>4, <1>5, LeadsStill
<1>9. SparesLast(out.nodes, p)
  <2> SUFFICES ASSUME out.nodes[p[Len(p)]].entries = <<>>, Len(p) > 1
               PROVE  LET par == out.nodes[p[Len(p) - 1]].entries
                      IN  par[1].to # p[Len(p)] /\ Len(par) >= (IF Len(p) = 2 THEN 2 ELSE 3)
    BY DEF SparesLast
  <2>1. out.nodes[p[Len(p)]].entries = s
    BY <1>2, <1>5 DEF Leaf
  <2>2. Len(s) = 0
    BY <2>1
  <2>3. Len(all) = 1
    BY <1>2, <2>2 DEF OneLess
  <2> QED BY SMTT(40), <1>5, <1>7, <1>8, <2>3
<1>10. /\ IsVolume(tree) /\ tree.used = v.used /\ tree.raised = v.raised
       /\ Tree(tree.nodes) /\ Store(tree.nodes) = Store(out.nodes)
  <2>1. Collapsible(out.nodes, p)
    <3>1. key \in Nat
      OBVIOUS
    <3>2. TreeBy(out.nodes, lvl, span)
      BY <1>2
    <3>3. Leads(out.nodes, lvl, span, p, key)
      BY <1>8
    <3> QED BY <1>4, <1>9, <3>1, <3>2, <3>3 DEF Collapsible
  <2>2. tree = Collapse(out, p) /\ IsVolume(out)
    BY <1>2
  <2> HIDE DEF tree
  <2>4. /\ IsVolume(tree) /\ tree.used = out.used /\ tree.raised = out.raised
        /\ Tree(tree.nodes) /\ Store(tree.nodes) = Store(out.nodes)
    BY <2>1, <2>2, CollapseIs
  <2> QED BY <2>4, <1>2
<1>11. \A y : y \in Store(tree.nodes) <=> y \in Store(v.nodes) /\ y.key # key
  BY <1>2, <1>10
<1> HIDE DEF tree
<1>12. Patch(tree, e.prev, e.next, Same) = tree
  BY <1>16 DEF Patch
<1>13. r = Patch(tree, e.next, Same, 0)
  BY <1>6, <1>12, <1>16
<1>14. CASE e.next = 0
  <2>1. r = tree
    BY <1>13, <1>14 DEF Patch
  <2>2. Store(r.nodes) = Without(Store(v.nodes), key)
    BY <2>1, <1>11 DEF Without
  <2> QED BY <1>10, <1>14, <2>1, <2>2 DEF Unlinked
<1>15. CASE e.next # 0
  <2> DEFINE z == Found(tree, e.next)
             x == Patched(z, Same, 0)
  <2>1. \E y \in Store(v.nodes) : y.key = e.next
    BY <1>15, <1>16, KnownIs
  <2>2. \E y \in Store(tree.nodes) : y.key = e.next
    BY <2>1, <1>11, <1>16
  <2>3. Known(tree, e.next)
    BY <2>2, <1>10, <1>16, KnownIs
  <2>4. z \in Store(tree.nodes) /\ z.key = e.next
    BY <2>3, <1>10, <1>16, KnownIs
  <2>5. z \in Store(v.nodes) /\ z \in Extents
    <3>1. z \in Store(v.nodes)
      BY <2>4, <1>11
    <3>2. Shape(SetsOf(v.nodes), lvl, span) /\ Store(v.nodes) = Held(SetsOf(v.nodes), lvl)
      BY <1>1, StoreIs DEF TreeBy
    <3> QED BY <3>1, <3>2, HeldOnce
  <2> HIDE DEF z
  <2>6. x = First(z)
    BY DEF Patched, First, Same
  <2>7. First(z) \in Extents
    BY <2>5 DEF First, Extents, Extent
  <2> HIDE DEF x
  <2>8. /\ IsVolume(r) /\ r.used = tree.used /\ r.raised = No /\ Tree(r.nodes)
        /\ \A y : y \in Store(r.nodes) <=> y = x \/ (y \in Store(tree.nodes) /\ y.key # e.next)
    <3>1. x = Patched(Found(tree, e.next), Same, 0) /\ x \in Extents /\ tree.raised = No
          /\ e.next \in Nat \ {0}
      BY <1>10, <1>15, <1>16, <2>6, <2>7 DEF x, z
    <3> DEFINE k == e.next
               n == 0
    <3>2. x = Patched(Found(tree, k), Same, n) /\ k \in Nat \ {0} /\ Known(tree, k)
          /\ r = Patch(tree, k, Same, n)
      BY <1>13, <2>3, <3>1
    <3> HIDE DEF k, n
    <3>3. /\ IsVolume(r) /\ r.used = tree.used /\ r.raised = No /\ Tree(r.nodes)
          /\ \A y : y \in Store(r.nodes) <=> y = x \/ (y \in Store(tree.nodes) /\ y.key # k)
      BY <1>10, <3>1, <3>2, PatchIs
    <3> QED BY <3>3 DEF k
  <2>9. Store(r.nodes) = Without(Without(Store(v.nodes), key), e.next) \cup {First(z)}
    BY <1>11, <2>6, <2>8 DEF Without
  <2> QED BY <1>10, <1>15, <2>4, <2>5, <2>8, <2>9 DEF Unlinked, Relinked
<1> QED BY <1>14, <1>15

-----------------------------------------------------------------------------
(* Files: a sequence of keys and the extents that link them *)

IsFile(f) ==
  /\ f \in Seq(Keys) /\ Len(f) \in 1..MaxRuns
  /\ \A i, j \in DOMAIN f : f[i] = f[j] => i = j

\* Extent i of f when the n first ones have been removed.
After(f, i) == IF i < Len(f) THEN f[i + 1] ELSE 0
Before(f, n, i) == IF i > n + 1 THEN f[i - 1] ELSE 0
Later(f, n, i) == Extent(f[i], After(f, i), Before(f, n, i))

\* The extents from m on up to k, when the n first ones have been removed.
Links(f, n, m, k) == {Later(f, n, i) : i \in m..k}
ExtentsOf(f) == Links(f, 0, 1, Len(f))

\* What is left after the first n extents.
Rest(f, n) == n+1..Len(f)
LinksAfter(f, n) == Links(f, n, n + 1, Len(f))
IsLast(f, n) == n = Len(f)

\* Extents of other files.
Foreign(S, f) == \A x \in S : \A i \in 1..Len(f) : x.key # f[i]

ForeignKeys(U, f) == \A i \in 1..Len(f) : f[i] \notin U

\* Membership of LinksAfter.
LEMMA LinksAfterIs ==
  ASSUME NEW f, NEW n
  PROVE  \A x : x \in LinksAfter(f, n) <=> \E i \in Rest(f, n) : x = Later(f, n, i)
BY DEF LinksAfter, Links, Rest

\* Runs of a file are numbers, and no two are the same.
LEMMA FileIs ==
  ASSUME NEW f, IsFile(f)
  PROVE  /\ Len(f) \in Nat /\ Len(f) >= 1 /\ Len(f) <= MaxRuns /\ MaxRuns \in Nat /\ DOMAIN f = 1..Len(f)
         /\ \A i \in 1..Len(f) : f[i] \in Keys /\ f[i] \in Nat \ {0}
         /\ \A i, j \in 1..Len(f) : f[i] = f[j] => i = j
<1>1. f \in Seq(Keys) /\ Len(f) \in 1..MaxRuns /\ \A i, j \in DOMAIN f : f[i] = f[j] => i = j
  BY DEF IsFile
<1>2. Len(f) \in Nat /\ DOMAIN f = 1..Len(f) /\ \A i \in 1..Len(f) : f[i] \in Keys
  BY <1>1
<1>3. MaxRuns \in Nat /\ Keys \subseteq Nat \ {0}
  BY ExtentTreeAssumption
<1>4. Len(f) >= 1 /\ Len(f) <= MaxRuns
  BY <1>1, <1>2, <1>3
<1> QED BY <1>1, <1>2, <1>3, <1>4

\* The fields of such an extent.
LEMMA LaterIs ==
  ASSUME NEW f, IsFile(f), NEW n \in Nat, NEW i, i \in Rest(f, n)
  PROVE  /\ Later(f, n, i) \in Extents /\ Later(f, n, i).key = f[i]
         /\ Later(f, n, i).next = After(f, i)
         /\ Later(f, n, i).prev = Before(f, n, i)
<1>1. f[i] \in Nat \ {0} /\ After(f, i) \in Nat /\ Before(f, n, i) \in Nat
  <2>1. i \in 1..Len(f)
    BY FileIs DEF Rest
  <2>2. f[i] \in Nat \ {0}
    BY <2>1, FileIs
  <2>3. After(f, i) \in Nat
    <3>1. CASE i < Len(f)
      <4>1. i + 1 \in 1..Len(f)
        BY <2>1, <3>1, FileIs
      <4>2. f[i + 1] \in Nat
        BY <4>1, FileIs
      <4> QED BY <3>1, <4>2 DEF After
    <3> QED BY <3>1 DEF After
  <2>4. Before(f, n, i) \in Nat
    <3>1. CASE i > n + 1
      <4>1. i - 1 \in 1..Len(f)
        BY <2>1, <3>1, FileIs
      <4>2. f[i - 1] \in Nat
        BY <4>1, FileIs
      <4> QED BY <3>1, <4>2 DEF Before
    <3> QED BY <3>1 DEF Before
  <2> QED BY <2>2, <2>3, <2>4
<1> QED BY <1>1 DEF Later, Extent, Extents

\* What write_file adds for run i.
LEMMA ExtentOfIs ==
  ASSUME NEW f, IsFile(f), NEW i \in 1..Len(f)
  PROVE  ExtentOf(f, i) = Later(f, 0, i)
<1>1. i > 0 + 1 <=> i > 1
  BY FileIs
<1> QED BY <1>1 DEF ExtentOf, Later, After, Before

-----------------------------------------------------------------------------
(* Writing a file *)

\* A volume to which the first i extents of f have been added.
Adding(w, v, f, i) ==
  /\ IsVolume(w) /\ w.used = v.used \cup Range(f) /\ w.raised \in BOOLEAN
  /\ ~w.raised => Tree(w.nodes) /\ Store(w.nodes) = Store(v.nodes) \cup Links(f, 0, 1, i)

\* The next extent is added.
LEMMA AddingMore ==
  ASSUME NEW v, NEW f, IsFile(f), Foreign(Store(v.nodes), f),
         NEW i \in 1..Len(f), NEW w, Adding(w, v, f, i - 1)
  PROVE  Adding(AddExtent(w, ExtentOf(f, i)), v, f, i)
<1> DEFINE e == ExtentOf(f, i)
           r == AddExtent(w, e)
<1>1. /\ IsVolume(w) /\ w.used = v.used \cup Range(f) /\ w.raised \in BOOLEAN
      /\ ~w.raised => Tree(w.nodes) /\ Store(w.nodes) = Store(v.nodes) \cup Links(f, 0, 1, i - 1)
  BY DEF Adding
<1>2. CASE w.raised
  <2>1. r = Raised(w)
    BY <1>2 DEF AddExtent
  <2>2. IsVolume(Raised(w)) /\ Raised(w).raised = TRUE /\ Raised(w).used = w.used
    BY <1>1, RaisedIs
  <2>3. Raised(w).raised \in BOOLEAN /\ Raised(w).raised
    BY <2>2
  <2> HIDE DEF r
  <2>4. Adding(Raised(w), v, f, i)
    BY <1>1, <2>2, <2>3 DEF Adding
  <2> QED BY <2>1, <2>4 DEF r, e
<1>3. CASE ~w.raised
  <2>0. Tree(w.nodes) /\ Store(w.nodes) = Store(v.nodes) \cup Links(f, 0, 1, i - 1) /\ IsVolume(w)
    BY <1>1, <1>3
  <2>1. e = Later(f, 0, i)
    BY ExtentOfIs
  <2>2. i \in Rest(f, 0) /\ Len(f) \in Nat
    BY FileIs DEF Rest
  <2>3. e \in Extents /\ e.key = f[i]
    BY <2>1, <2>2, LaterIs
  <2>4. w.raised = No
    BY <1>1, <1>3 DEF No
  <2>5. \A x \in Links(f, 0, 1, i - 1) : x.key # f[i]
    <3> SUFFICES ASSUME NEW j \in 1..i-1 PROVE Later(f, 0, j).key # f[i]
      BY DEF Links
    <3>1. j \in Rest(f, 0) /\ j \in 1..Len(f) /\ j # i
      BY <2>2 DEF Rest
    <3>2. Later(f, 0, j).key = f[j]
      BY <3>1, LaterIs
    <3> QED BY <3>1, <3>2, FileIs
  <2> DEFINE K == Links(f, 0, 1, i - 1)
             k == f[i]
  <2>6. Fresh(w.nodes, e)
    <3>1. \A x \in Store(v.nodes) : x.key # k
      BY DEF Foreign
    <3>2. Store(w.nodes) = Store(v.nodes) \cup K /\ e.key = k /\ \A x \in K : x.key # k
      BY <2>0, <2>3, <2>5
    <3> HIDE DEF K, k, e
    <3> QED BY <3>1, <3>2 DEF Fresh
  <2> HIDE DEF e, r, K, k
  <2>7. /\ IsVolume(r) /\ r.used = w.used /\ r.raised \in BOOLEAN
        /\ ~r.raised => Tree(r.nodes) /\ Store(r.nodes) = Store(w.nodes) \cup {e}
    <3>1. r = AddExtent(w, e)
      BY DEF r
    <3>2. e \in Extents /\ IsVolume(w) /\ Tree(w.nodes)
      BY <2>0, <2>3
    <3> QED BY <2>4, <2>6, <3>1, <3>2, AddExtentIs
  <2>8. Links(f, 0, 1, i) = Links(f, 0, 1, i - 1) \cup {e}
    <3>1. \A j : j \in 1..i <=> j \in 1..i-1 \/ j = i
      BY <2>2
    <3> QED BY <2>1, <3>1 DEF Links
  <2>9. ~r.raised => Store(r.nodes) = Store(v.nodes) \cup Links(f, 0, 1, i)
    BY <1>1, <1>3, <2>7, <2>8
  <2> QED BY <1>1, <2>7, <2>9 DEF Adding, r, e
<1> QED BY <1>1, <1>2, <1>3

\* All the runs of a file are added.
LEMMA AddRunsIs ==
  ASSUME NEW v, IsVolume(v), v.raised = No, Tree(v.nodes), NEW f, IsFile(f),
         Foreign(Store(v.nodes), f)
  PROVE  Adding(AddRuns(v, f), v, f, Len(f))
<1> DEFINE L == Len(f)
           w0 == [v EXCEPT !.used = @ \cup Range(f)]
           Goes(g, m) == g = [i \in 0..m |-> IF i = 0 THEN w0 ELSE AddExtent(g[i - 1], ExtentOf(f, i))]
           T == {m \in Nat : \E g : Goes(g, m)}
<1>1. L \in Nat
  BY FileIs
<1>2. Adding(w0, v, f, 0)
  <2>1. w0 = [nodes |-> v.nodes, used |-> v.used \cup Range(f), raised |-> v.raised]
    <3> DEFINE U == v.used \cup Range(f)
    <3>1. w0 = [v EXCEPT !.used = U]
      OBVIOUS
    <3> HIDE DEF U, w0
    <3>2. [v EXCEPT !.used = U] = [nodes |-> v.nodes, used |-> U, raised |-> v.raised]
      BY DEF IsVolume
    <3> QED BY <3>1, <3>2 DEF U
  <2>2. Links(f, 0, 1, 0) = {}
    BY DEF Links
  <2>3. v.raised \in BOOLEAN
    BY DEF No
  <2> HIDE DEF w0
  <2> QED BY <2>1, <2>2, <2>3 DEF Adding, IsVolume
<1> HIDE DEF w0, L
<1>3. 0 \in T
  <2>1. Goes([i \in 0..0 |-> w0], 0)
    OBVIOUS
  <2> QED BY <2>1
<1>4. ASSUME NEW m \in Nat, m \in T PROVE m + 1 \in T
  <2>1. PICK g : Goes(g, m)
    BY <1>4
  <2> DEFINE h == [i \in 0..m+1 |-> IF i = m + 1 THEN AddExtent(g[m], ExtentOf(f, m + 1)) ELSE g[i]]
  <2>2. \A i \in 0..m+1 : h[i] = IF i = 0 THEN w0 ELSE AddExtent(h[i - 1], ExtentOf(f, i))
    <3> TAKE i \in 0..m+1
    <3>1. CASE i = m + 1
      <4>1. h[i] = AddExtent(g[m], ExtentOf(f, i)) /\ h[i - 1] = g[m] /\ i # 0
        BY <3>1
      <4> QED BY <4>1
    <3>2. CASE i \in 0..m /\ i # 0
      <4>1. i \in 0..m+1 /\ i - 1 \in 0..m+1 /\ i # m + 1 /\ i - 1 # m + 1
        BY <3>2
      <4>2. h[i] = g[i] /\ h[i - 1] = g[i - 1]
        BY <4>1
      <4> QED BY <4>2, <3>2, <2>1
    <3>3. CASE i = 0
      BY <3>3, <2>1
    <3> QED BY <3>1, <3>2, <3>3
  <2>3. Goes(h, m + 1)
    <3>1. h = [i \in 0..m+1 |-> h[i]]
      OBVIOUS
    <3> HIDE DEF h
    <3> QED BY <3>1, <2>2
  <2> HIDE DEF Goes, h
  <2> QED BY <2>3
<1>5. \E g : Goes(g, L)
  <2>1. \A m \in Nat : m \in T
    <3> HIDE DEF T
    <3> QED BY <1>3, <1>4, ExtentInduction
  <2> QED BY <1>1, <2>1
<1> DEFINE g == CHOOSE h : Goes(h, L)
<1>6. Goes(g, L)
  <2> HIDE DEF Goes
  <2> QED BY <1>5
<1>7. AddRuns(v, f) = g[L]
  BY DEF AddRuns, w0, L
<1> HIDE DEF g
<1>8. g[0] = w0 /\ \A i \in 1..L : g[i] = AddExtent(g[i - 1], ExtentOf(f, i))
  <2>1. g[0] = w0
    BY <1>1, <1>6
  <2>2. ASSUME NEW i \in 1..L PROVE g[i] = AddExtent(g[i - 1], ExtentOf(f, i))
    <3>1. i \in 0..L /\ i # 0
      BY <1>1
    <3> QED BY <1>6, <3>1
  <2> QED BY <2>1, <2>2
<1> HIDE DEF Goes, T
<1> DEFINE I == {i \in Nat : i <= L => Adding(g[i], v, f, i)}
<1>9. 0 \in I
  BY <1>2, <1>8
<1>10. ASSUME NEW i \in Nat, i \in I PROVE i + 1 \in I
  <2> SUFFICES ASSUME i + 1 <= L PROVE Adding(g[i + 1], v, f, i + 1)
    OBVIOUS
  <2> DEFINE j == i + 1
  <2>1. j \in 1..L /\ j - 1 = i /\ i <= L
    BY <1>1
  <2>2. Adding(g[i], v, f, i)
    BY <1>10, <2>1
  <2> HIDE DEF j, I
  <2>3. Adding(g[i], v, f, j - 1) /\ g[j] = AddExtent(g[i], ExtentOf(f, j))
    BY <1>8, <2>1, <2>2
  <2>4. Adding(AddExtent(g[i], ExtentOf(f, j)), v, f, j)
    BY <2>1, <2>3, AddingMore DEF L
  <2> QED BY <2>3, <2>4 DEF j
<1>11. \A i \in Nat : i \in I
  <2> HIDE DEF I
  <2> QED BY <1>9, <1>10, ExtentInduction
<1>12. Adding(g[L], v, f, L)
  BY <1>1, <1>11
<1> QED BY <1>7, <1>12 DEF L

-----------------------------------------------------------------------------
(* Deleting a file *)

IsRest(r) == r = [vol |-> r.vol, key |-> r.key]

\* The first n extents of f have been removed, and S and U are the others'.
Removing(r, f, n, S, U) ==
  /\ IsRest(r) /\ IsVolume(r.vol) /\ r.vol.raised = No /\ Tree(r.vol.nodes)
  /\ Store(r.vol.nodes) = S \cup LinksAfter(f, n)
  /\ r.vol.used = U \cup {f[i] : i \in n+1..Len(f)}
  /\ r.key = After(f, n)

\* Membership of Links.
LEMMA LinksIs ==
  ASSUME NEW f, NEW n, NEW m, NEW k
  PROVE  \A x : x \in Links(f, n, m, k) <=> \E i \in m..k : x = Later(f, n, i)
BY DEF Links

\* What is in the links of a file is known by one of its keys.
LEMMA LinkFound ==
  ASSUME NEW f, IsFile(f), NEW S, Foreign(S, f),
         NEW n \in Nat, NEW i, i \in Rest(f, n),
         NEW x, x \in S \cup LinksAfter(f, n), x.key = f[i]
  PROVE  x = Later(f, n, i)
<1>1. \A j \in Rest(f, n) : j \in 1..Len(f)
  BY FileIs DEF Rest
<1>2. x \in LinksAfter(f, n)
  BY <1>1 DEF Foreign
<1>3. PICK j \in Rest(f, n) : x = Later(f, n, j)
  BY <1>2, LinksAfterIs
<1>4. Later(f, n, j).key = f[j]
  BY LaterIs
<1>5. j = i
  BY <1>1, <1>3, <1>4, FileIs
<1> QED BY <1>3, <1>5

\* The links that are left when the last extent has been removed, or one that has
\* a next.
Steps(n, a, b) == n \in Nat /\ a = n + 1 /\ b = n + 2

\* Without the last extent nothing of the file is left.
LEMMA LinksLast ==
  ASSUME NEW f, IsFile(f), NEW S, Foreign(S, f),
         NEW n, NEW a, NEW b, Steps(n, a, b), a \in Rest(f, n), IsLast(f, a),
         NEW key, key = f[a], NEW all, all = S \cup LinksAfter(f, n)
  PROVE  Without(all, key) = S \cup LinksAfter(f, a)
<1> DEFINE L == Len(f)
<1>0. n \in Nat /\ a = n + 1 /\ b = n + 2
  BY DEF Steps
<1>1. L \in Nat /\ \A i, j \in 1..L : f[i] = f[j] => i = j
  BY FileIs
<1>2. \A i \in Rest(f, n) : i \in 1..L /\ Later(f, n, i).key = f[i]
  BY <1>0, <1>1, LaterIs DEF Rest
<1>5. LinksAfter(f, n) = Links(f, n, a, L) /\ LinksAfter(f, a) = Links(f, a, b, L)
  <2>1. a + 1 = b /\ n + 1 = a
    BY <1>0
  <2> QED BY <2>1 DEF LinksAfter, L
<1>6. IsLast(f, a) => a = L
  BY DEF IsLast, L
<1>7. \A i : i \in Rest(f, n) <=> i \in a..L
  BY <1>0 DEF Rest, L
<1>8. \A x \in S : \A i \in 1..L : x.key # f[i]
  BY DEF L, Foreign
<1> HIDE DEF L
<1>3. Without(all, key) = S \cup Links(f, a, b, L)
  <2>1. Links(f, a, b, L) = {}
    BY <1>0, <1>6 DEF Links
  <2>2. \A x : x \in Links(f, n, a, L) <=> x = Later(f, n, a)
    <3>1. \A i : i \in a..L <=> i = a
      BY <1>0, <1>6
    <3> QED BY <3>1, LinksIs
  <2>3. Later(f, n, a).key = key /\ \A x \in S : x.key # key
    BY <1>2, <1>8
  <2>4. Without(all, key) = S
    BY <1>5, <2>2, <2>3 DEF Without
  <2> QED BY <2>1, <2>4
<1> QED BY <1>3, <1>5

\* Without the first extent the next one is first.
LEMMA LinksNext ==
  ASSUME NEW f, IsFile(f), NEW S, Foreign(S, f),
         NEW n, NEW a, NEW b, Steps(n, a, b), a \in Rest(f, n), b \in Rest(f, n),
         NEW key, key = f[a], NEW next, next = f[b], NEW old, old = Later(f, n, b),
         NEW all, all = S \cup LinksAfter(f, n)
  PROVE  Relinked(all, key, next, old) = S \cup LinksAfter(f, a)
<1> DEFINE L == Len(f)
<1>0. n \in Nat /\ a = n + 1 /\ b = n + 2
  BY DEF Steps
<1>1. L \in Nat /\ \A i, j \in 1..L : f[i] = f[j] => i = j
  BY FileIs
<1>2. \A i \in Rest(f, n) : i \in 1..L /\ Later(f, n, i).key = f[i]
  BY <1>0, <1>1, LaterIs DEF Rest
<1>5. LinksAfter(f, n) = Links(f, n, a, L) /\ LinksAfter(f, a) = Links(f, a, b, L)
  <2>1. a + 1 = b /\ n + 1 = a
    BY <1>0
  <2> QED BY <2>1 DEF LinksAfter, L
<1>7. \A i : i \in Rest(f, n) <=> i \in a..L
  BY <1>0 DEF Rest, L
<1>8. \A x \in S : \A i \in 1..L : x.key # f[i]
  BY DEF L, Foreign
<1> HIDE DEF L
<1>4. Relinked(all, key, f[b], Later(f, n, b)) = S \cup Links(f, a, b, L)
  <2>0. b \in a..L
    BY <1>7
  <2>1. a \in 1..L /\ b \in 1..L /\ a # b
    BY <1>0, <1>1, <2>0
  <2>2. First(Later(f, n, b)) = Later(f, a, b)
    <3>1. ~(b > a + 1)
      BY <1>0
    <3> QED BY <3>1 DEF First, Later, Before, Extent
  <2>3. \A i \in b+1..L : Later(f, n, i) = Later(f, a, i)
    <3> TAKE i \in b+1..L
    <3>1. i > n + 1 /\ i > a + 1
      BY <1>0, <1>1
    <3> QED BY <3>1 DEF Later, Before
  <2>4. \A i : i \in a..L <=> i = a \/ i = b \/ i \in b+1..L
    BY <1>0, <1>1, <2>0
  <2>5. \A i : i \in b..L <=> i = b \/ i \in b+1..L
    BY <1>0, <1>1, <2>0
  <2>6. \A i \in b+1..L : i \in a..L /\ i \in 1..L /\ i # a /\ i # b
    BY <1>0, <1>1, <2>1
  <2> DEFINE T == b+1..L
  <2> HIDE DEF T
  <2>8. /\ \A x : x \in Links(f, n, a, L)
                    <=> x = Later(f, n, a) \/ x = Later(f, n, b) \/ \E i \in T : x = Later(f, n, i)
        /\ \A x : x \in Links(f, a, b, L)
                    <=> x = Later(f, a, b) \/ \E i \in T : x = Later(f, a, i)
    <3>1. /\ \A x : x \in Links(f, n, a, L) <=> \E i \in a..L : x = Later(f, n, i)
          /\ \A x : x \in Links(f, a, b, L) <=> \E i \in b..L : x = Later(f, a, i)
      BY DEF Links
    <3>2. /\ \A i : i \in a..L <=> i = a \/ i = b \/ i \in T
          /\ \A i : i \in b..L <=> i = b \/ i \in T
      BY <2>4, <2>5 DEF T
    <3> DEFINE A == a..L
               B == b..L
    <3> HIDE DEF A, B
    <3>3. /\ \A x : x \in Links(f, n, a, L) <=> \E i \in A : x = Later(f, n, i)
          /\ \A x : x \in Links(f, a, b, L) <=> \E i \in B : x = Later(f, a, i)
          /\ \A i : i \in A <=> i = a \/ i = b \/ i \in T
          /\ \A i : i \in B <=> i = b \/ i \in T
      BY <3>1, <3>2 DEF A, B
    <3> QED BY <3>3
  <2>9. /\ Later(f, n, a).key = f[a] /\ Later(f, n, b).key = f[b] /\ f[a] # f[b]
        /\ \A i \in T : Later(f, n, i).key # f[a] /\ Later(f, n, i).key # f[b]
    BY <1>1, <1>2, <1>7, <2>1, <2>6 DEF T
  <2>10. \A x \in S : x.key # f[a] /\ x.key # f[b]
    BY <1>8, <2>1
  <2>13. \A i \in T : Later(f, n, i) = Later(f, a, i)
    BY <2>3 DEF T
  <2>11. \A x : x \in Without(Without(all, key), f[b])
                  <=> x \in S \/ \E i \in T : x = Later(f, a, i)
    BY <1>5, <2>8, <2>9, <2>10, <2>13 DEF Without
  <2>12. Without(Without(all, key), f[b]) \cup {Later(f, a, b)} = S \cup Links(f, a, b, L)
    BY <2>8, <2>11
  <2> QED BY <2>2, <2>12 DEF Relinked
<1> QED BY <1>4, <1>5

\* A run of an extent that was removed is no longer marked.
Unmarked(v, key) == [v EXCEPT !.used = @ \ {key}]

\* Only the bitmap changes.
LEMMA UnmarkedIs ==
  ASSUME NEW v, IsVolume(v), NEW key
  PROVE  /\ IsVolume(Unmarked(v, key)) /\ Unmarked(v, key).used = v.used \ {key}
         /\ Unmarked(v, key).nodes = v.nodes /\ Unmarked(v, key).raised = v.raised
<1> DEFINE U == v.used \ {key}
           w == [v EXCEPT !.used = U]
<1>1. Unmarked(v, key) = w
  BY DEF Unmarked
<1> HIDE DEF U
<1>2. w = [nodes |-> v.nodes, used |-> U, raised |-> v.raised]
  BY DEF IsVolume
<1> HIDE DEF w
<1> QED BY <1>1, <1>2 DEF IsVolume, U

\* What is found under a key of the file.
LEMMA LinkKnown ==
  ASSUME NEW v, Tree(v.nodes), NEW f, IsFile(f),
         NEW S, Foreign(S, f),
         NEW n \in Nat, Store(v.nodes) = S \cup LinksAfter(f, n),
         NEW i, i \in Rest(f, n), NEW key, key = f[i]
  PROVE  Known(v, key) /\ Found(v, key) = Later(f, n, i)
<1>1. i \in 1..Len(f)
  BY FileIs DEF Rest
<1>2. f[i] \in Nat
  BY <1>1, FileIs
<1>3. Later(f, n, i) \in Store(v.nodes) /\ Later(f, n, i).key = f[i]
  BY LinksAfterIs, LaterIs
<1>4. Known(v, f[i])
  BY <1>2, <1>3, KnownIs
<1>5. Found(v, f[i]) \in Store(v.nodes) /\ Found(v, f[i]).key = f[i]
  BY <1>2, <1>4, KnownIs
<1>6. Found(v, f[i]) = Later(f, n, i)
  BY <1>5, LinkFound
<1> QED BY <1>4, <1>6

\* The next extent is removed.
LEMMA RemovingMore ==
  ASSUME NEW f, IsFile(f), NEW S, Foreign(S, f),
         NEW U, ForeignKeys(U, f),
         NEW n \in Nat, NEW r, Removing(r, f, n, S, U), Spared(r.vol, r.key)
  PROVE  Removing(RemoveNext(r), f, n + 1, S, U)
<1> DEFINE L == Len(f)
           v == r.vol
           key == r.key
<1>1. L \in Nat /\ (\A i \in 1..L : f[i] \in Nat \ {0}) /\ \A i, j \in 1..L : f[i] = f[j] => i = j
  BY FileIs
<1>2. /\ IsRest(r) /\ IsVolume(v) /\ v.raised = No /\ Tree(v.nodes)
      /\ Store(v.nodes) = S \cup LinksAfter(f, n)
      /\ v.used = U \cup {f[i] : i \in n+1..L}
      /\ key = After(f, n)
  BY DEF Removing
<1> HIDE DEF L, v, key
<1>3. CASE ~(n < L)
  <2>1. key = 0
    BY <1>2, <1>3 DEF After, L
  <2>2. RemoveNext(r) = r
    BY <2>1 DEF RemoveNext, key
  <2>3. LinksAfter(f, n) = {} /\ LinksAfter(f, n + 1) = {}
    BY <1>1, <1>3 DEF LinksAfter, Links, L
  <2>4. {f[i] : i \in n+1..L} = {} /\ {f[i] : i \in n+1+1..L} = {}
    BY <1>1, <1>3
  <2>5. After(f, n + 1) = 0
    BY <1>1, <1>3 DEF After, L
  <2>6. /\ Store(v.nodes) = S \cup LinksAfter(f, n + 1)
        /\ v.used = U \cup {f[i] : i \in n+1+1..L}
    BY <1>2, <2>3, <2>4
  <2>7. r.key = After(f, n + 1)
    BY <2>1, <2>5 DEF key
  <2> QED BY <1>2, <2>2, <2>6, <2>7 DEF Removing, v, L
<1>4. CASE n < L
  <2> DEFINE e == Later(f, n, n + 1)
             out == RemoveExtent(v, key)
             next == After(f, n + 1)
  <2>1. n + 1 \in n+1..L /\ n + 1 \in 1..L /\ n + 1 \in Rest(f, n)
    BY <1>1, <1>4 DEF Rest, L
  <2>2. key = f[n + 1] /\ key \in Nat \ {0}
    BY <1>1, <1>2, <1>4, <2>1 DEF After, L
  <2>3. Known(v, key) /\ Found(v, key) = e
    <3> DEFINE a == n + 1
    <3>1. a \in Rest(f, n) /\ key = f[a]
      BY <2>1, <2>2
    <3> HIDE DEF a, e
    <3>2. Known(v, key) /\ Found(v, key) = Later(f, n, a)
      BY <1>2, <3>1, LinkKnown
    <3> QED BY <3>2 DEF a, e
  <2>4. e.next = next /\ e.prev = 0
    <3>1. Before(f, n, n + 1) = 0
      BY DEF Before
    <3> QED BY <2>1, <3>1, LaterIs DEF L
  <2>5. next \in Nat /\ next # key /\ (next # 0 => Known(v, next) /\ n + 1 < L /\ next = f[n + 2])
        /\ (n + 1 < L => next # 0)
    <3>1. CASE n + 1 < L
      <4>1. n + 2 \in n+1..L /\ n + 2 \in 1..L /\ n + 2 # n + 1
        BY <1>1, <3>1
      <4>5. n + 2 \in Rest(f, n)
        BY <4>1 DEF Rest, L
      <4>2. next = f[n + 2]
        BY <3>1 DEF After, L
      <4>3. Known(v, f[n + 2])
        BY <1>2, <4>5, LinkKnown
      <4>4. f[n + 2] \in Nat \ {0} /\ f[n + 2] # f[n + 1]
        BY <1>1, <2>1, <4>1
      <4> QED BY <2>2, <3>1, <4>2, <4>3, <4>4
    <3>2. CASE ~(n + 1 < L)
      <4>1. next = 0
        BY <3>2 DEF After, L
      <4> QED BY <2>2, <3>2, <4>1
    <3> QED BY <3>1, <3>2
  <2> HIDE DEF e, out, next
  <2>6. /\ IsVolume(out) /\ out.used = v.used /\ out.raised = No /\ Tree(out.nodes)
        /\ Unlinked(Store(v.nodes), e, key, Store(out.nodes))
    <3>1. Spared(v, key) /\ out = RemoveExtent(v, key)
      BY DEF v, key, out
    <3>2. Heads(v, e, key)
      BY <2>3, <2>4, <2>5 DEF Heads
    <3> QED BY ZenonT(40), <1>2, <2>2, <3>1, <3>2, RemoveExtentIs
  <2>7. Store(out.nodes) = S \cup LinksAfter(f, n + 1)
    <3> DEFINE all == Store(v.nodes)
    <3> DEFINE a == n + 1
               b == n + 2
    <3>1. all = S \cup LinksAfter(f, n) /\ key = f[a] /\ a \in Rest(f, n)
      BY <1>2, <2>1, <2>2
    <3>5. Steps(n, a, b)
      BY DEF Steps
    <3>2. CASE next = 0
      <4>1. IsLast(f, a)
        BY <1>1, <1>4, <2>5, <3>2 DEF IsLast, L
      <4>2. Store(out.nodes) = Without(all, key)
        BY <2>4, <2>6, <3>2 DEF Unlinked
      <4> HIDE DEF all, a, b
      <4>3. Without(all, key) = S \cup LinksAfter(f, a)
        BY <3>1, <3>5, <4>1, LinksLast
      <4> QED BY <4>2, <4>3 DEF a
    <3>3. CASE next # 0
      <4>1. n + 1 < L /\ next = f[b]
        BY <2>5, <3>3
      <4>2. PICK z \in all : /\ z.key = next
                             /\ Store(out.nodes) = Relinked(all, key, next, z)
        BY <2>4, <2>6, <3>3 DEF Unlinked
      <4>3. b \in Rest(f, n)
        BY <1>1, <4>1 DEF Rest, L
      <4> HIDE DEF a, b
      <4>4. z = Later(f, n, b)
        BY <3>1, <3>5, <4>1, <4>2, <4>3, LinkFound
      <4> HIDE DEF all
      <4>5. next = f[b]
        BY <4>1
      <4>6. Relinked(all, key, next, z) = S \cup LinksAfter(f, a)
        BY <3>1, <3>5, <4>3, <4>4, <4>5, LinksNext
      <4> QED BY <4>2, <4>6 DEF a
    <3> QED BY <3>2, <3>3
  <2> DEFINE w == Unmarked(out, key)
             new == [vol |-> w, key |-> next]
  <2>8. RemoveNext(r) = new
    <3>1. ~(r.key = 0 \/ r.vol.raised) /\ ~out.raised
      BY <1>2, <2>2, <2>6 DEF No, v, key
    <3>2. RemoveNext(r) = [vol |-> [out EXCEPT !.used = @ \ {r.key}], key |-> Found(r.vol, r.key).next]
      BY <3>1 DEF RemoveNext, out, v, key
    <3> QED BY <2>3, <2>4, <3>2 DEF Unmarked, v, key
  <2>9. IsVolume(w) /\ w.used = v.used \ {key} /\ w.nodes = out.nodes /\ w.raised = No
    BY <2>6, UnmarkedIs
  <2>10. w.used = U \cup {f[i] : i \in n+2..L}
    <3>1. \A i : i \in n+1..L <=> i = n + 1 \/ i \in n+2..L
      BY <1>1, <2>1
    <3>2. \A i \in n+2..L : i \in 1..L /\ i # n + 1
      BY <1>1
    <3>3. \A i \in n+2..L : f[i] # key
      BY <1>1, <2>1, <2>2, <3>2
    <3>4. key \notin U
      BY <2>1, <2>2 DEF L, ForeignKeys
    <3>5. {f[i] : i \in n+1..L} = {f[i] : i \in n+2..L} \cup {key}
      BY <2>2, <3>1
    <3> QED BY <1>2, <2>9, <3>3, <3>4, <3>5
  <2>11. IsRest(new) /\ new.vol = w /\ new.key = next
    BY DEF IsRest
  <2>12. n + 1 + 1 = n + 2
    OBVIOUS
  <2> HIDE DEF w, new
  <2> QED BY <2>6, <2>7, <2>8, <2>9, <2>10, <2>11, <2>12 DEF Removing, L, next
<1> QED BY <1>3, <1>4

\* RemoveRuns takes one extent after the other.
LEMMA RemoveRunsStep ==
  ASSUME NEW v, NEW h
  PROVE  /\ RemoveRuns(v, h, 0) = [vol |-> v, key |-> h]
         /\ \A n \in 0..MaxRuns-1 : RemoveRuns(v, h, n + 1) = RemoveNext(RemoveRuns(v, h, n))
<1> DEFINE L == MaxRuns
           w0 == [vol |-> v, key |-> h]
           Goes(g, m) == g = [i \in 0..m |-> IF i = 0 THEN w0 ELSE RemoveNext(g[i - 1])]
           T == {m \in Nat : \E g : Goes(g, m)}
<1>1. L \in Nat
  BY ExtentTreeAssumption
<1> HIDE DEF w0, L
<1>3. 0 \in T
  <2>1. Goes([i \in 0..0 |-> w0], 0)
    OBVIOUS
  <2> QED BY <2>1
<1>4. ASSUME NEW m \in Nat, m \in T PROVE m + 1 \in T
  <2>1. PICK g : Goes(g, m)
    BY <1>4
  <2> DEFINE f == [i \in 0..m+1 |-> IF i = m + 1 THEN RemoveNext(g[m]) ELSE g[i]]
  <2>2. \A i \in 0..m+1 : f[i] = IF i = 0 THEN w0 ELSE RemoveNext(f[i - 1])
    <3> TAKE i \in 0..m+1
    <3>1. CASE i = m + 1
      <4>1. f[i] = RemoveNext(g[m]) /\ f[i - 1] = g[m] /\ i # 0
        BY <3>1
      <4> QED BY <4>1
    <3>2. CASE i \in 0..m /\ i # 0
      <4>1. i \in 0..m+1 /\ i - 1 \in 0..m+1 /\ i # m + 1 /\ i - 1 # m + 1
        BY <3>2
      <4>2. f[i] = g[i] /\ f[i - 1] = g[i - 1]
        BY <4>1
      <4> QED BY <4>2, <3>2, <2>1
    <3>3. CASE i = 0
      BY <3>3, <2>1
    <3> QED BY <3>1, <3>2, <3>3
  <2>3. Goes(f, m + 1)
    <3>1. f = [i \in 0..m+1 |-> f[i]]
      OBVIOUS
    <3> HIDE DEF f
    <3> QED BY <3>1, <2>2
  <2> HIDE DEF Goes, f
  <2> QED BY <2>3
<1>5. \E g : Goes(g, L)
  <2>1. \A m \in Nat : m \in T
    <3> HIDE DEF T
    <3> QED BY <1>3, <1>4, ExtentInduction
  <2> QED BY <1>1, <2>1
<1> DEFINE g == CHOOSE f : Goes(f, L)
<1>6. Goes(g, L)
  <2> HIDE DEF Goes
  <2> QED BY <1>5
<1>7. \A n : RemoveRuns(v, h, n) = g[n]
  BY DEF RemoveRuns, w0, L
<1> HIDE DEF g
<1>8. g[0] = w0
  BY <1>1, <1>6
<1>9. ASSUME NEW n \in 0..L-1 PROVE g[n + 1] = RemoveNext(g[n])
  <2>1. n + 1 \in 0..L /\ n + 1 # 0 /\ (n + 1) - 1 = n
    BY <1>1
  <2> QED BY <1>6, <2>1
<1> QED BY <1>7, <1>8, <1>9 DEF w0, L

\* Every extent of f on the way is one that the loop of _remove_extent can take.
SparedAll(v, h) ==
  \A n \in 0..MaxRuns-1 : Spared(RemoveRuns(v, h, n).vol, RemoveRuns(v, h, n).key)

\* All the runs of a file are removed.
LEMMA RemoveRunsIs ==
  ASSUME NEW v, IsVolume(v), v.raised = No, Tree(v.nodes), NEW f, IsFile(f),
         NEW S, Foreign(S, f), Store(v.nodes) = S \cup ExtentsOf(f),
         NEW U, ForeignKeys(U, f), v.used = U \cup Range(f),
         NEW h, h = f[1], SparedAll(v, h),
         NEW r, r = RemoveRuns(v, h, MaxRuns).vol
  PROVE  /\ IsVolume(r) /\ r.raised = No /\ Tree(r.nodes)
         /\ Store(r.nodes) = S /\ r.used = U
<1> DEFINE w(n) == RemoveRuns(v, h, n)
           I == {n \in Nat : n <= MaxRuns => Removing(w(n), f, n, S, U)}
<1>1. MaxRuns \in Nat
  BY ExtentTreeAssumption
<1>2. w(0) = [vol |-> v, key |-> h]
  BY RemoveRunsStep
<1>3. \A n \in 0..MaxRuns-1 : w(n + 1) = RemoveNext(w(n)) /\ Spared(w(n).vol, w(n).key)
  BY SMTT(40), RemoveRunsStep DEF SparedAll
<1> HIDE DEF w
<1>4. Removing(w(0), f, 0, S, U)
  <2>1. IsRest(w(0)) /\ w(0).vol = v /\ w(0).key = h
    BY <1>2 DEF IsRest
  <2>2. LinksAfter(f, 0) = ExtentsOf(f)
    BY DEF LinksAfter, ExtentsOf
  <2>3. After(f, 0) = f[1]
    BY FileIs DEF After
  <2>4. Range(f) = {f[i] : i \in 0+1..Len(f)}
    <3>1. DOMAIN f = 0+1..Len(f)
      BY FileIs
    <3> QED BY <3>1 DEF Range
  <2> QED BY <2>1, <2>2, <2>3, <2>4 DEF Removing
<1>5. 0 \in I
  BY <1>4
<1>6. ASSUME NEW n \in Nat, n \in I PROVE n + 1 \in I
  <2> SUFFICES ASSUME n + 1 <= MaxRuns PROVE Removing(w(n + 1), f, n + 1, S, U)
    OBVIOUS
  <2>1. n <= MaxRuns /\ n \in 0..MaxRuns-1
    BY <1>1
  <2>2. Removing(w(n), f, n, S, U)
    BY <1>6, <2>1
  <2>3. w(n + 1) = RemoveNext(w(n)) /\ Spared(w(n).vol, w(n).key)
    BY <1>3, <2>1
  <2> DEFINE q == w(n)
  <2>4. Removing(q, f, n, S, U) /\ Spared(q.vol, q.key)
    BY <2>2, <2>3
  <2> HIDE DEF q, I
  <2>5. Removing(RemoveNext(q), f, n + 1, S, U)
    BY <2>4, RemovingMore
  <2> QED BY <2>3, <2>5 DEF q
<1>7. \A n \in Nat : n \in I
  <2> HIDE DEF I
  <2> QED BY <1>5, <1>6, ExtentInduction
<1> DEFINE q == w(MaxRuns)
<1>8. Removing(q, f, MaxRuns, S, U)
  BY <1>1, <1>7
<1>9. r = q.vol
  BY DEF w
<1> HIDE DEF q, I
<1>10. LinksAfter(f, MaxRuns) = {} /\ {f[i] : i \in MaxRuns+1..Len(f)} = {}
  <2>1. \A i : i \notin MaxRuns+1..Len(f)
    BY FileIs
  <2> QED BY <2>1 DEF LinksAfter, Links
<1> QED BY <1>8, <1>9, <1>10 DEF Removing

-----------------------------------------------------------------------------
(* Reading a file *)

\* The first n runs of f have been read.
ReadTo(f, n) == [runs |-> SubSeq(f, 1, n), key |-> After(f, n)]

\* A reader follows one link, up to the end of the file.
LEMMA FollowIs ==
  ASSUME NEW v, Tree(v.nodes), NEW f, IsFile(f),
         NEW S, Foreign(S, f), Store(v.nodes) = S \cup ExtentsOf(f), NEW n \in Nat
  PROVE  /\ n < Len(f) => Follow(v, ReadTo(f, n)) = ReadTo(f, n + 1)
         /\ ~(n < Len(f)) => Follow(v, ReadTo(f, n)) = ReadTo(f, n)
<1> DEFINE L == Len(f)
           r == ReadTo(f, n)
<1>1. L \in Nat /\ f \in Seq(Keys) /\ \A i \in 1..L : f[i] \in Nat \ {0}
  BY FileIs DEF IsFile
<1>2. r.runs = SubSeq(f, 1, n) /\ r.key = After(f, n)
  BY DEF ReadTo
<1> HIDE DEF L
<1>3. ASSUME ~(n < L) PROVE Follow(v, r) = r
  <2>1. r.key = 0
    BY <1>2, <1>3 DEF After, L
  <2> QED BY <2>1 DEF Follow
<1>4. ASSUME n < L PROVE Follow(v, r) = ReadTo(f, n + 1)
  <2> DEFINE m == n + 1
  <2>1. m \in 1..L /\ m \in Rest(f, 0)
    BY <1>1, <1>4 DEF Rest, L
  <2>2. r.key = f[m] /\ r.key # 0
    BY <1>1, <1>2, <1>4, <2>1 DEF After, L
  <2>3. LinksAfter(f, 0) = ExtentsOf(f)
    BY DEF LinksAfter, ExtentsOf
  <2> DEFINE k == f[m]
             z == 0
  <2> HIDE DEF r, m
  <2>4. Known(v, k) /\ Found(v, k) = Later(f, 0, m)
    <3>1. Store(v.nodes) = S \cup LinksAfter(f, z) /\ m \in Rest(f, z) /\ z \in Nat
      BY <2>1, <2>3
    <3> HIDE DEF z, k
    <3>2. Known(v, k) /\ Found(v, k) = Later(f, z, m)
      BY <2>1, <3>1, LinkKnown DEF k
    <3> QED BY <3>2 DEF z
  <2>5. Later(f, 0, m).next = After(f, m)
    BY <2>1, LaterIs
  <2>6. Follow(v, r) = [runs |-> Append(r.runs, k), key |-> After(f, m)]
    BY <2>2, <2>4, <2>5 DEF Follow
  <2>7. Append(SubSeq(f, 1, n), k) = SubSeq(f, 1, m)
    BY <1>1, <2>1 DEF m, L
  <2> QED BY <1>2, <2>6, <2>7 DEF ReadTo, m, r
<1> QED BY <1>3, <1>4 DEF L

\* What a reader finds from the first run on is the file.
LEMMA ChainFromIs ==
  ASSUME NEW v, Tree(v.nodes), NEW f, IsFile(f),
         NEW S, Foreign(S, f), Store(v.nodes) = S \cup ExtentsOf(f), NEW h, h = f[1]
  PROVE  ChainFrom(v, h) = f
<1> DEFINE M == MaxRuns + 1
           L == Len(f)
           w0 == [runs |-> <<>>, key |-> h]
           Goes(g, m) == g = [n \in 0..m |-> IF n = 0 THEN w0 ELSE Follow(v, g[n - 1])]
           T == {m \in Nat : \E g : Goes(g, m)}
<1>1. M \in Nat /\ L \in Nat /\ L >= 1 /\ L <= M /\ f \in Seq(Keys)
  BY FileIs DEF IsFile
<1>2. w0 = ReadTo(f, 0)
  <2>1. SubSeq(f, 1, 0) = <<>> /\ 0 < L
    BY <1>1
  <2> QED BY <2>1 DEF ReadTo, After
<1> HIDE DEF w0, L, M
<1>3. 0 \in T
  <2>1. Goes([n \in 0..0 |-> w0], 0)
    OBVIOUS
  <2> QED BY <2>1
<1>4. ASSUME NEW m \in Nat, m \in T PROVE m + 1 \in T
  <2>1. PICK g : Goes(g, m)
    BY <1>4
  <2> DEFINE q == [n \in 0..m+1 |-> IF n = m + 1 THEN Follow(v, g[m]) ELSE g[n]]
  <2>2. \A n \in 0..m+1 : q[n] = IF n = 0 THEN w0 ELSE Follow(v, q[n - 1])
    <3> TAKE n \in 0..m+1
    <3>1. CASE n = m + 1
      <4>1. q[n] = Follow(v, g[m]) /\ q[n - 1] = g[m] /\ n # 0
        BY <3>1
      <4> QED BY <4>1
    <3>2. CASE n \in 0..m /\ n # 0
      <4>1. n \in 0..m+1 /\ n - 1 \in 0..m+1 /\ n # m + 1 /\ n - 1 # m + 1
        BY <3>2
      <4>2. q[n] = g[n] /\ q[n - 1] = g[n - 1]
        BY <4>1
      <4> QED BY <4>2, <3>2, <2>1
    <3>3. CASE n = 0
      BY <3>3, <2>1
    <3> QED BY <3>1, <3>2, <3>3
  <2>3. Goes(q, m + 1)
    <3>1. q = [n \in 0..m+1 |-> q[n]]
      OBVIOUS
    <3> HIDE DEF q
    <3> QED BY <3>1, <2>2
  <2> HIDE DEF Goes, q
  <2> QED BY <2>3
<1>5. \E g : Goes(g, M)
  <2>1. \A m \in Nat : m \in T
    <3> HIDE DEF T
    <3> QED BY <1>3, <1>4, ExtentInduction
  <2> QED BY <1>1, <2>1
<1> DEFINE g == CHOOSE q : Goes(q, M)
<1>6. Goes(g, M)
  <2> HIDE DEF Goes
  <2> QED BY <1>5
<1>7. ChainFrom(v, h) = g[M].runs
  BY DEF ChainFrom, w0, M
<1> HIDE DEF g
<1>8. g[0] = w0 /\ \A n \in 1..M : g[n] = Follow(v, g[n - 1])
  <2>1. g[0] = w0
    BY <1>1, <1>6
  <2>2. ASSUME NEW n \in 1..M PROVE g[n] = Follow(v, g[n - 1])
    <3>1. n \in 0..M /\ n # 0
      BY <1>1
    <3> QED BY <1>6, <3>1
  <2> QED BY <2>1, <2>2
<1> HIDE DEF Goes, T
<1> DEFINE I == {n \in Nat : n <= M => g[n] = ReadTo(f, IF n < L THEN n ELSE L)}
<1>9. 0 \in I
  BY <1>1, <1>2, <1>8
<1>10. ASSUME NEW n \in Nat, n \in I PROVE n + 1 \in I
  <2> SUFFICES ASSUME n + 1 <= M PROVE g[n + 1] = ReadTo(f, IF n + 1 < L THEN n + 1 ELSE L)
    OBVIOUS
  <2> DEFINE j == n + 1
  <2>1. j \in 1..M /\ j - 1 = n /\ n <= M
    BY <1>1
  <2>2. g[n] = ReadTo(f, IF n < L THEN n ELSE L)
    BY <1>10, <2>1
  <2>3. g[j] = Follow(v, g[n])
    BY <1>8, <2>1
  <2>4. CASE n < L
    <3>1. Follow(v, ReadTo(f, n)) = ReadTo(f, n + 1)
      BY <2>4, FollowIs DEF L
    <3>2. (IF n + 1 < L THEN n + 1 ELSE L) = n + 1
      BY <1>1, <2>4
    <3> QED BY <2>2, <2>3, <2>4, <3>1, <3>2
  <2>5. CASE ~(n < L)
    <3> DEFINE k == L
    <3>1. k \in Nat /\ ~(k < Len(f))
      BY <1>1 DEF L
    <3> HIDE DEF k
    <3>2. Follow(v, ReadTo(f, k)) = ReadTo(f, k)
      BY <3>1, FollowIs
    <3>3. (IF n + 1 < L THEN n + 1 ELSE L) = L
      BY <1>1, <2>5
    <3> QED BY <2>2, <2>3, <2>5, <3>2, <3>3 DEF k
  <2> QED BY <2>4, <2>5
<1>11. \A n \in Nat : n \in I
  <2> HIDE DEF I
  <2> QED BY <1>9, <1>10, ExtentInduction
<1>12. g[M] = ReadTo(f, L)
  <2>1. ~(M < L)
    BY <1>1
  <2> QED BY <1>1, <1>11, <2>1
<1>13. SubSeq(f, 1, L) = f
  BY <1>1 DEF L
<1> QED BY <1>7, <1>12, <1>13 DEF ReadTo

-----------------------------------------------------------------------------
(* All the files *)

\* Files that have no run in common.
FilesIn(C) ==
  /\ \A f \in C : IsFile(f)
  /\ \A f, g \in C : \A i \in 1..Len(f) : \A j \in 1..Len(g) : f[i] = g[j] => f = g

\* A file that has no run in common with those of C.
Separate(C, g) == \A f \in C : \A i \in 1..Len(f) : \A j \in 1..Len(g) : f[i] # g[j]

RunsOf(C) == UNION {Range(f) : f \in C}
LinksOf(C) == UNION {ExtentsOf(f) : f \in C}
FirstsOf(C) == {f[1] : f \in C}

\* Membership of RunsOf.
LEMMA RunsOfIs ==
  ASSUME NEW C, FilesIn(C)
  PROVE  \A k : k \in RunsOf(C) <=> \E f \in C : \E i \in 1..Len(f) : k = f[i]
<1>1. ASSUME NEW f \in C, NEW k PROVE k \in Range(f) <=> \E i \in 1..Len(f) : k = f[i]
  <2>1. DOMAIN f = 1..Len(f)
    BY FileIs DEF FilesIn
  <2> QED BY <2>1 DEF Range
<1> QED BY <1>1 DEF RunsOf

\* Each extent is that of a run of a file.
LEMMA LinksOfIs ==
  ASSUME NEW C, FilesIn(C), NEW x \in LinksOf(C)
  PROVE  \E f \in C : \E i \in 1..Len(f) : x = Later(f, 0, i) /\ x.key = f[i]
<1>1. PICK f \in C : x \in ExtentsOf(f)
  BY DEF LinksOf
<1>2. IsFile(f)
  BY DEF FilesIn
<1>3. PICK i \in 1..Len(f) : x = Later(f, 0, i)
  BY <1>1 DEF ExtentsOf, Links
<1>4. i \in Rest(f, 0)
  BY DEF Rest
<1>5. x.key = f[i]
  <2> DEFINE z == 0
  <2>1. z \in Nat /\ i \in Rest(f, z) /\ x = Later(f, z, i)
    BY <1>3, <1>4
  <2> HIDE DEF z
  <2> QED BY <1>2, <2>1, LaterIs
<1> QED BY <1>3, <1>5

\* Extents and runs of other files are others.
LEMMA SeparateIs ==
  ASSUME NEW C, FilesIn(C), NEW g, Separate(C, g)
  PROVE  Foreign(LinksOf(C), g) /\ ForeignKeys(RunsOf(C), g)
<1>1. Foreign(LinksOf(C), g)
  BY LinksOfIs DEF Foreign, Separate
<1>2. ForeignKeys(RunsOf(C), g)
  BY RunsOfIs DEF ForeignKeys, Separate
<1> QED BY <1>1, <1>2

\* A file more.
LEMMA OneMore ==
  ASSUME NEW C, FilesIn(C), NEW g, IsFile(g), Separate(C, g), NEW D, D = C \cup {g}
  PROVE  /\ FilesIn(D) /\ g \notin C
         /\ LinksOf(D) = LinksOf(C) \cup ExtentsOf(g)
         /\ RunsOf(D) = RunsOf(C) \cup Range(g)
         /\ FirstsOf(D) = FirstsOf(C) \cup {g[1]}
<1>1. FilesIn(D)
  BY DEF FilesIn, Separate
<1>2. g \notin C
  <2>1. 1 \in 1..Len(g)
    BY FileIs
  <2> QED BY <2>1 DEF Separate
<1>3. LinksOf(D) = LinksOf(C) \cup ExtentsOf(g)
  BY DEF LinksOf
<1>4. RunsOf(D) = RunsOf(C) \cup Range(g)
  BY DEF RunsOf
<1>5. FirstsOf(D) = FirstsOf(C) \cup {g[1]}
  BY DEF FirstsOf
<1> QED BY <1>1, <1>2, <1>3, <1>4, <1>5

\* A file less.
LEMMA OneFewer ==
  ASSUME NEW D, FilesIn(D), NEW g \in D, NEW C, C = D \ {g}
  PROVE  FilesIn(C) /\ IsFile(g) /\ Separate(C, g) /\ D = C \cup {g}
<1>1. FilesIn(C) /\ IsFile(g) /\ D = C \cup {g}
  BY DEF FilesIn
<1>2. Separate(C, g)
  BY DEF FilesIn, Separate
<1> QED BY <1>1, <1>2

\* Its first run is that of no other file.
LEMMA FirstsFewer ==
  ASSUME NEW D, FilesIn(D), NEW g \in D, NEW C, C = D \ {g}
  PROVE  FirstsOf(C) = FirstsOf(D) \ {g[1]}
<1>1. FilesIn(C) /\ IsFile(g) /\ Separate(C, g) /\ D = C \cup {g}
  BY OneFewer
<1>2. FirstsOf(D) = FirstsOf(C) \cup {g[1]}
  BY <1>1, OneMore
<1>3. 1 \in 1..Len(g) /\ \A f \in C : 1 \in 1..Len(f)
  BY <1>1, FileIs DEF FilesIn
<1>4. g[1] \notin FirstsOf(C)
  BY <1>1, <1>3 DEF FirstsOf, Separate
<1> QED BY <1>2, <1>4

\* A reader finds the files.
LEMMA ReadBackIs ==
  ASSUME NEW v, Tree(v.nodes), NEW D, FilesIn(D), Store(v.nodes) = LinksOf(D)
  PROVE  ReadBack(v, FirstsOf(D)) = D
<1>1. ASSUME NEW f \in D PROVE ChainFrom(v, f[1]) = f
  <2> DEFINE C == D \ {f}
  <2>1. FilesIn(C) /\ IsFile(f) /\ Separate(C, f) /\ D = C \cup {f}
    BY OneFewer
  <2> HIDE DEF C
  <2>2. LinksOf(D) = LinksOf(C) \cup ExtentsOf(f)
    BY <2>1, OneMore
  <2>3. Foreign(LinksOf(C), f)
    BY <2>1, SeparateIs
  <2> QED BY <2>1, <2>2, <2>3, ChainFromIs
<1> QED BY <1>1 DEF ReadBack, FirstsOf

\* What every call finds and leaves behind.
ExtentInv ==
  /\ Tree(nodes) /\ FilesIn(contents)
  /\ Store(nodes) = LinksOf(contents)
  /\ used = RunsOf(contents)
  /\ heads = FirstsOf(contents)
  /\ answer \in {"ok", "raised"}

\* The volume that a call begins with.
LEMMA VolumeIs ==
  /\ IsVolume(Volume) /\ Volume.raised = No
  /\ Volume.nodes = nodes /\ Volume.used = used
BY DEF Volume, IsVolume, No

\* At first the tree is a leaf without entries.
LEMMA ExtentsAtFirst ==
  ASSUME Init
  PROVE  ExtentInv
<1>1. nodes = [b \in {Root} |-> Leaf(<<>>)] /\ heads = {} /\ used = {} /\ contents = {} /\ answer = "ok"
  BY DEF Init
<1> DEFINE lvl == [b \in {Root} |-> 0]
           span == [b \in {Root} |-> Nat]
           node == Leaf(<<>>)
           ent == SetsOf(nodes)
<1>2. DOMAIN nodes = {Root} /\ nodes[Root] = node /\ node.leaf /\ node.entries = <<>> /\ Range(node.entries) = {}
  BY <1>1 DEF Leaf, Range
<1>3. Fits(node)
  <2> DEFINE e == <<>>
             yes == TRUE
  <2>1. e \in Seq(Extents) /\ Len(e) = 0 /\ DOMAIN e = {}
    OBVIOUS
  <2>2. node = [leaf |-> yes, entries |-> e] /\ yes = TRUE
    BY DEF Leaf
  <2>3. 0 <= LeafMax
    BY ExtentTreeAssumption
  <2> HIDE DEF e, yes, node
  <2>4. node.leaf = yes /\ node.entries = e
    BY <2>2
  <2>5. node \in [leaf : {TRUE}, entries : Seq(Extents)]
    BY <2>1, <2>2
  <2>6. Room(node) = LeafMax
    BY <2>2, <2>4 DEF Room
  <2> QED BY <2>1, <2>3, <2>4, <2>5, <2>6 DEF Fits, Ascending
<1>4. DOMAIN ent = {Root} /\ ent[Root] = {}
  BY <1>2, SetsIs
<1>5. lvl[Root] = 0 /\ span[Root] = Nat /\ lvl \in [{Root} -> Nat] /\ span \in [{Root} -> SUBSET Nat] /\ Nat # {}
  OBVIOUS
<1>6. IsFiniteSet({Root}) /\ Root \in Block
  BY FS_Singleton DEF Block
<1> HIDE DEF lvl, span, ent, node
<1>7. Levels(DOMAIN ent, lvl, span)
  BY <1>4, <1>5, <1>6 DEF Levels
<1>8. Apart(DOMAIN ent, lvl, span) /\ Filled(ent, lvl, span) /\ Guided(ent, lvl, span)
  BY <1>4, <1>5 DEF Apart, Filled, Guided
<1>9. TreeBy(nodes, lvl, span)
  BY <1>2, <1>3, <1>5, <1>7, <1>8 DEF TreeBy, Shape, ent
<1>10. Store(nodes) = {}
  BY <1>2 DEF Store
<1>11. FilesIn({}) /\ LinksOf({}) = {} /\ RunsOf({}) = {} /\ FirstsOf({}) = {}
  BY DEF FilesIn, LinksOf, RunsOf, FirstsOf
<1> QED BY <1>1, <1>9, <1>10, <1>11 DEF ExtentInv, Tree

\* A call that ends well leaves a tree with the files that a reader then finds.
LEMMA Finished ==
  ASSUME NEW v, Tree(v.nodes), v.raised = No, NEW D, FilesIn(D),
         Store(v.nodes) = LinksOf(D), v.used = RunsOf(D),
         NEW hs, hs = FirstsOf(D), Finish(v, hs)
  PROVE  ExtentInv' /\ contents' = D /\ answer' = "ok"
<1>1. nodes' = v.nodes /\ used' = v.used /\ heads' = hs /\ contents' = ReadBack(v, hs)
  BY DEF Finish
<1>2. contents' = D
  BY <1>1, ReadBackIs
<1>3. answer' = "ok"
  BY DEF Finish, No
<1> QED BY <1>1, <1>2, <1>3 DEF ExtentInv

\* Writing a file adds it.
LEMMA WriteKeeps ==
  ASSUME ExtentInv, NEW n \in 1..MaxRuns, NEW f \in [1..n -> Keys], WriteFile(f), answer' = "ok"
  PROVE  /\ ExtentInv' /\ contents' = contents \cup {f} /\ f \notin contents
         /\ IsFile(f) /\ \A i \in DOMAIN f : f[i] \notin RunsOf(contents)
<1> DEFINE v == AddRuns(Volume, f)
           C == contents
           D == C \cup {f}
<1>1. /\ Tree(nodes) /\ FilesIn(C) /\ Store(nodes) = LinksOf(C)
      /\ used = RunsOf(C) /\ heads = FirstsOf(C)
  BY DEF ExtentInv
<1>2. /\ \A i, j \in DOMAIN f : f[i] \notin used /\ (f[i] = f[j] => i = j)
      /\ Finish(v, IF v.raised THEN heads ELSE heads \cup {f[1]})
  BY DEF WriteFile
<1> HIDE DEF v
<1>3. ~v.raised
  BY <1>2 DEF Finish
<1>4. IsFile(f)
  <2>1. MaxRuns \in Nat /\ n \in Nat
    BY ExtentTreeAssumption
  <2>2. f \in Seq(Keys) /\ Len(f) = n
    BY <2>1
  <2> QED BY <1>2, <2>2 DEF IsFile
<1>5. Separate(C, f)
  <2>1. \A g \in C : \A i \in 1..Len(g) : g[i] \in used
    BY <1>1, RunsOfIs
  <2>2. DOMAIN f = 1..Len(f)
    BY <1>4, FileIs
  <2> QED BY <1>2, <2>1, <2>2 DEF Separate
<1>6. /\ FilesIn(D) /\ f \notin C /\ LinksOf(D) = LinksOf(C) \cup ExtentsOf(f)
      /\ RunsOf(D) = RunsOf(C) \cup Range(f) /\ FirstsOf(D) = FirstsOf(C) \cup {f[1]}
  BY <1>1, <1>4, <1>5, OneMore
<1>7. Adding(v, Volume, f, Len(f))
  <2>1. Foreign(Store(Volume.nodes), f) /\ Tree(Volume.nodes)
    BY <1>1, <1>5, SeparateIs, VolumeIs
  <2> QED BY <1>4, <2>1, VolumeIs, AddRunsIs DEF v
<1>8. /\ v.raised = No /\ Tree(v.nodes) /\ v.used = used \cup Range(f)
      /\ Store(v.nodes) = Store(nodes) \cup ExtentsOf(f)
  BY <1>3, <1>7, VolumeIs DEF Adding, ExtentsOf, No
<1> HIDE DEF D
<1>9. ExtentInv' /\ contents' = D
  <2>1. Finish(v, FirstsOf(D))
    BY <1>1, <1>2, <1>3, <1>6
  <2>2. Store(v.nodes) = LinksOf(D) /\ v.used = RunsOf(D)
    BY <1>1, <1>6, <1>8
  <2> QED BY <1>6, <1>8, <2>1, <2>2, Finished
<1> QED BY <1>1, <1>2, <1>4, <1>6, <1>9 DEF D

\* Deleting a file takes it away.
LEMMA DeleteKeeps ==
  ASSUME ExtentInv, NEW h \in heads, Spares(h), DeleteFile(h)
  PROVE  /\ ExtentInv' /\ answer' = "ok"
         /\ \E f \in contents : contents' = contents \ {f}
<1> DEFINE v == RemoveRuns(Volume, h, MaxRuns).vol
           D == contents
<1>1. /\ Tree(nodes) /\ FilesIn(D) /\ Store(nodes) = LinksOf(D)
      /\ used = RunsOf(D) /\ heads = FirstsOf(D)
  BY DEF ExtentInv
<1>2. Finish(v, IF v.raised THEN heads ELSE heads \ {h})
  BY DEF DeleteFile
<1>3. PICK f \in D : h = f[1]
  BY <1>1 DEF FirstsOf
<1> DEFINE C == D \ {f}
<1> HIDE DEF v
<1>4. FilesIn(C) /\ IsFile(f) /\ Separate(C, f) /\ D = C \cup {f}
  BY <1>1, <1>3, OneFewer
<1>5. FirstsOf(C) = FirstsOf(D) \ {h}
  BY <1>1, <1>3, FirstsFewer
<1>6. LinksOf(D) = LinksOf(C) \cup ExtentsOf(f) /\ RunsOf(D) = RunsOf(C) \cup Range(f)
  <2> HIDE DEF C
  <2> QED BY <1>4, OneMore
<1>7. Foreign(LinksOf(C), f) /\ ForeignKeys(RunsOf(C), f)
  <2> HIDE DEF C
  <2> QED BY <1>4, SeparateIs
<1>8. SparedAll(Volume, h)
  BY DEF Spares, SparedAll
<1>9. v.raised = No /\ Tree(v.nodes) /\ Store(v.nodes) = LinksOf(C) /\ v.used = RunsOf(C)
  <2> DEFINE S == LinksOf(C)
             U == RunsOf(C)
             w == Volume
  <2>1. Foreign(S, f) /\ ForeignKeys(U, f) /\ Store(nodes) = S \cup ExtentsOf(f)
        /\ used = U \cup Range(f)
    BY <1>1, <1>6, <1>7
  <2>2. /\ IsVolume(w) /\ w.raised = No /\ w.nodes = nodes /\ w.used = used /\ SparedAll(w, h)
        /\ v = RemoveRuns(w, h, MaxRuns).vol
    BY <1>8, VolumeIs DEF v
  <2> HIDE DEF S, U, w
  <2>3. Tree(w.nodes) /\ Store(w.nodes) = S \cup ExtentsOf(f) /\ w.used = U \cup Range(f)
    BY <1>1, <2>1, <2>2
  <2>4. v.raised = No /\ Tree(v.nodes) /\ Store(v.nodes) = S /\ v.used = U
    BY <1>3, <1>4, <2>1, <2>2, <2>3, RemoveRunsIs
  <2> QED BY <2>4 DEF S, U
<1>10. ExtentInv' /\ contents' = C /\ answer' = "ok"
  <2>1. ~v.raised
    BY <1>9 DEF No
  <2>2. Finish(v, FirstsOf(C))
    BY <1>1, <1>2, <1>5, <2>1
  <2> HIDE DEF C
  <2> QED BY <1>4, <1>9, <2>2, Finished
<1> QED BY <1>10

\* Every call keeps the invariant.
LEMMA ExtentsKept ==
  ASSUME ExtentInv, [SparingNext]_vars
  PROVE  ExtentInv'
<1>1. CASE Roomy
  <2>1. PICK n \in 1..MaxRuns : \E f \in [1..n -> Keys] : WriteFile(f) /\ answer' = "ok"
    BY <1>1 DEF Roomy, Writing
  <2> QED BY <2>1, WriteKeeps
<1>2. CASE \E h \in heads : Spares(h) /\ DeleteFile(h)
  BY <1>2, DeleteKeeps
<1>3. CASE UNCHANGED vars
  BY <1>3 DEF vars, ExtentInv
<1> QED BY <1>1, <1>2, <1>3 DEF SparingNext

\* ExtentInv holds of every volume that the calls reach.
THEOREM ExtentTreeKept == SparingSpec => []ExtentInv
<1>1. Init => ExtentInv
  BY ExtentsAtFirst
<1>2. ExtentInv /\ [SparingNext]_vars => ExtentInv'
  BY ExtentsKept
<1> QED BY <1>1, <1>2, PTL DEF SparingSpec

-----------------------------------------------------------------------------
(* The files that FileExtents describes *)

\* Every call is a step of FileExtents.
LEMMA FilesStep ==
  ASSUME ExtentInv, [SparingNext]_vars
  PROVE  [Files!Next]_<<contents, answer>>
<1>1. CASE Roomy
  <2>1. PICK n \in 1..MaxRuns : \E f \in [1..n -> Keys] : WriteFile(f) /\ answer' = "ok"
    BY <1>1 DEF Roomy, Writing
  <2>2. PICK f \in [1..n -> Keys] : WriteFile(f) /\ answer' = "ok"
    BY <2>1
  <2>3. /\ contents' = contents \cup {f} /\ f \notin contents
        /\ IsFile(f) /\ \A i \in DOMAIN f : f[i] \notin RunsOf(contents)
    BY <2>2, WriteKeeps
  <2>4. DOMAIN f = 1..Len(f) /\ \A i \in DOMAIN f : f[i] \in Keys
    BY <2>3, FileIs
  <2>5. \A i, j \in DOMAIN f : f[i] \in Keys \ Files!InUse /\ (f[i] = f[j] => i = j)
    <3>1. Files!InUse = RunsOf(contents)
      BY DEF Files!InUse, Files!Range, RunsOf, Range
    <3> QED BY <2>3, <2>4, <3>1 DEF IsFile
  <2>6. Files!WriteFile(f) /\ f \in contents' \ contents
    BY <2>2, <2>3, <2>5 DEF Files!WriteFile
  <2> QED BY <2>6 DEF Files!Next
<1>2. CASE \E h \in heads : Spares(h) /\ DeleteFile(h)
  <2>1. PICK h \in heads : Spares(h) /\ DeleteFile(h)
    BY <1>2
  <2>2. PICK f \in contents : contents' = contents \ {f} /\ answer' = "ok"
    BY <2>1, DeleteKeeps
  <2>3. Files!DeleteFile(f)
    BY <2>2 DEF Files!DeleteFile
  <2> QED BY <2>3 DEF Files!Next
<1>3. CASE UNCHANGED vars
  BY <1>3 DEF vars
<1> QED BY <1>1, <1>2, <1>3 DEF SparingNext

\* Whatever the splits and the collapses, a file is written with the runs that
\* a reader of its chain then finds, a delete takes away one file, and every
\* other file keeps its runs in order (_add_extent, _remove_extent,
\* _delete_file_data).
THEOREM ExtentsImplementFiles == SparingSpec => ImplementsFileExtents
<1>1. Init => Files!Init
  BY DEF Init, Files!Init
<1>2. ExtentInv /\ [SparingNext]_vars => [Files!Next]_Files!vars
  BY FilesStep DEF Files!vars
<1> QED BY <1>1, <1>2, ExtentTreeKept, PTL DEF SparingSpec, ImplementsFileExtents, Files!Spec

-----------------------------------------------------------------------------
(* Nothing of the tree is lost *)

Parent(ns, lvl, a, b) ==
  /\ lvl[a] = lvl[b] + 1 /\ ~ns[a].leaf
  /\ \E x \in Range(ns[a].entries) : x.to = b

\* Every block but the root has a parent.
LEMMA ParentIs ==
  ASSUME NEW v, NEW lvl, NEW span, TreeBy(v.nodes, lvl, span),
         NEW b \in DOMAIN v.nodes, lvl[b] # lvl[Root]
  PROVE  \E a \in DOMAIN v.nodes : Parent(v.nodes, lvl, a, b)
<1> DEFINE ns == v.nodes
           N == DOMAIN ns
           H == lvl[Root]
<1>1. Shape(SetsOf(ns), lvl, span) /\ DOMAIN SetsOf(ns) = N
  BY SetsIs DEF TreeBy
<1>2. Levels(N, lvl, span) /\ Apart(N, lvl, span)
  BY <1>1 DEF Shape
<1>3. lvl \in [N -> Nat] /\ span \in [N -> SUBSET Nat] /\ H \in Nat /\ lvl[b] \in Nat
      /\ lvl[b] <= H /\ span[b] # {}
  BY <1>2 DEF Levels
<1>4. PICK k \in Nat : k \in span[b]
  BY <1>3
<1> DEFINE p == Path(v, k)
           i == H + 1 - lvl[b]
<1>5. Leads(ns, lvl, span, p, k) /\ Len(p) = H + 1
  BY PathIs
<1> HIDE DEF p
<1>6. i \in 2..Len(p) /\ i - 1 \in 1..Len(p) /\ i \in 1..Len(p)
  BY SMTT(40), <1>3, <1>5
<1>7. p[i] \in N /\ lvl[p[i]] = H + 1 - i /\ k \in span[p[i]]
  BY <1>5, <1>6 DEF Leads
<1>8. p[i - 1] \in N /\ lvl[p[i - 1]] = H + 1 - (i - 1)
  BY <1>5, <1>6 DEF Leads
<1>9. PICK x \in Range(ns[p[i - 1]].entries) : x.to = p[i]
  BY <1>5, <1>6 DEF Leads
<1>10. lvl[p[i]] = lvl[b] /\ lvl[p[i - 1]] = lvl[b] + 1 /\ lvl[p[i - 1]] # 0
  BY <1>3, <1>7, <1>8
<1>11. p[i] = b
  BY <1>2, <1>4, <1>7, <1>10 DEF Apart
<1>12. ~ns[p[i - 1]].leaf
  BY <1>8, <1>10 DEF TreeBy
<1>13. Parent(ns, lvl, p[i - 1], b)
  BY <1>9, <1>10, <1>11, <1>12 DEF Parent
<1> QED BY <1>8, <1>13

\* A walk from the root reaches every block.
LEMMA BelowIs ==
  ASSUME Tree(nodes)
  PROVE  Below = DOMAIN nodes
<1> DEFINE N == DOMAIN nodes
           D == Cardinality(N)
           Children(B) == {p.to : p \in UNION {Range(nodes[b].entries) : b \in {c \in B : ~nodes[c].leaf}}}
           Goes(g, m) == g = [n \in 0..m |-> IF n = 0 THEN {Root} ELSE g[n - 1] \cup Children(g[n - 1])]
           T == {m \in Nat : \E g : Goes(g, m)}
<1>1. PICK lvl, span : TreeBy(nodes, lvl, span)
  BY DEF Tree
<1> DEFINE H == lvl[Root]
<1>2. Shape(SetsOf(nodes), lvl, span) /\ DOMAIN SetsOf(nodes) = N
      /\ \A b \in N : SetsOf(nodes)[b] = Range(nodes[b].entries)
  BY <1>1, SetsIs DEF TreeBy
<1>3. Levels(N, lvl, span) /\ Apart(N, lvl, span)
  BY <1>2 DEF Shape
<1>4. D \in Nat /\ H \in Nat /\ H < D /\ Root \in N /\ lvl \in [N -> Nat]
      /\ \A b \in N : lvl[b] <= H
  BY <1>2, <1>3, LevelsFewer DEF Levels
<1>5. ASSUME NEW B, NEW x PROVE x \in Children(B) <=> \E b \in B : ~nodes[b].leaf /\ \E p \in Range(nodes[b].entries) : x = p.to
  OBVIOUS
<1>6. \A b \in N : ~nodes[b].leaf => \A p \in Range(nodes[b].entries) : p.to \in N
  BY <1>1, <1>2 DEF TreeBy, Shape, Guided, Guides
<1> HIDE DEF N, D, H, Children
<1>7. 0 \in T
  <2>1. Goes([n \in 0..0 |-> {Root}], 0)
    OBVIOUS
  <2> QED BY <2>1
<1>8. ASSUME NEW m \in Nat, m \in T PROVE m + 1 \in T
  <2>1. PICK g : Goes(g, m)
    BY <1>8
  <2> DEFINE q == [n \in 0..m+1 |-> IF n = m + 1 THEN g[m] \cup Children(g[m]) ELSE g[n]]
  <2>2. \A n \in 0..m+1 : q[n] = IF n = 0 THEN {Root} ELSE q[n - 1] \cup Children(q[n - 1])
    <3> TAKE n \in 0..m+1
    <3>1. CASE n = m + 1
      <4>1. q[n] = g[m] \cup Children(g[m]) /\ q[n - 1] = g[m] /\ n # 0
        BY <3>1
      <4> QED BY <4>1
    <3>2. CASE n \in 0..m /\ n # 0
      <4>1. n \in 0..m+1 /\ n - 1 \in 0..m+1 /\ n # m + 1 /\ n - 1 # m + 1
        BY <3>2
      <4>2. q[n] = g[n] /\ q[n - 1] = g[n - 1]
        BY <4>1
      <4> QED BY <4>2, <3>2, <2>1
    <3>3. CASE n = 0
      BY <3>3, <2>1
    <3> QED BY <3>1, <3>2, <3>3
  <2>3. Goes(q, m + 1)
    <3>1. q = [n \in 0..m+1 |-> q[n]]
      OBVIOUS
    <3> HIDE DEF q
    <3> QED BY <3>1, <2>2
  <2> HIDE DEF Goes, q
  <2> QED BY <2>3
<1>9. \E g : Goes(g, D)
  <2>1. \A m \in Nat : m \in T
    <3> HIDE DEF T
    <3> QED BY <1>7, <1>8, ExtentInduction
  <2> QED BY <1>4, <2>1
<1> DEFINE g == CHOOSE q : Goes(q, D)
<1>10. Goes(g, D)
  <2> HIDE DEF Goes
  <2> QED BY <1>9
<1>11. Below = g[D]
  BY DEF Below, Children, D, N
<1> HIDE DEF g
<1>12. g[0] = {Root} /\ \A n \in 1..D : g[n] = g[n - 1] \cup Children(g[n - 1])
  <2>1. g[0] = {Root}
    BY <1>4, <1>10
  <2>2. ASSUME NEW n \in 1..D PROVE g[n] = g[n - 1] \cup Children(g[n - 1])
    <3>1. n \in 0..D /\ n # 0
      BY <1>4
    <3> QED BY <1>10, <3>1
  <2> QED BY <2>1, <2>2
<1> HIDE DEF Goes, T
<1> DEFINE I == {n \in Nat : n <= D => /\ g[n] \subseteq N
                                       /\ \A b \in N : lvl[b] + n >= H => b \in g[n]}
<1>13. 0 \in I
  <2>1. ASSUME NEW b \in N, lvl[b] + 0 >= H PROVE b = Root
    <3>1. lvl[b] = lvl[Root]
      BY <1>4, <2>1 DEF H
    <3>2. PICK k \in Nat : k \in span[b]
      BY <1>3 DEF Levels
    <3>3. k \in span[Root]
      BY <1>3 DEF Levels
    <3> QED BY <1>3, <1>4, <3>1, <3>2, <3>3 DEF Apart
  <2> QED BY <1>4, <1>12, <2>1
<1>14. ASSUME NEW n \in Nat, n \in I PROVE n + 1 \in I
  <2> SUFFICES ASSUME n + 1 <= D
               PROVE  g[n + 1] \subseteq N /\ \A b \in N : lvl[b] + (n + 1) >= H => b \in g[n + 1]
    OBVIOUS
  <2>1. n + 1 \in 1..D /\ (n + 1) - 1 = n /\ n <= D
    BY <1>4
  <2>2. g[n] \subseteq N /\ \A b \in N : lvl[b] + n >= H => b \in g[n]
    BY <1>14, <2>1
  <2>3. g[n + 1] = g[n] \cup Children(g[n])
    BY <1>12, <2>1
  <2>4. Children(g[n]) \subseteq N
    BY <1>5, <1>6, <2>2
  <2>5. ASSUME NEW b \in N, lvl[b] + (n + 1) >= H PROVE b \in g[n + 1]
    <3>1. CASE lvl[b] + n >= H
      BY <2>2, <2>3, <3>1
    <3>2. CASE ~(lvl[b] + n >= H)
      <4>1. lvl[b] # lvl[Root]
        BY <1>4, <3>2 DEF H
      <4>2. PICK a \in N : /\ lvl[a] = lvl[b] + 1 /\ ~nodes[a].leaf
                           /\ \E x \in Range(nodes[a].entries) : x.to = b
        <5> DEFINE v == Volume
        <5>1. v.nodes = nodes
          BY VolumeIs
        <5> HIDE DEF v
        <5>2. TreeBy(v.nodes, lvl, span) /\ b \in DOMAIN v.nodes
          BY <1>1, <5>1 DEF N
        <5>3. \E a \in DOMAIN v.nodes : Parent(v.nodes, lvl, a, b)
          BY <4>1, <5>2, ParentIs
        <5> QED BY <5>1, <5>3 DEF N, Parent
      <4>3. a \in g[n]
        <5>1. lvl[a] + n >= H
          BY <1>4, <2>5, <4>2
        <5> QED BY <2>2, <5>1
      <4>4. b \in Children(g[n])
        BY <1>5, <4>2, <4>3
      <4> QED BY <2>3, <4>4
    <3> QED BY <3>1, <3>2
  <2> QED BY <2>2, <2>3, <2>4, <2>5
<1>15. \A n \in Nat : n \in I
  <2> HIDE DEF I
  <2> QED BY <1>13, <1>14, ExtentInduction
<1>16. g[D] \subseteq N /\ \A b \in N : lvl[b] + D >= H => b \in g[D]
  BY <1>4, <1>15
<1>17. \A b \in N : lvl[b] + D >= H
  BY <1>4
<1> QED BY <1>11, <1>16, <1>17 DEF N

\* The search for a stored key ends where it is stored.
LEMMA KeysFound ==
  ASSUME ExtentInv
  PROVE  EveryKeyFound
<1>1. PICK lvl, span : TreeBy(nodes, lvl, span)
  BY DEF ExtentInv, Tree
<1>2. Shape(SetsOf(nodes), lvl, span) /\ DOMAIN SetsOf(nodes) = DOMAIN nodes
      /\ \A b \in DOMAIN nodes : SetsOf(nodes)[b] = Range(nodes[b].entries)
  BY <1>1, SetsIs DEF TreeBy
<1>3. Below = DOMAIN nodes
  BY BelowIs DEF ExtentInv
<1> SUFFICES ASSUME NEW b \in DOMAIN nodes, nodes[b].leaf, NEW e \in Range(nodes[b].entries)
             PROVE  LeafOf(Volume, e.key) = b
  BY <1>3 DEF EveryKeyFound
<1> DEFINE k == e.key
<1>4. lvl[b] = 0 /\ e \in Extents /\ k \in span[b]
  BY <1>1, <1>2 DEF TreeBy, Shape, Filled
<1>5. k \in Nat
  BY <1>4 DEF Extents
<1> HIDE DEF k
<1>6. LeafOf(Volume, k) \in DOMAIN nodes /\ lvl[LeafOf(Volume, k)] = 0 /\ k \in span[LeafOf(Volume, k)]
  <2> DEFINE v == Volume
  <2>1. v.nodes = nodes
    BY VolumeIs
  <2> HIDE DEF v
  <2>2. LeafOf(v, k) \in DOMAIN v.nodes /\ lvl[LeafOf(v, k)] = 0 /\ k \in span[LeafOf(v, k)]
    BY <1>1, <1>5, <2>1, LeafIs
  <2> QED BY <2>1, <2>2 DEF v
<1>7. LeafOf(Volume, k) = b
  BY <1>2, <1>4, <1>5, <1>6 DEF Shape, Apart
<1> QED BY <1>7 DEF k

\* The keys that are stored are those of the files.
LEMMA MarkedAreStored ==
  ASSUME ExtentInv
  PROVE  SpaceExact
<1>1. Below = DOMAIN nodes /\ FilesIn(contents) /\ Store(nodes) = LinksOf(contents)
      /\ used = RunsOf(contents)
  BY BelowIs DEF ExtentInv
<1>2. \A k : k \in Stored <=> \E x \in Store(nodes) : k = x.key
  BY <1>1 DEF Stored, Store
<1>3. ASSUME NEW x \in Store(nodes) PROVE x.key \in used
  <2>1. PICK f \in contents : \E i \in 1..Len(f) : x = Later(f, 0, i) /\ x.key = f[i]
    BY <1>1, LinksOfIs
  <2> QED BY <1>1, <2>1, RunsOfIs
<1>4. ASSUME NEW k \in used PROVE \E x \in Store(nodes) : k = x.key
  <2>1. PICK f \in contents : \E i \in 1..Len(f) : k = f[i]
    BY <1>1, RunsOfIs
  <2>2. PICK i \in 1..Len(f) : k = f[i]
    BY <2>1
  <2> DEFINE z == 0
             x == Later(f, z, i)
  <2>3. x \in ExtentsOf(f) /\ z \in Nat /\ i \in Rest(f, z) /\ IsFile(f)
    BY <1>1 DEF ExtentsOf, Links, Rest, FilesIn
  <2>4. x \in Store(nodes)
    BY <1>1, <2>3 DEF LinksOf
  <2> HIDE DEF z
  <2>5. x.key = f[i]
    BY <2>3, LaterIs
  <2> QED BY <2>2, <2>4, <2>5
<1> QED BY <1>2, <1>3, <1>4 DEF SpaceExact

\* No node has more entries than fit.
LEMMA NodesFit ==
  ASSUME ExtentInv
  PROVE  TypeOK
<1>1. PICK lvl, span : TreeBy(nodes, lvl, span)
  BY DEF ExtentInv, Tree
<1>2. Root \in DOMAIN nodes /\ DOMAIN nodes \subseteq {Root} \cup AdminBlocks
  BY <1>1, SetsIs DEF TreeBy, Shape, Levels, Block
<1>3. \A b \in DOMAIN nodes : Len(nodes[b].entries) <= IF nodes[b].leaf THEN LeafMax ELSE IndexMax
  BY <1>1, NodeIs DEF TreeBy, Room
<1>4. FilesIn(contents) /\ used = RunsOf(contents) /\ heads = FirstsOf(contents)
      /\ answer \in {"ok", "raised"}
  BY DEF ExtentInv
<1>5. heads \subseteq used
  <2> SUFFICES ASSUME NEW f \in contents PROVE f[1] \in used
    BY <1>4 DEF FirstsOf
  <2>1. 1 \in 1..Len(f)
    BY <1>4, FileIs DEF FilesIn
  <2> QED BY <1>4, <2>1, RunsOfIs
<1>6. used \subseteq Keys
  <2> SUFFICES ASSUME NEW f \in contents, NEW i \in 1..Len(f) PROVE f[i] \in Keys
    BY <1>4, RunsOfIs
  <2> QED BY <1>4, FileIs DEF FilesIn
<1> QED BY <1>2, <1>3, <1>4, <1>5, <1>6 DEF TypeOK

\* After every call each node fits into its block, the search for a stored key
\* ends in the leaf that stores it, a walk from the root reaches every block of
\* the tree, and the bitmap marks the runs that are stored (_find_extent,
\* _insert_bnode, _remove_extent).
THEOREM TreeSoundAlways == SparingSpec => []TreeSound
<1>1. ExtentInv => TreeSound
  BY KeysFound, MarkedAreStored, NodesFit, BelowIs DEF TreeSound, NoNodeLost, ExtentInv
<1> QED BY <1>1, ExtentTreeKept, PTL
=============================================================================
