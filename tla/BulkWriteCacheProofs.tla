------------------------ MODULE BulkWriteCacheProofs ------------------------
(***************************************************************************)
(* For every disk, every limit and every threshold: as long as no write    *)
(* meets a large item that is still kept, the write-back cache is a plain  *)
(* block device.                                                           *)
(*                                                                         *)
(* The argument.  Large items are sorted and apart from each other and     *)
(* from the small ones (ApartInv), so that the one large item that a read  *)
(* looks at is the only one that can hold the block (Found).  A flush then *)
(* writes to a block what a read of it finds anyway: the image does not    *)
(* change while the base device catches up with it, in whatever order the  *)
(* items go out, and FlushInv says that it has caught up at the end.       *)
(***************************************************************************)
EXTENDS BulkWriteCache, FiniteSetTheorems, SequenceTheorems, TLAPS

\* The items of _big.
Segments == [start : Nat, data : Seq(Values)]
End(s) == s.start + Len(s.data)

\* What is kept is whole, made of values and on the disk.
KeptInv ==
  /\ base \in [Blocks -> Values]
  /\ DOMAIN small \subseteq Blocks
  /\ \A b \in DOMAIN small : small[b] \in Values
  /\ big \in Seq(Segments)
  /\ \A i \in DOMAIN big : Len(big[i].data) > SmallMax /\ End(big[i]) <= NBlocks

\* Every block is kept once at most, and the large items are in order.
ApartInv ==
  /\ \A i, j \in DOMAIN big : i < j => End(big[i]) <= big[j].start
  /\ \A i \in DOMAIN big : DOMAIN small \cap Within(big[i]) = {}

\* What a flush has no longer to write is on the base device.
FlushInv ==
  /\ pending \in Nat
  /\ doing = Idle => out = {} /\ pending < Threshold
  /\ doing # Idle => /\ doing.op \in {"write", "read", "flush"}
                     /\ doing.op = "read" => /\ doing.lba \in Blocks
                                             /\ doing.n \in 1 .. NBlocks - doing.lba
                     /\ out \subseteq Items(small, big)
                     /\ \A item \in Items(small, big) \ out :
                          \A b \in Within(item) : base[b] = At(item, b)

StoreInv == KeptInv /\ ApartInv
CInv == StoreInv /\ FlushInv

-----------------------------------------------------------------------------
\* A set of indices that holds all below each of its own is known by its size:
\* bisect_right counts the items that start at or before a block.
LEMMA Prefix ==
  ASSUME NEW n \in Nat, NEW S \in SUBSET (1..n),
         \A i \in S : 1..i \subseteq S
  PROVE  /\ Cardinality(S) \in 0..n
         /\ \A i \in 1..n : i \in S <=> i <= Cardinality(S)
<1>1. IsFiniteSet(S) /\ Cardinality(S) \in Nat /\ Cardinality(S) <= n
  <2>1. IsFiniteSet(1..n) /\ Cardinality(1..n) = n
    BY FS_Interval, SMT
  <2>2. IsFiniteSet(S) /\ Cardinality(S) <= n
    BY ZenonT(40), <2>1, FS_Subset
  <2> QED BY <2>2, FS_CardinalityType
<1>2. ASSUME NEW i \in S PROVE i <= Cardinality(S)
  <2>1. Cardinality(1..i) = i /\ 1..i \in SUBSET S
    BY FS_Interval, SMT
  <2> QED BY <1>1, <2>1, FS_Subset
<1>3. ASSUME NEW i \in 1..n, i \notin S PROVE Cardinality(S) < i
  <2>1. \A j \in S : j < i
    BY <1>3, SMT
  <2>2. S \in SUBSET (1 .. i-1)
    BY <2>1, SMT
  <2>3. IsFiniteSet(1 .. i-1) /\ Cardinality(1 .. i-1) = i - 1
    BY FS_Interval, SMT
  <2>4. Cardinality(S) <= i - 1
    BY <2>2, <2>3, FS_Subset
  <2> QED BY <1>1, <2>4, SMT
<1> QED BY <1>1, <1>2, <1>3, SMT

\* What list.insert leaves at each place.
LEMMA Inserted ==
  ASSUME NEW T, NEW s \in Seq(T), NEW e \in T, NEW i \in 1 .. Len(s) + 1
  PROVE  /\ InsertAt(s, i, e) \in Seq(T)
         /\ Len(InsertAt(s, i, e)) = Len(s) + 1
         /\ \A j \in 1 .. Len(s) + 1 :
              InsertAt(s, i, e)[j] = IF j < i THEN s[j] ELSE IF j = i THEN e ELSE s[j-1]
<1> DEFINE l == SubSeq(s, 1, i-1)
           r == SubSeq(s, i, Len(s))
<1>0. Len(s) \in Nat /\ \A j \in 1..Len(s) : s[j] \in T
  BY LenProperties, ElementOfSeq
<1>1. l \in Seq(T) /\ Len(l) = i - 1 /\ \A j \in 1..i-1 : l[j] = s[j]
  BY <1>0, SMT
<1>2. r \in Seq(T) /\ Len(r) = Len(s) - i + 1 /\ \A j \in 1 .. Len(s)-i+1 : r[j] = s[i+j-1]
  BY <1>0, SMT
<1>3. <<e>> \in Seq(T) /\ Len(<<e>>) = 1 /\ <<e>>[1] = e
  OBVIOUS
<1> HIDE DEF l, r
<1>4. /\ l \o <<e>> \in Seq(T) /\ Len(l \o <<e>>) = i
      /\ \A j \in 1..i : (l \o <<e>>)[j] = IF j < i THEN s[j] ELSE e
  BY <1>1, <1>3, <1>0, SMT
<1>5. InsertAt(s, i, e) = (l \o <<e>>) \o r
  BY DEF InsertAt, l, r
<1> DEFINE q == l \o <<e>>
<1> HIDE DEF q
<1>a. q \in Seq(T) /\ Len(q) = i /\ \A j \in 1..i : q[j] = IF j < i THEN s[j] ELSE e
  BY <1>4 DEF q
<1>b. r \in Seq(T)
  BY <1>2
<1>6. /\ q \o r \in Seq(T)
      /\ Len(q \o r) = Len(q) + Len(r)
      /\ \A j \in 1 .. Len(q) + Len(r) :
           (q \o r)[j] = IF j <= Len(q) THEN q[j] ELSE r[j - Len(q)]
  BY <1>a, <1>b, ConcatProperties
<1>7. InsertAt(s, i, e) = q \o r
  BY <1>5 DEF q
<1>8. Len(q) + Len(r) = Len(s) + 1 /\ Len(q) = i
  BY <1>0, <1>2, <1>a, SMT
<1>9. ASSUME NEW j \in 1 .. Len(s) + 1
      PROVE  (q \o r)[j] = IF j < i THEN s[j] ELSE IF j = i THEN e ELSE s[j-1]
  <2>1. CASE j <= i
    BY <1>0, <1>a, <1>2, <1>6, <1>8, <2>1, SMT
  <2>2. CASE j > i
    <3>1. j - i \in 1 .. Len(s) - i + 1 /\ i + (j - i) - 1 = j - 1
      BY <1>0, <2>2, SMT
    <3>2. r[j - i] = s[j - 1]
      BY <1>2, <3>1
    <3> QED BY <1>0, <1>6, <1>8, <2>2, <3>2, SMT
  <2>3. j <= i \/ j > i
    BY <1>0, SMT
  <2> QED BY <2>1, <2>2, <2>3
<1> QED BY <1>6, <1>7, <1>8, <1>9

-----------------------------------------------------------------------------
(* What a read finds *)

\* A kept large item covers a range of the disk that is not empty.
LEMMA Shape ==
  StoreInv => /\ Len(big) \in Nat /\ DOMAIN big = 1 .. Len(big)
              /\ \A i \in DOMAIN big :
                   /\ big[i] \in Segments
                   /\ big[i].start \in Nat /\ Len(big[i].data) \in Nat \ {0}
                   /\ \A b : b \in Within(big[i]) <=> b \in Int /\ big[i].start <= b /\ b < End(big[i])
                   /\ Within(big[i]) \subseteq Blocks
<1> HAVE StoreInv
<1>1. Len(big) \in Nat /\ DOMAIN big = 1 .. Len(big) /\ \A i \in DOMAIN big : big[i] \in Segments
  BY LenProperties, ElementOfSeq DEF StoreInv, KeptInv
<1>2. ASSUME NEW i \in DOMAIN big
      PROVE  /\ big[i].start \in Nat /\ Len(big[i].data) \in Nat \ {0}
             /\ \A b : b \in Within(big[i]) <=> b \in Int /\ big[i].start <= b /\ b < End(big[i])
             /\ Within(big[i]) \subseteq Blocks
  <2>1. big[i].start \in Nat /\ big[i].data \in Seq(Values)
    BY <1>1 DEF Segments
  <2>2. Len(big[i].data) \in Nat
    BY <2>1, LenProperties
  <2>3. Len(big[i].data) > SmallMax /\ End(big[i]) <= NBlocks
    BY DEF StoreInv, KeptInv
  <2> QED BY <2>1, <2>2, <2>3, CacheAssumption, SMT DEF Within, Covers, Blocks, End
<1> QED BY <1>1, <1>2

\* The items up to the place that bisect_right returns start at or before the
\* block, those behind it start after it.
LEMMA Sorted ==
  StoreInv => \A b \in Int :
    /\ StartsUpTo(b) \in 0 .. Len(big)
    /\ \A i \in DOMAIN big : big[i].start <= b <=> i <= StartsUpTo(b)
<1> SUFFICES ASSUME StoreInv, NEW b \in Int
             PROVE  /\ StartsUpTo(b) \in 0 .. Len(big)
                    /\ \A i \in DOMAIN big : big[i].start <= b <=> i <= StartsUpTo(b)
  OBVIOUS
<1> DEFINE S == {i \in DOMAIN big : big[i].start <= b}
<1>1. /\ Len(big) \in Nat /\ DOMAIN big = 1 .. Len(big)
      /\ \A i \in DOMAIN big : big[i].start \in Nat /\ Len(big[i].data) \in Nat
  BY Shape
<1>2. \A i, j \in DOMAIN big : j < i => big[j].start <= big[i].start
  BY <1>1, SMT DEF StoreInv, ApartInv, End
<1>3. ASSUME NEW i \in S, NEW j \in 1..i PROVE j \in S
  BY <1>1, <1>2, SMT
<1>4. S \in SUBSET (1 .. Len(big)) /\ \A i \in S : 1..i \subseteq S
  BY <1>1, <1>3
<1>5. StartsUpTo(b) = Cardinality(S)
  BY DEF StartsUpTo
<1> HIDE DEF S
<1>6. /\ Cardinality(S) \in 0 .. Len(big)
      /\ \A i \in 1 .. Len(big) : i \in S <=> i <= Cardinality(S)
  BY <1>1, <1>4, Prefix
<1> QED BY <1>1, <1>5, <1>6 DEF S

\* What Lookup has to return for a block.
FindsTheKept == \A b \in Blocks :
  /\ b \in DOMAIN small => Lookup(b) = small[b]
  /\ \A i \in DOMAIN big : b \in Within(big[i]) => Lookup(b) = At(big[i], b)
  /\ b \notin DOMAIN small /\ (\A i \in DOMAIN big : b \notin Within(big[i]))
       => Lookup(b) = base[b]

\* A read finds a kept block wherever it is kept, and the base device where it
\* is not: looking at one large item is enough.
LEMMA Found == StoreInv => FindsTheKept
<1> SUFFICES ASSUME StoreInv, NEW b \in Blocks
             PROVE  /\ b \in DOMAIN small => Lookup(b) = small[b]
                    /\ \A i \in DOMAIN big : b \in Within(big[i]) => Lookup(b) = At(big[i], b)
                    /\ b \notin DOMAIN small /\ (\A i \in DOMAIN big : b \notin Within(big[i]))
                         => Lookup(b) = base[b]
  BY DEF FindsTheKept
<1>0. b \in Int
  BY CacheAssumption DEF Blocks
<1>1. /\ StartsUpTo(b) \in 0 .. Len(big)
      /\ \A i \in DOMAIN big : big[i].start <= b <=> i <= StartsUpTo(b)
  BY <1>0, Sorted
<1>2. b \in DOMAIN small => Lookup(b) = small[b]
  BY DEF Lookup
<1>3. ASSUME NEW i \in DOMAIN big, b \in Within(big[i]) PROVE Lookup(b) = At(big[i], b)
  <2>1. big[i].start <= b /\ b < End(big[i])
    BY <1>3, Shape
  <2>2. \A j \in DOMAIN big : i < j => ~(big[j].start <= b)
    BY <1>0, <2>1, Shape, SMT DEF StoreInv, ApartInv, End
  <2>3. i <= StartsUpTo(b) /\ \A j \in DOMAIN big : i < j => ~(j <= StartsUpTo(b))
    BY <1>1, <2>1, <2>2
  <2>4. StartsUpTo(b) = i
    BY <1>1, <2>3, Shape, SMT
  <2>5. b \notin DOMAIN small /\ i > 0
    BY <1>3, Shape, SMT DEF StoreInv, ApartInv
  <2> QED BY <1>3, <2>4, <2>5 DEF Lookup
<1>4. ASSUME b \notin DOMAIN small, \A i \in DOMAIN big : b \notin Within(big[i])
      PROVE  Lookup(b) = base[b]
  <2>1. StartsUpTo(b) > 0 => StartsUpTo(b) \in DOMAIN big
    BY <1>1, Shape, SMT
  <2> QED BY <1>4, <2>1 DEF Lookup
<1> QED BY <1>2, <1>3, <1>4

\* The same after a step.
LEMMA FoundNext == StoreInv' => FindsTheKept'
  BY Found, PTL

\* An item that is kept is what a read finds in its blocks.
LEMMA ItemFound ==
  ASSUME StoreInv, NEW item \in Items(small, big), NEW b \in Within(item)
  PROVE  b \in Blocks /\ Lookup(b) = At(item, b) /\ Lookup(b) \in Values
<1>0. FindsTheKept
  BY Found
<1>1. ASSUME NEW c \in DOMAIN small, item = [start |-> c, data |-> <<small[c]>>, rank |-> 0]
      PROVE  b \in Blocks /\ Lookup(b) = At(item, b) /\ Lookup(b) \in Values
  <2>1. c \in Int /\ c \in Blocks /\ small[c] \in Values
    BY CacheAssumption, SMT DEF StoreInv, KeptInv, Blocks
  <2>2. b \in c .. c + 1 - 1
    BY <1>1 DEF Within, Covers
  <2>3. b = c /\ b - c + 1 = 1
    BY <2>1, <2>2, SMT
  <2>4. At(item, b) = small[c]
    BY <1>1, <2>3 DEF At
  <2> QED BY <1>0, <2>1, <2>3, <2>4 DEF FindsTheKept
<1>2. ASSUME NEW i \in DOMAIN big, item = [start |-> big[i].start, data |-> big[i].data, rank |-> i]
      PROVE  b \in Blocks /\ Lookup(b) = At(item, b) /\ Lookup(b) \in Values
  <2>1. Within(item) = Within(big[i]) /\ At(item, b) = At(big[i], b)
    BY <1>2 DEF Within, At
  <2>2. b \in Blocks /\ Lookup(b) = At(big[i], b)
    BY <1>0, <2>1, Shape DEF FindsTheKept
  <2>3. big[i].start <= b /\ b < End(big[i]) /\ b \in Int /\ big[i].start \in Nat
        /\ Len(big[i].data) \in Nat /\ big[i].data \in Seq(Values)
    BY <2>1, Shape DEF Segments
  <2>4. b - big[i].start + 1 \in 1 .. Len(big[i].data)
    BY <2>3, SMT DEF End
  <2>5. At(big[i], b) \in Values
    BY <2>3, <2>4, ElementOfSeq DEF At
  <2> QED BY <2>1, <2>2, <2>5
<1> QED BY <1>1, <1>2 DEF Items

\* Where nothing is kept a read finds the base device.
LEMMA BaseFound ==
  ASSUME StoreInv, NEW b \in Blocks, \A item \in Items(small, big) : b \notin Within(item)
  PROVE  Lookup(b) = base[b]
<1>1. ASSUME b \in DOMAIN small PROVE FALSE
  <2> DEFINE item == [start |-> b, data |-> <<small[b]>>, rank |-> 0]
  <2>1. item \in Items(small, big)
    BY <1>1 DEF Items
  <2>2. b \in Within(item)
    BY CacheAssumption, SMT DEF Within, Covers, Blocks
  <2> QED BY <2>1, <2>2
<1>2. ASSUME NEW i \in DOMAIN big PROVE b \notin Within(big[i])
  <2> DEFINE item == [start |-> big[i].start, data |-> big[i].data, rank |-> i]
  <2>1. item \in Items(small, big)
    BY DEF Items
  <2>2. Within(item) = Within(big[i])
    BY DEF Within
  <2> QED BY <2>1, <2>2
<1> QED BY <1>1, <1>2, Found DEF FindsTheKept

-----------------------------------------------------------------------------
(* A write keeps what is kept apart *)

\* A write of DistinctNext.
WriteAt(lba, n, data) == /\ lba \in Blocks /\ n \in 1 .. NBlocks - lba
                         /\ data \in [1..n -> Values]
                         /\ Distinct(lba, n) /\ Write(lba, data)

\* The range of a write lies on the disk.
LEMMA WriteShape ==
  ASSUME NEW lba, NEW n, NEW data, WriteAt(lba, n, data)
  PROVE  /\ lba \in Nat /\ n \in Nat \ {0} /\ lba + n <= NBlocks
         /\ data \in Seq(Values) /\ Len(data) = n
         /\ \A b : b \in Covers(lba, n) <=> b \in Int /\ lba <= b /\ b < lba + n
         /\ Covers(lba, n) \subseteq Blocks
         /\ \A b \in Covers(lba, n) : data[b - lba + 1] \in Values
<1>1. lba \in Nat /\ n \in Nat \ {0} /\ lba + n <= NBlocks /\ data \in [1..n -> Values]
  BY CacheAssumption, SMT DEF WriteAt, Blocks
<1>2. data \in Seq(Values) /\ Len(data) = n
  BY <1>1, SMT
<1>3. /\ \A b : b \in Covers(lba, n) <=> b \in Int /\ lba <= b /\ b < lba + n
      /\ Covers(lba, n) \subseteq Blocks
  BY <1>1, CacheAssumption, SMT DEF Covers, Blocks
<1>4. ASSUME NEW b \in Covers(lba, n) PROVE data[b - lba + 1] \in Values
  <2>1. b - lba + 1 \in 1..n
    BY <1>1, <1>3, SMT
  <2> QED BY <1>1, <2>1
<1> QED BY <1>1, <1>2, <1>3, <1>4

\* A small write off the large items leaves the store well formed.
LEMMA SmallStore ==
  ASSUME StoreInv, NEW lba, NEW n, NEW data, WriteAt(lba, n, data), KeepSmall(lba, data)
  PROVE  StoreInv'
<1>0. /\ data \in Seq(Values) /\ Len(data) = n /\ Covers(lba, n) \subseteq Blocks
      /\ \A b \in Covers(lba, n) : data[b - lba + 1] \in Values
  BY WriteShape
<1>1. /\ big' = big /\ base' = base
      /\ small' = [b \in DOMAIN small \cup Covers(lba, n) |->
                     IF b \in Covers(lba, n) THEN data[b - lba + 1] ELSE small[b]]
  BY <1>0 DEF WriteAt, Write, KeepSmall
<1>2. DOMAIN small' = DOMAIN small \cup Covers(lba, n)
  BY <1>1
<1>3. KeptInv'
  BY <1>0, <1>1, <1>2 DEF StoreInv, KeptInv
<1>4. ApartInv'
  <2>1. \A i \in DOMAIN big : Within(big[i]) \cap Covers(lba, n) = {}
    BY DEF WriteAt, Distinct
  <2>2. \A i \in DOMAIN big : DOMAIN small' \cap Within(big[i]) = {}
    BY <1>2, <2>1 DEF StoreInv, ApartInv
  <2>3. \A i, j \in DOMAIN big' : i < j => End(big'[i]) <= big'[j].start
    BY <1>1 DEF StoreInv, ApartInv
  <2> QED BY <1>1, <2>2, <2>3 DEF ApartInv
<1> QED BY <1>3, <1>4 DEF StoreInv

\* A large item goes between those that start before it and those that
\* start after it.
LEMMA BigPlace ==
  ASSUME StoreInv, NEW lba, NEW n, NEW data, WriteAt(lba, n, data), KeepBig(lba, data)
  PROVE  \E k \in 1 .. Len(big) + 1 :
           /\ big' \in Seq(Segments) /\ DOMAIN big' = 1 .. Len(big) + 1
           /\ \A i \in DOMAIN big' : big'[i] = IF i < k THEN big[i]
                                              ELSE IF i = k THEN Item(lba, data) ELSE big[i-1]
           /\ \A i \in DOMAIN big : IF i < k THEN End(big[i]) <= lba ELSE lba + n <= big[i].start
<1>0. /\ lba \in Nat /\ n \in Nat \ {0} /\ data \in Seq(Values)
      /\ \A b : b \in Covers(lba, n) <=> b \in Int /\ lba <= b /\ b < lba + n
  BY WriteShape
<1>1. big \in Seq(Segments) /\ Item(lba, data) \in Segments
  BY <1>0 DEF StoreInv, KeptInv, Item, Segments
<1> DEFINE k == StartsUpTo(lba) + 1
<1>2. /\ StartsUpTo(lba) \in 0 .. Len(big) /\ Len(big) \in Nat /\ DOMAIN big = 1 .. Len(big)
      /\ \A i \in DOMAIN big : big[i].start <= lba <=> i <= StartsUpTo(lba)
  BY <1>0, Sorted, Shape
<1>3. k \in 1 .. Len(big) + 1 /\ \A i \in DOMAIN big : big[i].start <= lba <=> i < k
  BY <1>2, SMT
<1>4. big' = InsertAt(big, k, Item(lba, data))
  BY DEF KeepBig
<1> HIDE DEF k
<1>5. /\ big' \in Seq(Segments) /\ Len(big') = Len(big) + 1
      /\ \A i \in 1 .. Len(big) + 1 :
           big'[i] = IF i < k THEN big[i] ELSE IF i = k THEN Item(lba, data) ELSE big[i-1]
  BY SMTT(40), <1>1, <1>3, <1>4, Inserted
<1>6. DOMAIN big' = 1 .. Len(big) + 1
  BY <1>5, LenProperties
<1>7. ASSUME NEW i \in DOMAIN big
      PROVE  IF i < k THEN End(big[i]) <= lba ELSE lba + n <= big[i].start
  <2>1. Within(big[i]) \cap Covers(lba, n) = {}
    BY DEF WriteAt, Distinct
  <2>2. /\ big[i].start \in Nat /\ Len(big[i].data) \in Nat \ {0}
        /\ \A b : b \in Within(big[i]) <=> b \in Int /\ big[i].start <= b /\ b < End(big[i])
    BY Shape
  <2>3. lba \notin Within(big[i]) /\ big[i].start \notin Covers(lba, n)
    <3>1. lba \in Covers(lba, n)
      BY <1>0, SMT
    <3>2. big[i].start \in Within(big[i])
      BY <2>2, SMT DEF End
    <3> QED BY <2>1, <3>1, <3>2
  <2>4. big[i].start <= lba <=> i < k
    BY <1>3
  <2>5. End(big[i]) \in Nat
    BY <2>2, SMT DEF End
  <2> QED BY <1>0, <2>2, <2>3, <2>4, <2>5, SMT
<1> QED BY <1>3, <1>5, <1>6, <1>7

\* A large write off the large items leaves the store well formed.
LEMMA BigStore ==
  ASSUME StoreInv, NEW lba, NEW n, NEW data, WriteAt(lba, n, data), KeepBig(lba, data), n > SmallMax
  PROVE  StoreInv'
<1>0. /\ lba \in Nat /\ n \in Nat \ {0} /\ lba + n <= NBlocks
      /\ data \in Seq(Values) /\ Len(data) = n
  BY WriteShape
<1>1. PICK k \in 1 .. Len(big) + 1 :
        /\ big' \in Seq(Segments) /\ DOMAIN big' = 1 .. Len(big) + 1
        /\ \A i \in DOMAIN big' : big'[i] = IF i < k THEN big[i]
                                           ELSE IF i = k THEN Item(lba, data) ELSE big[i-1]
        /\ \A i \in DOMAIN big : IF i < k THEN End(big[i]) <= lba ELSE lba + n <= big[i].start
  BY BigPlace
<1>2. /\ base' = base /\ DOMAIN small' = DOMAIN small \ Covers(lba, n)
      /\ \A b \in DOMAIN small' : small'[b] = small[b]
  BY <1>0 DEF WriteAt, Write, KeepBig
<1>3. Len(big) \in Nat /\ DOMAIN big = 1 .. Len(big)
  BY Shape
<1>4. /\ Len(Item(lba, data).data) = n /\ Item(lba, data).start = lba
      /\ End(Item(lba, data)) = lba + n /\ Within(Item(lba, data)) = Covers(lba, n)
  BY <1>0 DEF Item, End, Within
<1>5. ASSUME NEW i \in DOMAIN big'
      PROVE  \/ i < k /\ i \in DOMAIN big /\ big'[i] = big[i]
             \/ i = k /\ big'[i] = Item(lba, data)
             \/ i > k /\ i - 1 \in DOMAIN big /\ i - 1 >= k /\ big'[i] = big[i-1]
  BY <1>1, <1>3, SMT
<1>6. KeptInv'
  <2>1. ASSUME NEW i \in DOMAIN big'
        PROVE  Len(big'[i].data) > SmallMax /\ End(big'[i]) <= NBlocks
    <3>1. \A j \in DOMAIN big : Len(big[j].data) > SmallMax /\ End(big[j]) <= NBlocks
      BY DEF StoreInv, KeptInv
    <3>2. Len(Item(lba, data).data) > SmallMax /\ End(Item(lba, data)) <= NBlocks
      BY <1>0, <1>4
    <3> QED BY <1>5, <3>1, <3>2
  <2>2. /\ base' \in [Blocks -> Values] /\ DOMAIN small' \subseteq Blocks
        /\ \A b \in DOMAIN small' : small'[b] \in Values
    BY <1>2 DEF StoreInv, KeptInv
  <2> QED BY <1>1, <2>1, <2>2 DEF KeptInv, End
<1>7. ASSUME NEW i \in DOMAIN big', NEW j \in DOMAIN big', i < j
      PROVE  End(big'[i]) <= big'[j].start
  <2>1. \A p, q \in DOMAIN big : p < q => End(big[p]) <= big[q].start
    BY DEF StoreInv, ApartInv
  <2>2. \A p \in DOMAIN big : p < k => End(big[p]) <= lba
    BY <1>1
  <2>3. \A p \in DOMAIN big : ~(p < k) => lba + n <= big[p].start
    BY <1>1
  <2>4. CASE i < k
    <3>1. i \in DOMAIN big /\ big'[i] = big[i]
      BY <1>1, <1>3, <2>4, SMT
    <3>2. CASE j < k
      <4>1. j \in DOMAIN big /\ big'[j] = big[j]
        BY <1>1, <1>3, <3>2, SMT
      <4> QED BY <1>7, <2>1, <3>1, <4>1
    <3>3. CASE j = k
      BY <1>1, <1>4, <2>2, <2>4, <3>1, <3>3
    <3>4. CASE j > k
      <4>1. j - 1 \in DOMAIN big /\ big'[j] = big[j-1] /\ i < j - 1
        BY <1>1, <1>3, <2>4, <3>4, SMT
      <4> QED BY <2>1, <3>1, <4>1
    <3> QED BY <1>1, <1>3, <3>2, <3>3, <3>4, SMT
  <2>5. CASE i = k
    <3>1. j - 1 \in DOMAIN big /\ ~(j - 1 < k) /\ big'[j] = big[j-1]
      BY <1>1, <1>3, <1>7, <2>5, SMT
    <3> QED BY <1>1, <1>4, <2>3, <2>5, <3>1
  <2>6. CASE i > k
    <3>1. /\ i - 1 \in DOMAIN big /\ big'[i] = big[i-1]
          /\ j - 1 \in DOMAIN big /\ big'[j] = big[j-1] /\ i - 1 < j - 1
      BY <1>1, <1>3, <1>7, <2>6, SMT
    <3> QED BY <2>1, <3>1
  <2> QED BY <1>1, <1>3, <2>4, <2>5, <2>6, SMT
<1>8. ASSUME NEW i \in DOMAIN big' PROVE DOMAIN small' \cap Within(big'[i]) = {}
  <2>1. \A j \in DOMAIN big : DOMAIN small \cap Within(big[j]) = {}
    BY DEF StoreInv, ApartInv
  <2> QED BY <1>2, <1>4, <1>5, <2>1
<1>9. ApartInv'
  <2>1. \A i \in DOMAIN big' : DOMAIN small' \cap Within(big'[i]) = {}
    BY <1>8
  <2>2. \A i, j \in DOMAIN big' : i < j => End(big'[i]) <= big'[j].start
    BY <1>7
  <2> QED BY <2>1, <2>2 DEF ApartInv, End, Within
<1> QED BY <1>6, <1>9 DEF StoreInv

\* So does every write the engines make.
LEMMA WriteStore ==
  ASSUME StoreInv, NEW lba, NEW n, NEW data, WriteAt(lba, n, data)
  PROVE  StoreInv'
<1>1. Len(data) = n /\ n \in Nat
  BY WriteShape
<1>2. CASE n <= SmallMax
  BY <1>1, <1>2, SmallStore DEF WriteAt, Write
<1>3. CASE n > SmallMax
  <2>1. KeepBig(lba, data)
    BY <1>1, <1>3, CacheAssumption, SMT DEF WriteAt, Write
  <2> QED BY <1>3, <2>1, BigStore
<1> QED BY <1>1, <1>2, <1>3, CacheAssumption, SMT

\* After a write a read finds what was written, and elsewhere what it found.
LEMMA WriteLookup ==
  ASSUME StoreInv, NEW lba, NEW n, NEW data, WriteAt(lba, n, data), NEW b \in Blocks
  PROVE  Lookup(b)' = IF b \in Covers(lba, n) THEN data[b - lba + 1] ELSE Lookup(b)
<1>0. /\ lba \in Nat /\ n \in Nat \ {0} /\ Len(data) = n
      /\ Covers(lba, n) \subseteq Blocks
  BY WriteShape
<1>1. FindsTheKept /\ FindsTheKept'
  BY WriteStore, Found, FoundNext
<1>2. base' = base
  BY DEF WriteAt, Write
<1>3. CASE KeepSmall(lba, data)
  <2>1. /\ DOMAIN small' = DOMAIN small \cup Covers(lba, n)
        /\ \A c \in DOMAIN small' :
             small'[c] = IF c \in Covers(lba, n) THEN data[c - lba + 1] ELSE small[c]
        /\ big' = big
    BY <1>0, <1>3 DEF KeepSmall
  <2>2. CASE b \in DOMAIN small'
    <3>1. Lookup(b)' = small'[b]
      BY <1>1, <2>2 DEF FindsTheKept
    <3>2. b \notin Covers(lba, n) => Lookup(b) = small[b]
      BY <1>1, <2>1, <2>2 DEF FindsTheKept
    <3> QED BY <2>1, <2>2, <3>1, <3>2
  <2>3. CASE b \notin DOMAIN small'
    <3>1. b \notin DOMAIN small /\ b \notin Covers(lba, n)
      BY <2>1, <2>3
    <3>2. Lookup(b)' = Lookup(b)
      BY <1>2, <2>1, <2>3, <3>1 DEF Lookup, StartsUpTo, Within, At
    <3> QED BY <3>1, <3>2
  <2> QED BY <2>2, <2>3
<1>4. CASE KeepBig(lba, data)
  <2>1. PICK k \in 1 .. Len(big) + 1 :
          /\ DOMAIN big' = 1 .. Len(big) + 1
          /\ \A i \in DOMAIN big' : big'[i] = IF i < k THEN big[i]
                                             ELSE IF i = k THEN Item(lba, data) ELSE big[i-1]
    BY <1>4, BigPlace
  <2>2. Len(big) \in Nat /\ DOMAIN big = 1 .. Len(big)
    BY Shape
  <2>3. /\ DOMAIN small' = DOMAIN small \ Covers(lba, n)
        /\ \A c \in DOMAIN small' : small'[c] = small[c]
    BY <1>0, <1>4 DEF KeepBig
  <2>4. Within(Item(lba, data)) = Covers(lba, n)
    BY <1>0 DEF Within, Item
  <2>5. CASE b \in Covers(lba, n)
    <3>1. k \in DOMAIN big' /\ big'[k] = Item(lba, data)
      BY <2>1, <2>2, SMT
    <3>2. Lookup(b)' = At(big'[k], b)
      <4>1. b \in Within(big'[k])
        BY <2>4, <2>5, <3>1
      <4> QED BY <1>1, <3>1, <4>1 DEF FindsTheKept, Within, At
    <3>3. At(big'[k], b) = data[b - lba + 1]
      BY <3>1 DEF At, Item
    <3> QED BY <2>5, <3>2, <3>3
  <2>6. CASE b \notin Covers(lba, n) /\ b \in DOMAIN small
    <3>1. Lookup(b) = small[b]
      BY <1>1, <2>6 DEF FindsTheKept
    <3>2. b \in DOMAIN small' /\ small'[b] = small[b]
      BY <2>3, <2>6
    <3>3. Lookup(b)' = small'[b]
      BY <1>1, <3>2 DEF FindsTheKept
    <3> QED BY <2>6, <3>1, <3>2, <3>3
  <2>7. ASSUME b \notin Covers(lba, n), NEW i \in DOMAIN big, b \in Within(big[i])
        PROVE  Lookup(b)' = Lookup(b)
    <3>1. Lookup(b) = At(big[i], b)
      BY <1>1, <2>7 DEF FindsTheKept
    <3>2. PICK j \in DOMAIN big' : big'[j] = big[i]
      <4>1. CASE i < k
        BY <2>1, <2>2, <4>1, SMT
      <4>2. CASE ~(i < k)
        <5>1. i + 1 \in DOMAIN big' /\ big'[i+1] = big[i]
          BY <2>1, <2>2, <4>2, SMT
        <5> QED BY <5>1
      <4> QED BY <4>1, <4>2
    <3>3. b \in Within(big'[j])
      BY <2>7, <3>2
    <3>4. Lookup(b)' = At(big'[j], b)
      BY <1>1, <3>3 DEF FindsTheKept, Within, At
    <3> QED BY <3>1, <3>2, <3>4
  <2>8. CASE b \notin Covers(lba, n) /\ b \notin DOMAIN small
             /\ \A i \in DOMAIN big : b \notin Within(big[i])
    <3>1. Lookup(b) = base[b]
      BY <1>1, <2>8 DEF FindsTheKept
    <3>2. ASSUME NEW j \in DOMAIN big' PROVE b \notin Within(big'[j])
      <4>1. \/ j \in DOMAIN big /\ big'[j] = big[j]
            \/ big'[j] = Item(lba, data)
            \/ j - 1 \in DOMAIN big /\ big'[j] = big[j-1]
        BY <2>1, <2>2, SMT
      <4> QED BY <2>4, <2>8, <4>1
    <3>3. b \notin DOMAIN small'
      BY <2>3, <2>8
    <3>4. Lookup(b)' = base'[b]
      BY <1>1, <3>2, <3>3 DEF FindsTheKept, Within
    <3> QED BY <1>2, <2>8, <3>1, <3>4
  <2> QED BY <2>5, <2>6, <2>7, <2>8
<1> QED BY <1>3, <1>4 DEF WriteAt, Write

-----------------------------------------------------------------------------
(* The invariant *)

\* A new cache keeps nothing.
LEMMA InitInv == Init => CInv
<1> SUFFICES ASSUME Init PROVE CInv
  OBVIOUS
<1>1. DOMAIN small = {} /\ big = <<>> /\ DOMAIN big = {}
  BY DEF Init, Nothing
<1>2. StoreInv
  BY <1>1 DEF Init, StoreInv, KeptInv, ApartInv
<1>3. FlushInv
  BY CacheAssumption, SMT DEF Init, FlushInv
<1> QED BY <1>2, <1>3 DEF CInv

\* A write preserves the invariant, whether it fills the cache or not.
LEMMA WriteInv ==
  ASSUME CInv, NEW lba, NEW n, NEW data, WriteAt(lba, n, data)
  PROVE  CInv'
<1>0. Len(data) = n /\ n \in Nat
  BY WriteShape
<1>1. StoreInv'
  BY WriteStore DEF CInv
<1>2. FlushInv'
  <2>1. pending \in Nat /\ doing = Idle /\ out = {} /\ pending' = pending + n
    BY <1>0 DEF CInv, FlushInv, WriteAt, Write
  <2>2. pending' \in Nat
    BY <1>0, <2>1, SMT
  <2>3. CASE Full(n)
    <3>1. out' = Items(small', big') /\ doing' = [op |-> "write", lba |-> lba, n |-> n]
      BY <1>0, <2>3 DEF WriteAt, Write
    <3>2. doing' # Idle /\ doing'.op = "write"
      BY <3>1 DEF Idle
    <3> QED BY <2>2, <3>1, <3>2 DEF FlushInv, Items, Within, At
  <2>4. CASE ~Full(n)
    <3>1. out' = {} /\ doing' = Idle
      BY <1>0, <2>1, <2>4 DEF WriteAt, Write
    <3>2. pending' < Threshold
      BY <1>0, <2>1, <2>4, CacheAssumption, SMT DEF Full
    <3> QED BY <2>2, <3>1, <3>2 DEF FlushInv
  <2> QED BY <2>3, <2>4
<1> QED BY <1>1, <1>2 DEF CInv

\* A flush starts with everything still to write.
LEMMA StartInv ==
  ASSUME CInv, NEW op, NEW lba, NEW n, StartFlush(op, lba, n), op \in {"read", "flush"},
         op = "read" => lba \in Blocks /\ n \in 1 .. NBlocks - lba
  PROVE  CInv'
<1>1. /\ base' = base /\ small' = small /\ big' = big /\ pending' = pending
      /\ out' = Items(small, big) /\ doing' = [op |-> op, lba |-> lba, n |-> n]
  BY DEF StartFlush
<1>2. StoreInv'
  BY <1>1 DEF CInv, StoreInv, KeptInv, ApartInv, Within, End
<1>3. doing' # Idle /\ doing'.op = op /\ doing'.lba = lba /\ doing'.n = n
  BY <1>1 DEF Idle
<1>4. FlushInv'
  BY <1>1, <1>3 DEF CInv, FlushInv, Items, Within, At
<1> QED BY <1>2, <1>4 DEF CInv

\* What is written is what a read has found, so that a read finds the same.
LEMMA ItemLookup ==
  ASSUME CInv, WriteItem
  PROVE  /\ StoreInv'
         /\ \A b \in Blocks : base'[b] \in {base[b], Lookup(b)} /\ Lookup(b)' = Lookup(b)
         /\ FlushInv'
<1>1. PICK item \in out :
        /\ base' = [b \in Blocks |-> IF b \in Within(item) THEN At(item, b) ELSE base[b]]
        /\ out' = out \ {item}
        /\ UNCHANGED <<small, big, pending, doing, answer>>
  BY DEF WriteItem
<1>2. doing # Idle /\ item \in Items(small, big)
  BY <1>1 DEF CInv, FlushInv
<1>3. StoreInv
  BY DEF CInv
<1>4. \A b \in Within(item) : b \in Blocks /\ Lookup(b) = At(item, b) /\ Lookup(b) \in Values
  BY <1>2, <1>3, ItemFound
<1>5. base' \in [Blocks -> Values]
  BY <1>1, <1>3, <1>4 DEF StoreInv, KeptInv
<1>6. StoreInv'
  BY <1>1, <1>3, <1>5 DEF StoreInv, KeptInv, ApartInv, Within, End
<1>7. ASSUME NEW b \in Blocks
      PROVE  base'[b] \in {base[b], Lookup(b)} /\ Lookup(b)' = Lookup(b)
  <2>1. base'[b] = IF b \in Within(item) THEN At(item, b) ELSE base[b]
    BY <1>1
  <2>2. base'[b] \in {base[b], Lookup(b)}
    BY <1>4, <2>1
  <2>3. FindsTheKept /\ FindsTheKept'
    BY <1>3, <1>6, Found, FoundNext
  <2>4. CASE b \in DOMAIN small
    BY <1>1, <2>2, <2>3, <2>4 DEF FindsTheKept
  <2>5. ASSUME NEW i \in DOMAIN big, b \in Within(big[i]) PROVE Lookup(b)' = Lookup(b)
    BY <1>1, <2>3, <2>5 DEF FindsTheKept, Within, At
  <2>6. CASE b \notin DOMAIN small /\ \A i \in DOMAIN big : b \notin Within(big[i])
    <3>1. Lookup(b) = base[b]
      BY <2>3, <2>6 DEF FindsTheKept
    <3>2. Lookup(b)' = base'[b]
      BY <1>1, <2>3, <2>6 DEF FindsTheKept, Within
    <3> QED BY <2>2, <3>1, <3>2
  <2> QED BY <2>2, <2>4, <2>5, <2>6
<1>8. ASSUME NEW i \in Items(small, big) \ out', NEW b \in Within(i)
      PROVE  base'[b] = At(i, b)
  <2>1. b \in Blocks /\ Lookup(b) = At(i, b)
    BY <1>3, ItemFound
  <2>2. base'[b] = IF b \in Within(item) THEN At(item, b) ELSE base[b]
    BY <1>1, <2>1
  <2>3. CASE b \in Within(item)
    BY <1>4, <2>1, <2>2, <2>3
  <2>4. CASE b \notin Within(item)
    <3>1. i \notin out
      BY <1>1, <1>8, <2>4
    <3>2. base[b] = At(i, b)
      BY <1>2, <3>1 DEF CInv, FlushInv
    <3> QED BY <2>2, <2>4, <3>2
  <2> QED BY <2>3, <2>4
<1>9. FlushInv'
  <2>1. out' \subseteq Items(small, big)
    BY <1>1, <1>2 DEF CInv, FlushInv
  <2>2. Items(small, big)' = Items(small, big)
    BY <1>1 DEF Items
  <2>3. \A i \in Items(small, big)' \ out' : \A b \in Within(i) : base'[b] = At(i, b)
    BY <1>8, <2>2
  <2> QED BY <1>1, <1>2, <2>1, <2>2, <2>3 DEF CInv, FlushInv, Within, At
<1> QED BY <1>6, <1>7, <1>9

\* When a flush ends everything that was kept is on the base device.
LEMMA Emptied ==
  ASSUME StoreInv, small' = Nothing, big' = <<>>, base' = base
  PROVE  StoreInv' /\ \A b \in Blocks : Lookup(b)' = base[b]
<1>1. DOMAIN small' = {} /\ DOMAIN big' = {}
  BY DEF Nothing
<1>2. StoreInv'
  BY <1>1 DEF StoreInv, KeptInv, ApartInv
<1> QED BY <1>1, <1>2, FoundNext DEF FindsTheKept

\* After a flush a read finds the base device, as it did before the end.
LEMMA EndLookup ==
  ASSUME CInv, EndFlush
  PROVE  /\ CInv'
         /\ \A b \in Blocks : Lookup(b) = base[b] /\ Lookup(b)' = base[b]
<1>1. /\ doing # Idle /\ out = {}
      /\ small' = Nothing /\ big' = <<>> /\ pending' = 0 /\ doing' = Idle
      /\ base' = base /\ out' = out
  BY DEF EndFlush
<1>2. StoreInv' /\ \A b \in Blocks : Lookup(b)' = base[b]
  BY <1>1, Emptied DEF CInv
<1>3. FlushInv'
  BY <1>1, CacheAssumption, SMT DEF FlushInv
<1>4. ASSUME NEW b \in Blocks PROVE Lookup(b) = base[b]
  <2>1. CASE \E i \in Items(small, big) : b \in Within(i)
    <3>1. PICK i \in Items(small, big) : b \in Within(i)
      BY <2>1
    <3>2. Lookup(b) = At(i, b)
      BY <3>1, ItemFound DEF CInv
    <3>3. base[b] = At(i, b)
      BY <1>1, <3>1 DEF CInv, FlushInv
    <3> QED BY <3>2, <3>3
  <2>2. CASE ~ \E i \in Items(small, big) : b \in Within(i)
    BY <2>2, BaseFound DEF CInv
  <2> QED BY <2>1, <2>2
<1> QED BY <1>2, <1>3, <1>4 DEF CInv

\* After a crash a read finds the base device, whatever was kept.
LEMMA CrashLookup ==
  ASSUME CInv, Crash
  PROVE  CInv' /\ \A b \in Blocks : Lookup(b)' = base[b]
<1>1. /\ small' = Nothing /\ big' = <<>> /\ pending' = 0
      /\ out' = {} /\ doing' = Idle /\ base' = base
  BY DEF Crash
<1>2. StoreInv' /\ \A b \in Blocks : Lookup(b)' = base[b]
  BY <1>1, Emptied DEF CInv
<1>3. FlushInv'
  BY <1>1, CacheAssumption, SMT DEF FlushInv
<1> QED BY <1>2, <1>3 DEF CInv

\* The steps of DistinctNext, with the ranges that they are taken for.
LEMMA StepCases ==
  ASSUME [DistinctNext]_vars
  PROVE  \/ \E lba, n, data : WriteAt(lba, n, data)
         \/ \E lba \in Blocks : \E n \in 1..NBlocks-lba : ReadServed(lba, n)
         \/ \E lba \in Blocks : \E n \in 1..NBlocks-lba : StartFlush("read", lba, n)
         \/ StartFlush("flush", 0, 0)
         \/ WriteItem \/ EndFlush \/ Crash
         \/ UNCHANGED vars
<1>1. CASE \E lba \in Blocks : \E n \in 1..NBlocks-lba :
             \E data \in [1..n -> Values] : Distinct(lba, n) /\ Write(lba, data)
  BY <1>1 DEF WriteAt
<1>2. CASE Reading
  BY <1>2 DEF Reading, ReadThrough
<1>3. CASE Flushing
  BY <1>3 DEF Flushing, Flush
<1> QED BY <1>1, <1>2, <1>3 DEF DistinctNext

\* A step that changes only the answer preserves the invariant.
LEMMA Same ==
  ASSUME CInv, UNCHANGED <<base, small, big, pending, out, doing>>
  PROVE  CInv'
<1>1. StoreInv'
  BY DEF CInv, StoreInv, KeptInv, ApartInv, Within, End
<1>2. FlushInv'
  BY DEF CInv, FlushInv, Items, Within, At
<1> QED BY <1>1, <1>2 DEF CInv

\* Every step preserves the invariant.
LEMMA NextInv == CInv /\ [DistinctNext]_vars => CInv'
<1> SUFFICES ASSUME CInv, [DistinctNext]_vars PROVE CInv'
  OBVIOUS
<1>1. ASSUME NEW lba, NEW n, NEW data, WriteAt(lba, n, data) PROVE CInv'
  BY <1>1, WriteInv
<1>2. ASSUME NEW lba \in Blocks, NEW n \in 1..NBlocks-lba, ReadServed(lba, n) PROVE CInv'
  BY <1>2, Same DEF ReadServed
<1>3. ASSUME NEW lba \in Blocks, NEW n \in 1..NBlocks-lba, StartFlush("read", lba, n) PROVE CInv'
  BY <1>3, StartInv
<1>4. CASE StartFlush("flush", 0, 0)
  BY <1>4, StartInv
<1>5. CASE WriteItem
  BY <1>5, ItemLookup DEF CInv
<1>6. CASE EndFlush
  BY <1>6, EndLookup
<1>7. CASE Crash
  BY <1>7, CrashLookup
<1>8. CASE UNCHANGED vars
  BY <1>8, Same DEF vars
<1> QED BY <1>1, <1>2, <1>3, <1>4, <1>5, <1>6, <1>7, <1>8, StepCases

\* The store is well formed and a flush has written what it no longer has to
\* write, in every reachable state (BulkWriteCache.write, flush_cache).
THEOREM CacheInvariant == DistinctSpec => []CInv
BY InitInv, NextInv, PTL DEF DistinctSpec

\* The cache is below its threshold and has nothing half written between calls,
\* and keeps large items in order (BulkWriteCache.write, flush_cache).
THEOREM CacheTypeCorrect == DistinctSpec => []TypeOK
<1>1. CInv => TypeOK
  <2> SUFFICES ASSUME CInv PROVE TypeOK
    OBVIOUS
  <2>1. \A i \in DOMAIN big : Within(big[i]) \subseteq Blocks /\ Len(big[i].data) > SmallMax
    BY Shape DEF CInv, StoreInv, KeptInv
  <2>2. ASSUME NEW i \in DOMAIN big, NEW j \in DOMAIN big, i < j
        PROVE  big[i].start <= big[j].start
    <3>1. End(big[i]) <= big[j].start
      BY <2>2 DEF CInv, StoreInv, ApartInv
    <3>2. big[i].start \in Nat /\ big[j].start \in Nat /\ Len(big[i].data) \in Nat \ {0}
      BY Shape DEF CInv
    <3> QED BY <3>1, <3>2, SMT DEF End
  <2> QED BY <2>1, <2>2 DEF TypeOK, CInv, StoreInv, KeptInv, FlushInv
<1> QED BY <1>1, CacheInvariant, PTL

-----------------------------------------------------------------------------
(* The refinement *)

\* What a reader sees: the refinement mapping of image.
Image == [b \in Blocks |-> Lookup(b)]

\* Both modules speak of the same blocks.
LEMMA SameBlocks == Device!Blocks = Blocks
BY DEF Device!Blocks, Blocks

\* A new cache shows the base device.
LEMMA InitDevice == Init => Device!Init
<1> SUFFICES ASSUME Init PROVE Device!Init
  OBVIOUS
<1>1. StoreInv /\ DOMAIN small = {} /\ DOMAIN big = {}
  BY InitInv DEF CInv, Init, Nothing
<1>2. \A b \in Blocks : Lookup(b) = base[b]
  BY <1>1, Found DEF FindsTheKept
<1>3. base \in [Blocks -> Values]
  BY DEF Init
<1>4. [b \in Blocks |-> Lookup(b)] = base
  BY <1>2, <1>3
<1> QED BY <1>3, <1>4, SameBlocks DEF Init, Device!Init, NoAnswer, Device!NoAnswer,
           Answer, Device!Answer

\* A write is a write of the device.
LEMMA WriteDevice ==
  ASSUME CInv, NEW lba, NEW n, NEW data, WriteAt(lba, n, data)
  PROVE  Device!Next
<1>0. Len(data) = n
  BY WriteShape
<1>1. \A b \in Blocks :
        Lookup(b)' = IF b \in Covers(lba, n) THEN data[b - lba + 1] ELSE Lookup(b)
  BY WriteLookup DEF CInv
<1>2. [b \in Blocks |-> Lookup(b)]' =
        [b \in Blocks |-> IF b \in Covers(lba, n) THEN data[b - lba + 1] ELSE Image[b]]
  BY <1>1 DEF Image
<1>3. base' = base /\ answer' = Answer("write", lba, data)
  BY DEF WriteAt, Write
<1>4. Device!Write(lba, data)
  BY <1>0, <1>2, <1>3, SameBlocks DEF Device!Write, Device!Covers, Covers, Device!Answer, Answer, Image
<1> QED BY <1>4, SameBlocks DEF WriteAt, Device!Next

\* A read that finds in its blocks what the image has there.
LEMMA ReadDevice ==
  ASSUME NEW lba \in Blocks, NEW n \in 1 .. NBlocks - lba, NEW f,
         \A b \in Blocks : f[b] = Lookup(b) /\ Lookup(b)' = Lookup(b),
         answer' = Answer("read", lba, [i \in 1..n |-> f[lba + i - 1]]),
         base' = base
  PROVE  Device!Next
<1>1. Image' = Image
  BY DEF Image
<1>2. \A i \in 1..n : lba + i - 1 \in Blocks
  BY CacheAssumption, SMT DEF Blocks
<1>3. [i \in 1..n |-> f[lba + i - 1]] = [i \in 1..n |-> Image[lba + i - 1]]
  BY <1>2 DEF Image
<1>4. Device!Read(lba, n)
  BY <1>1, <1>3, SameBlocks DEF Device!Read, Device!Answer, Answer, Image
<1> QED BY <1>4, SameBlocks DEF Device!Next

\* A read from the cache is a read of the device.
LEMMA ServedDevice ==
  ASSUME NEW lba \in Blocks, NEW n \in 1 .. NBlocks - lba, ReadServed(lba, n)
  PROVE  Device!Next
<1>1. /\ base' = base /\ small' = small /\ big' = big
      /\ answer' = Answer("read", lba, [i \in 1..n |-> Lookup(lba + i - 1)])
  BY DEF ReadServed
<1>2. \A b \in Blocks : Image[b] = Lookup(b) /\ Lookup(b)' = Lookup(b)
  BY <1>1 DEF Image, Lookup, StartsUpTo, Within, At
<1>3. \A i \in 1..n : lba + i - 1 \in Blocks
  BY CacheAssumption, SMT DEF Blocks
<1>4. answer' = Answer("read", lba, [i \in 1..n |-> Image[lba + i - 1]])
  BY <1>1, <1>3 DEF Image
<1> QED BY <1>1, <1>2, <1>4, ReadDevice

\* The end of a flush is the read that waited for it, the end of flush(), or
\* nothing that the engine can see.
LEMMA EndDevice ==
  ASSUME CInv, EndFlush
  PROVE  [Device!Next]_Device!vars
<1>1. \A b \in Blocks : Lookup(b) = base[b] /\ Lookup(b)' = base[b]
  BY EndLookup
<1>2. base' = base /\ doing # Idle
  BY DEF EndFlush
<1>3. Image' = Image
  BY <1>1 DEF Image
<1>4. CASE doing.op = "write" /\ answer' = answer
  BY <1>2, <1>3, <1>4, SameBlocks DEF Device!vars, Image
<1>5. CASE /\ doing.op = "read"
           /\ answer' = Answer("read", doing.lba, [i \in 1..doing.n |-> base[doing.lba + i - 1]])
  <2>1. doing.lba \in Blocks /\ doing.n \in 1 .. NBlocks - doing.lba
    BY <1>2, <1>5 DEF CInv, FlushInv
  <2> QED BY <1>1, <1>2, <1>5, <2>1, ReadDevice
<1>6. CASE doing.op = "flush" /\ answer' = Answer("flush", 0, <<>>)
  <2>1. base = [b \in Blocks |-> Lookup(b)]
    BY <1>1 DEF CInv, StoreInv, KeptInv
  <2>2. Device!Flushed
    BY <1>2, <1>3, <1>6, <2>1, SameBlocks DEF Device!Flushed, Device!Answer, Answer, Image
  <2> QED BY <2>2 DEF Device!Next
<1> QED BY <1>4, <1>5, <1>6 DEF EndFlush

\* Every step is a step of the device or none.
LEMMA NextDevice == CInv /\ [DistinctNext]_vars => [Device!Next]_Device!vars
<1> SUFFICES ASSUME CInv, [DistinctNext]_vars PROVE [Device!Next]_Device!vars
  OBVIOUS
<1>1. ASSUME NEW lba, NEW n, NEW data, WriteAt(lba, n, data) PROVE Device!Next
  BY <1>1, WriteDevice
<1>2. ASSUME NEW lba \in Blocks, NEW n \in 1..NBlocks-lba, ReadServed(lba, n) PROVE Device!Next
  BY <1>2, ServedDevice
<1>3. ASSUME UNCHANGED <<base, small, big, answer>> PROVE UNCHANGED Device!vars
  <2>1. [b \in Blocks |-> Lookup(b)]' = [b \in Blocks |-> Lookup(b)]
    BY <1>3 DEF Lookup, StartsUpTo, Within, At
  <2> QED BY <1>3, <2>1 DEF Device!vars
<1>4. ASSUME NEW op, NEW lba, NEW n, StartFlush(op, lba, n) PROVE UNCHANGED Device!vars
  BY <1>3, <1>4 DEF StartFlush
<1>5. CASE WriteItem
  <2>1. \A b \in Blocks : base'[b] \in {base[b], Lookup(b)} /\ Lookup(b)' = Lookup(b)
    BY <1>5, ItemLookup
  <2>2. base' \in [Blocks -> Values]
    BY <1>5, ItemLookup DEF StoreInv, KeptInv
  <2>3. answer' = answer
    BY <1>5 DEF WriteItem
  <2>4. [b \in Blocks |-> Lookup(b)]' = [b \in Blocks |-> Lookup(b)]
    BY <2>1
  <2>5. Device!Settle
    BY <2>1, <2>2, <2>3, <2>4, SameBlocks DEF Device!Settle
  <2> QED BY <2>5 DEF Device!Next
<1>6. CASE EndFlush
  BY <1>6, EndDevice
<1>7. CASE Crash
  <2>1. \A b \in Blocks : Lookup(b)' = base[b]
    BY <1>7, CrashLookup
  <2>2. base' = base /\ answer' = NoAnswer
    BY <1>7 DEF Crash
  <2>3. base \in [Blocks -> Values]
    BY DEF CInv, StoreInv, KeptInv
  <2>4. [b \in Blocks |-> Lookup(b)]' = base
    BY <2>1, <2>3
  <2>5. Device!Crash
    BY <2>2, <2>4 DEF Device!Crash, Device!NoAnswer, NoAnswer, Device!Answer, Answer
  <2> QED BY <2>5 DEF Device!Next
<1>8. CASE UNCHANGED vars
  BY <1>3, <1>8 DEF vars
<1> QED BY <1>1, <1>2, <1>4, <1>5, <1>6, <1>7, <1>8, StepCases

\* The cache is a block device: a read returns the last write, an older version
\* never replaces a newer one on the base device, and flush() returns when all
\* of them are there (BulkWriteCache, under distinct blocks).
THEOREM CacheImplementsDevice == DistinctSpec => ImplementsDevice
<1>1. Init => Device!Init
  BY InitDevice
<1>2. CInv /\ [DistinctNext]_vars => [Device!Next]_Device!vars
  BY NextDevice
<1> QED BY <1>1, <1>2, CacheInvariant, PTL DEF DistinctSpec, ImplementsDevice, Device!Spec
=============================================================================
