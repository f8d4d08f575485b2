-------------------------- MODULE FFSBitmapProofs --------------------------
(***************************************************************************)
(* For every volume geometry: the state of the bitmap is well typed, the   *)
(* cached count is the popcount of the map, and a request that passes the  *)
(* popcount test never comes back short.                                   *)
(*                                                                         *)
(* The argument.  The walk leaves no free block behind it (WalkInv): not   *)
(* in start..blk-1 before the wrap, and not in start..Total-1 nor in       *)
(* Reserved..blk-1 after it.  A request in progress was let through by an  *)
(* exact count, so the blocks taken and the free ones together are enough  *)
(* (RequestInv).  A walk that has come full circle has therefore taken     *)
(* every free block, and still less than `want`: a contradiction, so the   *)
(* two ways of coming back short are dead code.                            *)
(***************************************************************************)
EXTENDS FFSBitmap, FiniteSetTheorems, TLAPS

RequestInv ==
  pc \in {"alloc", "runs"} =>
    /\ cached # NoCount
    /\ found \cap free = {}
    /\ Cardinality(found) <= want
    /\ want <= Cardinality((free \cup found) \cap Blocks)

WalkInv ==
  pc \in {"alloc", "runs"} =>
    IF wrapped
    THEN (start .. Total-1) \cap free = {} /\ (Reserved .. blk-1) \cap free = {}
    ELSE start <= blk /\ (start .. blk-1) \cap free = {}

IInv == TypeOK /\ CountExact /\ RequestInv /\ WalkInv /\ NeverShort

-----------------------------------------------------------------------------
(* Geometry: the word and page sizes are positive, and the pages cover the *)
(* volume (bits_per_page and `needed` in Bitmap.load).                     *)
LEMMA Geometry ==
  /\ PageBits \in Nat \ {0}
  /\ NPages \in Nat
  /\ Total - Reserved <= NPages * PageBits
  /\ Blocks \subseteq Bits
  /\ IsFiniteSet(Blocks)
  /\ RootBlk \in Nat
<1> DEFINE N == Total - Reserved
           d == PageBits
           p == NPages
<1>1. d \in Nat \ {0}
  BY GeometryAssumption, SMT DEF PageBits
<1>2. N \in Nat /\ N + d - 1 \in Nat
  BY <1>1, GeometryAssumption
<1>3. p \in Nat /\ N + d - 1 < d * (p + 1)
  BY <1>1, <1>2, SMT DEF NPages
<1>4. N <= p * d
  BY <1>1, <1>2, <1>3, SMT
<1>5. Blocks \subseteq Bits
  BY <1>1, <1>3, <1>4, GeometryAssumption, SMT DEF Blocks, Bits
<1>6. IsFiniteSet(Blocks)
  BY FS_Interval, GeometryAssumption DEF Blocks
<1>7. RootBlk \in Nat
  BY GeometryAssumption, SMT DEF RootBlk
<1> QED BY <1>1, <1>3, <1>4, <1>5, <1>6, <1>7

(* _locate() names a page of the bitmap for every block of the volume.     *)
LEMMA PageInRange == ASSUME NEW b \in Blocks PROVE Page(b) \in Pages
<1> DEFINE x == b - Reserved
           N == Total - Reserved
           d == PageBits
           q == x \div d
           p == NPages
<1>1. x \in Nat /\ x <= N - 1 /\ d \in Nat \ {0} /\ p \in Nat /\ N <= p * d /\ N \in Nat
  BY Geometry, GeometryAssumption, SMT DEF Blocks
<1>2. q \in Nat /\ d * q <= x
  BY <1>1, SMT
<1>3. q <= p - 1
  <2>1. SUFFICES ASSUME q >= p PROVE FALSE
    BY <1>1, <1>2
  <2>2. PICK k \in Nat : q = p + k
    BY <1>1, <1>2, <2>1, SMT
  <2>3. d * q = p * d + d * k /\ d * k >= 0
    BY <1>1, <2>2, SMT
  <2> QED BY <1>1, <1>2, <2>3, SMT
<1> QED BY <1>1, <1>2, <1>3 DEF Page, Pages

(* What a grab of n blocks does to a set of free blocks and to the taken.  *)
LEMMA TakeCount ==
  ASSUME NEW S, IsFiniteSet(S), NEW b \in Int, NEW n \in Nat, b .. b+n-1 \subseteq S
  PROVE  Cardinality(S \ (b .. b+n-1)) = Cardinality(S) - n
<1> DEFINE T == b .. b+n-1
<1>1. Cardinality(T) = n
  BY FS_Interval
<1>2. S \cap T = T
  OBVIOUS
<1> HIDE DEF T
<1>3. Cardinality(S \ T) = Cardinality(S) - Cardinality(S \cap T)
  BY FS_Difference
<1> QED BY <1>1, <1>2, <1>3 DEF T

\* Blocks that are given back raise the count by their number.
LEMMA AddCount ==
  ASSUME NEW S, IsFiniteSet(S), NEW b \in Int, NEW n \in Nat, (b .. b+n-1) \cap S = {}
  PROVE  Cardinality(S \cup (b .. b+n-1)) = Cardinality(S) + n
<1> DEFINE T == b .. b+n-1
<1>1. IsFiniteSet(T) /\ Cardinality(T) = n
  BY FS_Interval
<1>2. S \cap T = {}
  OBVIOUS
<1> HIDE DEF T
<1>3. Cardinality(S \cup T) = Cardinality(S) + Cardinality(T) - Cardinality(S \cap T)
  BY <1>1, FS_Union
<1>4. Cardinality(S) \in Nat
  BY FS_CardinalityType
<1> QED BY <1>1, <1>2, <1>3, <1>4, FS_EmptySet DEF T

-----------------------------------------------------------------------------
\* The invariant holds when a volume is opened.
LEMMA InitInv == Init => IInv
<1> SUFFICES ASSUME Init PROVE IInv
  OBVIOUS
<1>1. /\ cursor \in Nat
      /\ start \in Blocks /\ blk \in Reserved..Total
  BY Geometry, GeometryAssumption DEF Init, NoScan, Blocks
<1>2. runs \in Seq(Nat \X Nat) /\ open \in Nat \X Nat
  BY DEF Init, NoScan
<1>3. answer \in [kind : {"none", "given", "refused"}, asked : 0..MaxCount,
                  blocks : SUBSET Blocks]
  BY GeometryAssumption DEF Init, NoAnswer, Answer
<1>4. /\ free \in SUBSET Bits /\ disk \in SUBSET Bits
      /\ cached \in Nat \cup {NoCount}
      /\ dirty \in SUBSET Pages /\ towrite \in SUBSET dirty
      /\ pc \in {"idle", "alloc", "runs", "short", "flush"}
  BY DEF Init
<1>5. want \in 0..MaxCount /\ found \in SUBSET Blocks
  BY GeometryAssumption DEF Init, NoScan
<1>6. wrapped \in BOOLEAN
  BY DEF Init, NoScan
<1>7. TypeOK
  BY <1>1, <1>2, <1>3, <1>4, <1>5, <1>6 DEF TypeOK
<1> QED
  BY <1>7 DEF Init, IInv, CountExact, RequestInv, WalkInv, NeverShort

(* alloc() and alloc_runs() start a walk at a block of the volume.         *)
LEMMA StartInBlocks ==
  ASSUME TypeOK, NEW n \in Nat
  PROVE  FromCursor \in Blocks /\ Aligned(FromCursor, n) \in Blocks
<1>1. Reserved \in Blocks
  BY GeometryAssumption DEF Blocks
<1>2. FromCursor \in Blocks
  BY <1>1 DEF FromCursor
<1>3. ASSUME NEW s \in Blocks, s + AlignBlks - (s % AlignBlks) < Total
      PROVE  s + AlignBlks - (s % AlignBlks) \in Blocks
  BY <1>3, GeometryAssumption, SMT DEF Blocks
<1> QED BY <1>1, <1>2, <1>3, GeometryAssumption, SMT DEF Aligned, Blocks

\* A call of alloc or alloc_runs begins its walk.
LEMMA CallInv ==
  ASSUME IInv, NEW n \in 1..MaxCount, NEW loop \in {"alloc", "runs"}, Call(n, loop)
  PROVE  IInv'
<1> USE GeometryAssumption
<1>1. TypeOK /\ CountExact /\ pc = "idle"
  BY DEF IInv, Call
<1>2. IsFiniteSet(free \cap Blocks) /\ Cardinality(free \cap Blocks) \in Nat
  BY Geometry, FS_Intersection, FS_CardinalityType
<1>3. CountFree = Cardinality(free \cap Blocks)
  BY <1>1 DEF CountExact, CountFree
<1>4. CASE Refused(n)
  BY <1>1, <1>2, <1>3, <1>4
  DEF Call, IInv, TypeOK, CountExact, RequestInv, WalkInv, NeverShort, Answer, scan
<1>5. CASE ~Refused(n)
  <2>1. /\ start' \in Blocks /\ blk' = start' /\ wrapped' = FALSE /\ found' = {}
        /\ want' = n /\ runs' = <<>> /\ open' = <<0, 0>> /\ pc' = loop
        /\ UNCHANGED <<free, dirty, cursor, disk, towrite>>
        /\ cached' = CountFree /\ answer' = NoAnswer
    BY <1>1, <1>5, StartInBlocks DEF Call
  <2>2. TypeOK'
    <3>1. start' \in Blocks /\ blk' \in Reserved..Total
      BY <2>1 DEF Blocks
    <3>2. answer' \in [kind : {"none", "given", "refused"}, asked : 0..MaxCount,
                       blocks : SUBSET Blocks]
      BY <2>1 DEF NoAnswer, Answer
    <3>3. runs' \in Seq(Nat \X Nat) /\ open' \in Nat \X Nat
      BY <2>1
    <3>4. want' \in 0..MaxCount /\ cached' \in Nat
      BY <1>2, <1>3, <2>1
    <3> QED BY <1>1, <2>1, <3>1, <3>2, <3>3, <3>4 DEF TypeOK
  <2>3. n <= Cardinality(free \cap Blocks)
    BY <1>2, <1>3, <1>5, SMT DEF Refused
  <2>4. RequestInv'
    <3>1. cached' # NoCount
      BY <1>2, <1>3, <2>1
    <3>2. Cardinality(found') <= want'
      BY <2>1, FS_EmptySet
    <3>3. (free' \cup found') \cap Blocks = free \cap Blocks
      BY <2>1
    <3> QED BY <2>1, <2>3, <3>1, <3>2, <3>3 DEF RequestInv
  <2>5. WalkInv'
    <3>1. ASSUME NEW s \in Blocks PROVE s <= s /\ s .. s-1 = {}
      BY SMT DEF Blocks
    <3> QED BY <2>1, <3>1 DEF WalkInv
  <2> QED
    BY <1>3, <2>1, <2>2, <2>4, <2>5 DEF IInv, CountExact, NeverShort
<1> QED BY <1>4, <1>5

(***************************************************************************)
(* The effect of one loop iteration that takes n blocks at b: a word, a    *)
(* page or a single block, at the walk's place or at Reserved after a wrap *)
(***************************************************************************)
LEMMA TakeInv ==
  ASSUME IInv, pc \in {"alloc", "runs"},
         NEW n \in Nat \ {0}, NEW b \in Nat,
         b .. b+n-1 \subseteq free \cap Blocks,
         Cardinality(found) + n <= want,
         Take(b, n),
         UNCHANGED <<cursor, disk, pc, want, start, towrite, answer>>,
         wrapped' \in BOOLEAN,
         IF wrapped' THEN /\ (start .. Total-1) \cap free = {}
                          /\ (Reserved .. b-1) \cap free = {}
                     ELSE start <= b /\ (start .. b-1) \cap free = {}
  PROVE  IInv'
<1> USE GeometryAssumption
<1> DEFINE T == b .. b+n-1
<1>1. /\ TypeOK /\ CountExact /\ RequestInv /\ NeverShort
      /\ cached # NoCount /\ found \cap free = {}
      /\ want <= Cardinality((free \cup found) \cap Blocks)
  BY DEF IInv, RequestInv
<1>2. /\ free' = free \ T /\ found' = found \cup T /\ cached' = cached - n
      /\ dirty' = dirty \cup {Page(b)} /\ blk' = b + n /\ Extend(b, n)
  BY DEF Take, Recounted, Marked
<1>3. /\ IsFiniteSet(free \cap Blocks) /\ Cardinality(free \cap Blocks) \in Nat
      /\ IsFiniteSet(found) /\ Cardinality(found) \in Nat
  BY <1>1, Geometry, FS_Intersection, FS_Subset, FS_CardinalityType DEF TypeOK
<1>4. b \in T /\ b \in Blocks /\ b + n - 1 \in T /\ b + n \in Reserved..Total
  BY SMT DEF Blocks
<1>5. Cardinality(found') = Cardinality(found) + n
  <2>1. (b .. b+n-1) \cap found = {} /\ b \in Int /\ n \in Nat
    BY <1>1
  <2>2. Cardinality(found \cup (b .. b+n-1)) = Cardinality(found) + n
    BY <1>3, <2>1, AddCount
  <2> QED BY <1>2, <2>2
<1>6. cached' = Cardinality(free' \cap Blocks) /\ cached' \in Nat
  <2>1. Cardinality((free \cap Blocks) \ T) = Cardinality(free \cap Blocks) - n
    <3>1. ASSUME NEW S, S = free \cap Blocks
          PROVE  Cardinality(S \ (b .. b+n-1)) = Cardinality(S) - n
      <4>1. IsFiniteSet(S) /\ b .. b+n-1 \subseteq S /\ b \in Int /\ n \in Nat
        BY <1>3, <3>1
      <4> QED BY <4>1, TakeCount
    <3> QED BY <3>1
  <2>2. free' \cap Blocks = (free \cap Blocks) \ T
    BY <1>2
  <2>3. Cardinality((free \cap Blocks) \ T) \in Nat
    BY <1>3, FS_Difference, FS_CardinalityType
  <2> QED BY <1>1, <1>2, <2>1, <2>2, <2>3 DEF CountExact
<1>7. runs' \in Seq(Nat \X Nat) /\ open' \in Nat \X Nat
  <2>1. open \in Nat \X Nat /\ runs \in Seq(Nat \X Nat)
    BY <1>1 DEF TypeOK
  <2>2. Closed \in Seq(Nat \X Nat)
    BY <2>1 DEF Closed
  <2>3. <<b, n>> \in Nat \X Nat /\ <<open[1], open[2] + n>> \in Nat \X Nat
    BY <2>1
  <2> QED BY <1>2, <2>1, <2>2, <2>3 DEF Extend
<1>8. TypeOK'
  <2>1. dirty' \in SUBSET Pages /\ towrite' \in SUBSET dirty'
    BY <1>1, <1>2, <1>4, PageInRange DEF TypeOK
  <2>2. free' \in SUBSET Bits /\ found' \in SUBSET Blocks
    BY <1>1, <1>2 DEF TypeOK
  <2> QED BY <1>1, <1>2, <1>4, <1>6, <1>7, <2>1, <2>2 DEF TypeOK
<1>9. RequestInv'
  <2>1. free' \cup found' = free \cup found
    BY <1>2
  <2>2. cached' # NoCount
    BY <1>6
  <2>3. found' \cap free' = {}
    BY <1>1, <1>2
  <2> QED BY <1>1, <1>3, <1>5, <2>1, <2>2, <2>3 DEF RequestInv
<1>10. WalkInv'
  <2>1. (Reserved .. b+n-1) \cap free' \subseteq (Reserved .. b-1) \cap free
    BY <1>2, <1>4, SMT
  <2>2. (start .. b+n-1) \cap free' \subseteq (start .. b-1) \cap free
    BY <1>1, <1>2, <1>4, SMT DEF TypeOK, Blocks
  <2>3. (start .. Total-1) \cap free' \subseteq (start .. Total-1) \cap free
    BY <1>2
  <2>4. blk' - 1 = b+n-1 /\ start' = start
    BY <1>2, SMT
  <2>5. CASE wrapped'
    BY <1>2, <2>1, <2>3, <2>4, <2>5 DEF WalkInv
  <2>6. CASE ~wrapped'
    <3>1. start' <= blk' /\ (start' .. blk'-1) \cap free' = {}
      BY <1>1, <1>2, <2>2, <2>4, <2>6, SMT DEF TypeOK, Blocks
    <3> QED BY <3>1, <2>6 DEF WalkInv
  <2> QED BY <2>5, <2>6
<1> QED BY <1>1, <1>6, <1>8, <1>9, <1>10 DEF IInv, CountExact, NeverShort

(* A page or a word grabbed at blk lies inside the volume and was free.    *)
LEMMA GrabInv ==
  ASSUME IInv, Scanning, GrabPage \/ GrabWord
  PROVE  IInv'
<1> USE GeometryAssumption
<1>1. TypeOK /\ WalkInv /\ pc \in {"alloc", "runs"}
  BY DEF IInv, Scanning
<1>2. blk \in Nat /\ wrapped' = wrapped /\ wrapped \in BOOLEAN
  BY <1>1 DEF TypeOK, GrabPage, GrabWord
<1>3. IF wrapped' THEN /\ (start .. Total-1) \cap free = {}
                       /\ (Reserved .. blk-1) \cap free = {}
                  ELSE start <= blk /\ (start .. blk-1) \cap free = {}
  BY <1>1, <1>2 DEF WalkInv
<1>4. UNCHANGED <<cursor, disk, pc, want, start, towrite, answer>>
  BY DEF GrabPage, GrabWord
<1>5. CASE GrabPage
  <2>1. PageBits \in Nat \ {0} /\ Take(blk, PageBits)
    BY <1>5, Geometry DEF GrabPage
  <2>2. blk .. blk+PageBits-1 \subseteq free \cap Blocks
    BY <1>1, <1>5, <2>1, SMT
    DEF GrabPage, CanGrabPage, PageAligned, WholePage, TypeOK, Blocks
  <2>3. Cardinality(found) + PageBits <= want
    BY <1>5 DEF GrabPage, CanGrabPage, Got
  <2> QED BY <1>1, <1>2, <1>3, <1>4, <2>1, <2>2, <2>3, TakeInv
<1>6. CASE GrabWord
  <2>1. WordBits \in Nat \ {0} /\ Take(blk, WordBits)
    BY <1>6 DEF GrabWord
  <2>2. blk .. blk+WordBits-1 \subseteq free \cap Blocks
    BY <1>1, <1>6, <2>1, SMT
    DEF GrabWord, CanGrabWord, WordAligned, Word, TypeOK, Blocks
  <2>3. Cardinality(found) + WordBits <= want
    BY <1>6 DEF GrabWord, CanGrabWord, Got
  <2> QED BY <1>1, <1>2, <1>3, <1>4, <2>1, <2>2, <2>3, TakeInv
<1> QED BY <1>5, <1>6

(* What the walk has left behind it when it looks at one block, At: the    *)
(* wrap, taken or not, loses no free block.                                *)
LEMMA WalkAt ==
  ASSUME IInv, Scanning
  PROVE  /\ At \in Blocks /\ Wrapping \in BOOLEAN
         /\ IF Wrapping THEN /\ (start .. Total-1) \cap free = {}
                             /\ (Reserved .. At-1) \cap free = {}
                        ELSE start <= At /\ (start .. At-1) \cap free = {}
<1> USE GeometryAssumption
<1>1. TypeOK /\ WalkInv /\ pc \in {"alloc", "runs"}
  BY DEF IInv, Scanning
<1>2. /\ wrapped \in BOOLEAN /\ blk \in Nat /\ Reserved <= blk /\ blk <= Total
      /\ start \in Nat /\ Reserved <= start /\ start < Total
  BY <1>1 DEF TypeOK, Blocks
<1>3. CASE blk >= Total
  <2>1. blk = Total /\ At = Reserved /\ Wrapping /\ Reserved .. At-1 = {}
    BY <1>2, <1>3, SMT DEF At, Wrapping
  <2>2. (start .. Total-1) \cap free = {}
    BY <1>1, <2>1 DEF WalkInv
  <2> QED BY <1>2, <2>1, <2>2 DEF Blocks
<1>4. CASE ~(blk >= Total)
  <2>1. At = blk /\ Wrapping = wrapped /\ At \in Blocks
    BY <1>2, <1>4, SMT DEF At, Wrapping, Blocks
  <2> QED BY <1>1, <1>2, <2>1 DEF WalkInv
<1> QED BY <1>3, <1>4

\* The walk takes a free block.
LEMMA TakeBlockInv == ASSUME IInv, TakeBlock PROVE IInv'
<1> USE GeometryAssumption
<1>1. /\ Scanning /\ TypeOK /\ pc \in {"alloc", "runs"} /\ Got < want
      /\ At \in free /\ Take(At, 1) /\ wrapped' = Wrapping
      /\ UNCHANGED <<cursor, disk, pc, want, start, towrite, answer>>
  BY DEF IInv, TakeBlock, BitByBit, Scanning
<1>2. At \in Blocks /\ At \in Nat
  BY <1>1, WalkAt, SMT DEF Blocks
<1>3. At .. At+1-1 = {At}
  BY <1>2
<1>4. At .. At+1-1 \subseteq free \cap Blocks
  BY <1>1, <1>2, <1>3
<1>5. Cardinality(found) + 1 <= want
  <2>1. IsFiniteSet(found) /\ want \in Nat
    BY <1>1, Geometry, FS_Subset DEF TypeOK
  <2>2. Cardinality(found) \in Nat
    BY <2>1, FS_CardinalityType
  <2> QED BY <1>1, <2>1, <2>2 DEF Got
<1>6. /\ wrapped' \in BOOLEAN
      /\ IF wrapped' THEN /\ (start .. Total-1) \cap free = {}
                          /\ (Reserved .. At-1) \cap free = {}
                     ELSE start <= At /\ (start .. At-1) \cap free = {}
  BY <1>1, WalkAt
<1> QED BY <1>1, <1>2, <1>4, <1>5, <1>6, TakeInv

(* A walk that is back at its start has taken every free block, so it has  *)
(* found what was asked for.                                               *)
LEMMA NoFullCircle ==
  ASSUME IInv, Scanning, NEW b \in Nat, start <= b,
         (start .. Total-1) \cap free = {}, (Reserved .. b-1) \cap free = {}
  PROVE  FALSE
<1>1. TypeOK /\ RequestInv /\ Got < want /\ pc \in {"alloc", "runs"}
  BY DEF IInv, Scanning
<1>2. \A x \in Blocks : x \in start .. Total-1 \/ x \in Reserved .. b-1
  BY <1>1, GeometryAssumption, SMT DEF TypeOK, Blocks
<1>3. free \cap Blocks = {}
  BY <1>2
<1>4. (free \cup found) \cap Blocks = found
  BY <1>1, <1>3 DEF TypeOK
<1>5. want <= Cardinality(found)
  BY <1>1, <1>4 DEF RequestInv
<1>6. IsFiniteSet(found) /\ want \in Nat
  BY <1>1, Geometry, FS_Subset DEF TypeOK
<1>7. Cardinality(found) \in Nat
  BY <1>6, FS_CardinalityType
<1> QED BY <1>1, <1>5, <1>6, <1>7 DEF Got

(* Passing blocks that are in use changes the walk's place only.           *)
LEMMA PassInv ==
  ASSUME IInv, Scanning, Close,
         UNCHANGED <<free, cached, dirty, cursor, disk, pc, want, start, found,
                     towrite, answer>>,
         blk' \in Reserved..Total, wrapped' \in BOOLEAN,
         IF wrapped' THEN /\ (start .. Total-1) \cap free = {}
                          /\ (Reserved .. blk'-1) \cap free = {}
                     ELSE start <= blk' /\ (start .. blk'-1) \cap free = {}
  PROVE  IInv'
<1>1. TypeOK /\ CountExact /\ RequestInv /\ NeverShort
  BY DEF IInv
<1>2. runs' \in Seq(Nat \X Nat) /\ open' \in Nat \X Nat
  BY <1>1 DEF TypeOK, Close, Closed
<1>3. TypeOK'
  BY <1>1, <1>2 DEF TypeOK
<1>4. CountExact' /\ RequestInv' /\ NeverShort'
  BY <1>1 DEF CountExact, RequestInv, NeverShort
<1>5. WalkInv'
  BY DEF WalkInv
<1> QED BY <1>3, <1>4, <1>5 DEF IInv

\* The walk skips a word without free blocks.
LEMMA SkipWordInv == ASSUME IInv, SkipWord PROVE IInv'
<1> USE GeometryAssumption
<1>1. /\ Scanning /\ TypeOK /\ WalkInv /\ CanSkipWord /\ Close
      /\ pc \in {"alloc", "runs"} /\ blk' = blk + WordBits
      /\ pc' = IF wrapped /\ start <= blk' THEN "short" ELSE pc
      /\ UNCHANGED <<free, cached, dirty, cursor, disk, want, start, wrapped,
                     found, towrite, answer>>
  BY DEF IInv, SkipWord, Scanning
<1>2. /\ blk \in Nat /\ start \in Nat /\ wrapped \in BOOLEAN
      /\ Reserved <= blk /\ blk + WordBits <= Total
      /\ (blk .. blk+WordBits-1) \cap free = {}
  BY <1>1, SMT DEF TypeOK, Blocks, CanSkipWord, WordAligned, Word
<1>3. blk' \in Nat /\ blk' \in Reserved..Total
  BY <1>1, <1>2
<1>4. /\ \A x \in Reserved .. blk'-1 : x \in Reserved .. blk-1 \/ x \in blk .. blk+WordBits-1
      /\ \A x \in start .. blk'-1 : x \in start .. blk-1 \/ x \in blk .. blk+WordBits-1
  BY <1>1, <1>2, SMT
<1>5. IF wrapped' THEN /\ (start .. Total-1) \cap free = {}
                       /\ (Reserved .. blk'-1) \cap free = {}
                  ELSE start <= blk' /\ (start .. blk'-1) \cap free = {}
  <2>1. CASE wrapped
    BY <1>1, <1>2, <1>4, <2>1 DEF WalkInv
  <2>2. CASE ~wrapped
    <3>1. start <= blk /\ (start .. blk-1) \cap free = {}
      BY <1>1, <2>2 DEF WalkInv
    <3>2. start <= blk'
      BY <1>1, <1>2, <3>1, SMT
    <3> QED BY <1>1, <1>2, <1>4, <2>2, <3>1, <3>2
  <2> QED BY <1>2, <2>1, <2>2
<1>6. ~(wrapped /\ start <= blk')
  BY <1>1, <1>3, <1>5, NoFullCircle
<1> QED BY <1>1, <1>2, <1>3, <1>5, <1>6, PassInv

\* The walk passes a block that is in use.
LEMMA PassBlockInv == ASSUME IInv, PassBlock PROVE IInv'
<1> USE GeometryAssumption
<1>1. Scanning /\ TypeOK /\ wrapped' = Wrapping /\ Close
  BY DEF IInv, PassBlock, BitByBit
<1>2. /\ At \in Blocks /\ Wrapping \in BOOLEAN
      /\ IF Wrapping THEN /\ (start .. Total-1) \cap free = {}
                          /\ (Reserved .. At-1) \cap free = {}
                     ELSE start <= At /\ (start .. At-1) \cap free = {}
  BY <1>1, WalkAt
<1>3. At \in Nat /\ start \in Nat
  BY <1>1, <1>2, SMT DEF Blocks, TypeOK
<1>4. ~BackAtStart
  BY <1>1, <1>2, <1>3, NoFullCircle DEF BackAtStart
<1>5. /\ At \notin free /\ blk' = At + 1
      /\ UNCHANGED <<free, cached, dirty, cursor, disk, pc, want, start, found,
                     towrite, answer>>
  BY <1>4 DEF PassBlock
<1>6. blk' \in Reserved..Total
  BY <1>2, <1>5, SMT DEF Blocks
<1>7. /\ \A x \in Reserved .. blk'-1 : x \in Reserved .. At-1 \/ x = At
      /\ \A x \in start .. blk'-1 : x \in start .. At-1 \/ x = At
  BY <1>3, <1>5, SMT
<1>8. IF wrapped' THEN /\ (start .. Total-1) \cap free = {}
                       /\ (Reserved .. blk'-1) \cap free = {}
                  ELSE start <= blk' /\ (start .. blk'-1) \cap free = {}
  <2>1. start <= At => start <= blk'
    BY <1>3, <1>5, SMT
  <2> QED BY <1>1, <1>2, <1>5, <1>7, <2>1
<1> QED BY <1>1, <1>2, <1>5, <1>6, <1>8, PassInv

\* A call returns.
LEMMA ReturnInv == ASSUME IInv, Return PROVE IInv'
<1> USE GeometryAssumption
<1>1. TypeOK /\ CountExact /\ UNCHANGED <<free, cached, dirty, disk, towrite>>
  BY DEF IInv, Return
<1>2. pc' = "idle" /\ cursor' \in Nat
  BY <1>1, SMT DEF Return, TypeOK
<1>3. answer' \in [kind : {"none", "given", "refused"}, asked : 0..MaxCount,
                   blocks : SUBSET Blocks]
  BY <1>1 DEF Return, Answer, TypeOK
<1>4. runs' \in Seq(Nat \X Nat) /\ open' \in Nat \X Nat
  <2>1. runs' = <<>> /\ open' = <<0, 0>>
    BY DEF Return, Forget
  <2> QED BY <2>1
<1>7. wrapped' \in BOOLEAN
  BY DEF Return, Forget
<1>5. /\ want' \in 0..MaxCount /\ found' \in SUBSET Blocks
      /\ start' \in Blocks /\ blk' \in Reserved..Total
  BY DEF Return, Forget, Blocks
<1>6. TypeOK'
  BY <1>1, <1>2, <1>3, <1>4, <1>5, <1>7 DEF TypeOK
<1> QED BY <1>1, <1>2, <1>6 DEF IInv, CountExact, RequestInv, WalkInv, NeverShort

(* free() counts the blocks that were in use, and only those.              *)
LEMMA FreeInv == ASSUME IInv, NEW S \in SUBSET Blocks, Free(S) PROVE IInv'
<1> USE GeometryAssumption
<1> DEFINE New == S \ free
           Old == free \cap Blocks
<1>1. /\ TypeOK /\ CountExact /\ pc = "idle" /\ pc' = pc
      /\ free' = free \cup S
      /\ dirty' = dirty \cup {Page(b) : b \in S \ free}
      /\ answer' = NoAnswer /\ UNCHANGED <<cursor, disk, pc, scan, towrite>>
      /\ cached' = IF cached = NoCount THEN NoCount ELSE cached + Cardinality(New)
  BY DEF IInv, Free
<1>2. IsFiniteSet(Old) /\ IsFiniteSet(New)
  BY Geometry, FS_Intersection, FS_Subset
<1>3. Cardinality(Old) \in Nat /\ Cardinality(New) \in Nat
  BY <1>2, FS_CardinalityType
<1>4. Cardinality(free' \cap Blocks) = Cardinality(Old) + Cardinality(New)
  <2>1. free' \cap Blocks = Old \cup New /\ Old \cap New = {}
    BY <1>1
  <2> HIDE DEF Old, New
  <2>2. Cardinality(Old \cup New)
        = Cardinality(Old) + Cardinality(New) - Cardinality(Old \cap New)
    BY <1>2, FS_Union
  <2>3. Cardinality(Old \cap New) = 0
    BY <2>1, FS_EmptySet
  <2>4. Cardinality(free' \cap Blocks) = Cardinality(Old \cup New)
    BY <2>1
  <2> QED BY <1>3, <2>2, <2>3, <2>4
<1>5. CountExact' /\ cached' \in Nat \cup {NoCount}
  BY <1>1, <1>3, <1>4 DEF CountExact, TypeOK
<1>6. free' \in SUBSET Bits
  BY <1>1, Geometry DEF TypeOK
<1>7. dirty' \in SUBSET Pages /\ towrite' \in SUBSET dirty'
  BY SMTT(40), <1>1, PageInRange DEF TypeOK
<1>8. answer' \in [kind : {"none", "given", "refused"}, asked : 0..MaxCount,
                   blocks : SUBSET Blocks]
  BY <1>1 DEF NoAnswer, Answer
<1>9. TypeOK'
  BY <1>1, <1>5, <1>6, <1>7, <1>8 DEF TypeOK, scan
<1> QED BY <1>1, <1>5, <1>9 DEF IInv, RequestInv, WalkInv, NeverShort

(* flush() and its failure touch the medium and the dirty set only.        *)
LEMMA FlushInv ==
  ASSUME IInv, Flush \/ WriteRun \/ FlushDone \/ WriteError PROVE IInv'
<1>1. TypeOK /\ CountExact
  BY DEF IInv
<1>2. /\ pc' \in {"idle", "flush"}
      /\ UNCHANGED <<free, cached, cursor, scan>>
  BY DEF Flush, WriteRun, FlushDone, WriteError
<1>3. disk' \in SUBSET Bits
  BY <1>1 DEF TypeOK, Flush, WriteRun, FlushDone, WriteError
<1>4. dirty' \in SUBSET Pages /\ towrite' \in SUBSET dirty'
  BY <1>1 DEF TypeOK, Flush, WriteRun, FlushDone, WriteError
<1>5. answer' \in [kind : {"none", "given", "refused"}, asked : 0..MaxCount,
                   blocks : SUBSET Blocks]
  BY <1>1, GeometryAssumption
  DEF TypeOK, Flush, WriteRun, FlushDone, WriteError, NoAnswer, Answer
<1>6. TypeOK'
  BY <1>1, <1>2, <1>3, <1>4, <1>5 DEF TypeOK, scan
<1> QED BY <1>1, <1>2, <1>6 DEF IInv, CountExact, RequestInv, WalkInv, NeverShort

\* The volume is mounted again from what is on the disk.
LEMMA RemountInv == ASSUME IInv, Remount PROVE IInv'
<1> USE GeometryAssumption
<1>1. TypeOK
  BY DEF IInv
<1>2. /\ free' \in SUBSET Bits /\ disk' \in SUBSET Bits /\ cached' = NoCount
      /\ dirty' = {} /\ towrite' = {} /\ pc' = "idle" /\ cursor' \in Nat
  BY <1>1, Geometry, SMT DEF Remount, TypeOK
<1>3. answer' \in [kind : {"none", "given", "refused"}, asked : 0..MaxCount,
                   blocks : SUBSET Blocks]
  BY DEF Remount, NoAnswer, Answer
<1>4. runs' \in Seq(Nat \X Nat) /\ open' \in Nat \X Nat
  <2>1. runs' = <<>> /\ open' = <<0, 0>>
    BY DEF Remount, Forget
  <2> QED BY <2>1
<1>7. wrapped' \in BOOLEAN
  BY DEF Remount, Forget
<1>5. /\ want' \in 0..MaxCount /\ found' \in SUBSET Blocks
      /\ start' \in Blocks /\ blk' \in Reserved..Total
  BY DEF Remount, Forget, Blocks
<1>6. TypeOK'
  BY <1>2, <1>3, <1>4, <1>5, <1>7 DEF TypeOK
<1> QED BY <1>2, <1>6 DEF IInv, CountExact, RequestInv, WalkInv, NeverShort

\* Every step keeps the invariant.
LEMMA NextInv == IInv /\ [Next]_vars => IInv'
<1> SUFFICES ASSUME IInv, [Next]_vars PROVE IInv'
  OBVIOUS
<1>1. ASSUME NEW n \in 1..MaxCount, NEW loop \in {"alloc", "runs"}, Call(n, loop)
      PROVE  IInv'
  BY <1>1, CallInv
<1>2. CASE GrabPage
  BY <1>2, GrabInv DEF GrabPage
<1>3. CASE GrabWord
  BY <1>3, GrabInv DEF GrabWord
<1>4. CASE SkipWord
  BY <1>4, SkipWordInv
<1>5. CASE TakeBlock
  BY <1>5, TakeBlockInv
<1>6. CASE PassBlock
  BY <1>6, PassBlockInv
<1>7. CASE Return
  BY <1>7, ReturnInv
<1>8. ASSUME NEW S \in SUBSET Blocks, Free(S) PROVE IInv'
  BY <1>8, FreeInv
<1>9. CASE Flush \/ WriteRun \/ FlushDone \/ WriteError
  BY <1>9, FlushInv
<1>10. CASE Remount
  BY <1>10, RemountInv
<1>11. CASE UNCHANGED vars
  <2>1. TypeOK /\ CountExact /\ RequestInv /\ WalkInv /\ NeverShort
    BY DEF IInv
  <2>2. TypeOK'
    BY <1>11, <2>1 DEF vars, scan, TypeOK
  <2> QED BY <1>11, <2>1, <2>2
          DEF vars, scan, IInv, CountExact, RequestInv, WalkInv, NeverShort
<1> QED BY <1>1, <1>2, <1>3, <1>4, <1>5, <1>6, <1>7, <1>8, <1>9, <1>10, <1>11
        DEF Next

(* The inductive invariant holds of the bitmap, whatever the geometry.     *)
THEOREM Invariant == Spec => []IInv
<1> QED BY InitInv, NextInv, PTL DEF Spec

(* The map, the counters and the locals of the scan stay well typed: block *)
(* numbers taken lie inside the volume, dirty pages inside the bitmap.     *)
THEOREM TypeCorrect == Spec => []TypeOK
<1>1. IInv => TypeOK
  BY DEF IInv
<1> QED BY Invariant, <1>1, PTL

(* The cached _free_count is the popcount of the map, so a request is      *)
(* refused exactly when it does not fit.                                   *)
THEOREM CountAlwaysExact == Spec => []CountExact
<1>1. IInv => CountExact
  BY DEF IInv
<1> QED BY Invariant, <1>1, PTL

(* The loops of alloc() and alloc_runs() never end without the blocks that *)
(* the popcount test promised: the roll-back and the early exit of the     *)
(* skip branch are unreachable.                                            *)
THEOREM ScanNeverShort == Spec => []NeverShort
<1>1. IInv => NeverShort
  BY DEF IInv
<1> QED BY Invariant, <1>1, PTL

-----------------------------------------------------------------------------
(***************************************************************************)
(* The bitmap is the abstract allocator that an engine relies on, a        *)
(* request takes the first free blocks of the walk from the cursor, and a  *)
(* page that is not dirty is on the medium.                                *)
(*                                                                         *)
(* The argument.  An iteration of either loop takes n free blocks of one   *)
(* page or passes n blocks in use (Taken, PassedBy), always from At on.    *)
(* What is behind the walk is therefore in use or taken (WalkInv and       *)
(* FitInv), whatever was jumped over, so that the blocks taken are those   *)
(* that a walk block by block would have met first.  A request shows in    *)
(* the abstract state when it returns; until then the blocks it has taken  *)
(* count as free there.                                                    *)
(***************************************************************************)

InScan == pc \in {"alloc", "runs"}

(* A page that no flush has still to write is the same in memory and on    *)
(* the medium.  While a flush runs, those are the pages of towrite.        *)
Unsaved == IF pc = "flush" THEN towrite ELSE dirty
CleanInv == \A p \in Pages \ Unsaved : PageOf(p) \cap free = PageOf(p) \cap disk

(* A request wants something, blocks are taken in a scan only, and a flush *)
(* has wiped the last answer.                                              *)
QuietInv ==
  /\ InScan => want # 0
  /\ ~InScan => found = {}
  /\ pc = "flush" => answer = NoAnswer

AInv == IInv /\ CleanInv /\ QuietInv

-----------------------------------------------------------------------------
(* Arithmetic of words and pages *)

(* The page number is the only quotient that fits.                         *)
LEMMA Quotient ==
  ASSUME NEW d \in Nat \ {0}, NEW y \in Nat, NEW q \in Nat,
         d * q <= y, y < d * (q + 1)
  PROVE  y \div d = q
<1> DEFINE r == y \div d
<1>1. r \in Nat /\ d * r <= y /\ y < d * (r + 1)
  BY SMT
<1> HIDE DEF r
<1>2. ~(r < q)
  <2>1. SUFFICES ASSUME r < q PROVE FALSE
    OBVIOUS
  <2>2. PICK k \in Nat : q = (r + 1) + k
    BY <1>1, <2>1, SMT
  <2>3. d * q = d * (r + 1) + d * k /\ d * k >= 0
    BY <1>1, <2>2, SMT
  <2> QED BY <1>1, <2>3, SMT
<1>3. ~(q < r)
  <2>1. SUFFICES ASSUME q < r PROVE FALSE
    OBVIOUS
  <2>2. PICK k \in Nat : r = (q + 1) + k
    BY <1>1, <2>1, SMT
  <2>3. d * r = d * (q + 1) + d * k /\ d * k >= 0
    BY <1>1, <2>2, SMT
  <2> QED BY <1>1, <2>3, SMT
<1>4. r = q
  BY <1>1, <1>2, <1>3
<1> QED BY <1>4 DEF r

(* A word that begins at a multiple of its size lies in one page.          *)
LEMMA WordInPage ==
  ASSUME NEW b \in Nat, Reserved <= b, (b - Reserved) % WordBits = 0,
         NEW x \in b .. b + WordBits - 1
  PROVE  Page(x) = Page(b)
<1> USE GeometryAssumption
<1> DEFINE w == WordBits
           W == WordsPerPage
           d == PageBits
           z == b - Reserved
           k == z \div w
           q == z \div d
<1>1. w \in Nat \ {0} /\ W \in Nat \ {0} /\ d \in Nat \ {0} /\ d = W * w /\ z \in Nat
  BY Geometry DEF PageBits
<1>2. k \in Nat /\ z = w * k
  BY <1>1, SMT
<1>3. q \in Nat /\ d * q <= z /\ z < d * (q + 1)
  BY <1>1, SMT
<1> HIDE DEF k, q, d, w, W, z
<1>4. d * q = w * (W * q) /\ d * (q + 1) = w * (W * (q + 1)) /\ W * (q + 1) \in Nat
  BY <1>1, <1>3, SMT
<1>5. k < W * (q + 1)
  <2> DEFINE m == W * (q + 1)
  <2>1. m \in Nat /\ w * k < w * m
    BY <1>2, <1>3, <1>4
  <2> HIDE DEF m
  <2>2. SUFFICES ASSUME k >= m PROVE FALSE
    BY <1>2, <2>1 DEF m
  <2>3. PICK j \in Nat : k = m + j
    BY <1>2, <2>1, <2>2, SMT
  <2>4. w * k = w * m + w * j /\ w * j >= 0
    BY <1>1, <2>1, <2>3, SMT
  <2> QED BY <1>1, <1>2, <2>1, <2>4, SMT
<1>6. z + w <= d * (q + 1)
  <2> DEFINE m == W * (q + 1)
  <2>1. m \in Nat /\ k < m
    BY <1>4, <1>5
  <2> HIDE DEF m
  <2>2. PICK j \in Nat : m = (k + 1) + j
    BY <1>2, <2>1, SMT
  <2>3. w * m = w * (k + 1) + w * j /\ w * j >= 0 /\ w * (k + 1) = w * k + w
    BY <1>1, <1>2, <2>2, SMT
  <2>4. w * m \in Nat /\ w * k \in Nat /\ w * m >= w * k + w
    BY <1>1, <1>2, <2>1, <2>3, SMT
  <2> QED BY <1>1, <1>2, <1>4, <2>4 DEF m
<1>7. x - Reserved \in Nat /\ z <= x - Reserved /\ x - Reserved < z + w
  BY SMT DEF z, w
<1>8. d * q \in Nat /\ d * (q + 1) \in Nat
  BY <1>1, <1>3, SMT
<1>9. d * q <= x - Reserved /\ x - Reserved < d * (q + 1)
  BY <1>1, <1>3, <1>6, <1>7, <1>8, SMT
<1>10. (x - Reserved) \div d = q
  BY <1>1, <1>3, <1>7, <1>9, Quotient
<1> QED BY <1>10 DEF Page, q, d, z

(* So does a page that begins at a multiple of its size.                   *)
LEMMA PageInPage ==
  ASSUME NEW b \in Nat, Reserved <= b, (b - Reserved) % PageBits = 0,
         NEW x \in b .. b + PageBits - 1
  PROVE  Page(x) = Page(b)
<1> USE GeometryAssumption
<1> DEFINE d == PageBits
           z == b - Reserved
           q == z \div d
<1>1. d \in Nat \ {0} /\ z \in Nat
  BY Geometry
<1>2. q \in Nat /\ z = d * q
  BY <1>1, SMT
<1> HIDE DEF q, d, z
<1>3. d * (q + 1) = z + d
  BY <1>1, <1>2, SMT
<1>4. x - Reserved \in Nat /\ z <= x - Reserved /\ x - Reserved < z + d
  BY SMT, <1>1 DEF z, d
<1>5. (x - Reserved) \div d = q
  BY <1>1, <1>2, <1>3, <1>4, Quotient
<1> QED BY <1>5 DEF Page, q, d, z

-----------------------------------------------------------------------------
(* The iterations of a scan: one that takes takes n free blocks of one     *)
(* page from At, one that passes goes n blocks in use further.             *)
LEMMA Taken ==
  ASSUME IInv, GrabPage \/ GrabWord \/ TakeBlock
  PROVE  \E n \in Nat \ {0} :
           /\ Take(At, n) /\ wrapped' = Wrapping
           /\ At .. At+n-1 \subseteq free \cap Blocks
           /\ \A x \in At .. At+n-1 : Page(x) = Page(At)
           /\ InScan /\ Got < want
           /\ UNCHANGED <<cursor, disk, pc, want, start, towrite, answer>>
<1> USE GeometryAssumption
<1>1. TypeOK /\ Scanning
  BY DEF IInv, GrabPage, GrabWord, TakeBlock, BitByBit
<1>2. /\ InScan /\ Got < want /\ blk \in Nat /\ Reserved <= blk
      /\ wrapped \in BOOLEAN /\ At \in Blocks /\ At \in Nat
  BY <1>1, WalkAt, SMT DEF Scanning, InScan, TypeOK, Blocks
<1>3. ASSUME NEW w \in Nat \ {0}, blk + w <= Total, Take(blk, w), wrapped' = wrapped,
             blk .. blk+w-1 \subseteq free,
             \A x \in blk .. blk+w-1 : Page(x) = Page(blk),
             UNCHANGED <<cursor, disk, pc, want, start, towrite, answer>>
      PROVE  \E n \in Nat \ {0} :
               /\ Take(At, n) /\ wrapped' = Wrapping
               /\ At .. At+n-1 \subseteq free \cap Blocks
               /\ \A x \in At .. At+n-1 : Page(x) = Page(At)
               /\ UNCHANGED <<cursor, disk, pc, want, start, towrite, answer>>
  <2>1. At = blk /\ Wrapping = wrapped
    BY <1>2, <1>3, SMT DEF At, Wrapping
  <2>2. blk .. blk+w-1 \subseteq Blocks
    BY <1>2, <1>3, SMT DEF Blocks
  <2> QED BY <1>3, <2>1, <2>2
<1>4. CASE GrabPage
  <2>1. PageBits \in Nat \ {0} /\ blk + PageBits <= Total /\ (blk - Reserved) % PageBits = 0
    BY <1>4, Geometry DEF GrabPage, CanGrabPage, PageAligned
  <2>2. blk .. blk+PageBits-1 \subseteq free
    BY <1>4 DEF GrabPage, CanGrabPage, WholePage
  <2>3. \A x \in blk .. blk+PageBits-1 : Page(x) = Page(blk)
    BY <1>2, <2>1, PageInPage
  <2> QED BY <1>2, <1>3, <1>4, <2>1, <2>2, <2>3 DEF GrabPage
<1>5. CASE GrabWord
  <2>1. WordBits \in Nat \ {0} /\ blk + WordBits <= Total /\ (blk - Reserved) % WordBits = 0
    BY <1>5 DEF GrabWord, CanGrabWord, WordAligned
  <2>2. blk .. blk+WordBits-1 \subseteq free
    BY <1>5 DEF GrabWord, CanGrabWord, Word
  <2>3. \A x \in blk .. blk+WordBits-1 : Page(x) = Page(blk)
    BY <1>2, <2>1, WordInPage
  <2> QED BY <1>2, <1>3, <1>5, <2>1, <2>2, <2>3 DEF GrabWord
<1>6. CASE TakeBlock
  <2>1. At .. At+1-1 = {At} /\ At \in free /\ Take(At, 1) /\ wrapped' = Wrapping
        /\ UNCHANGED <<cursor, disk, pc, want, start, towrite, answer>>
    BY <1>2, <1>6 DEF TakeBlock
  <2>2. \A x \in At .. At+1-1 : Page(x) = Page(At)
    BY <2>1
  <2> QED BY <1>2, <2>1, <2>2
<1> QED BY <1>2, <1>4, <1>5, <1>6

(* It passes them without having come back to its start.                   *)
LEMMA PassedBy ==
  ASSUME IInv, SkipWord \/ PassBlock
  PROVE  \E n \in Nat \ {0} :
           /\ blk' = At + n /\ wrapped' = Wrapping
           /\ At .. At+n-1 \subseteq Blocks \ free
           /\ Wrapping => At + n <= start
           /\ Close /\ InScan
           /\ UNCHANGED <<free, found, dirty, cursor, disk, pc, want, start, towrite, answer>>
<1> USE GeometryAssumption
<1>1. TypeOK /\ Scanning /\ IInv'
  BY SkipWordInv, PassBlockInv DEF IInv, SkipWord, PassBlock, BitByBit
<1>5. pc' # "short"
  BY <1>1 DEF IInv, NeverShort
<1>2. /\ InScan /\ blk \in Nat /\ Reserved <= blk
      /\ wrapped \in BOOLEAN /\ At \in Blocks /\ At \in Nat
  BY <1>1, WalkAt, SMT DEF Scanning, InScan, TypeOK, Blocks
<1>3. CASE SkipWord
  <2>1. /\ WordBits \in Nat \ {0} /\ blk + WordBits <= Total
        /\ (blk .. blk + WordBits - 1) \cap free = {}
    BY <1>3 DEF SkipWord, CanSkipWord, WordAligned, Word
  <2>2. At = blk /\ Wrapping = wrapped
    BY <1>2, <2>1, SMT DEF At, Wrapping
  <2>3. blk .. blk+WordBits-1 \subseteq Blocks
    BY <1>2, <2>1, SMT DEF Blocks
  <2>4. pc' = pc /\ (wrapped => blk + WordBits <= start)
    <3>1. start \in Nat /\ blk + WordBits \in Nat
      BY <1>1, <1>2 DEF TypeOK, Blocks
    <3>2. ~(wrapped /\ start <= blk + WordBits)
      BY <1>5, <1>3 DEF SkipWord
    <3>3. pc' = pc
      BY <1>5, <1>3 DEF SkipWord
    <3> QED BY <3>1, <3>2, <3>3
  <2> QED BY <1>2, <1>3, <2>1, <2>2, <2>3, <2>4 DEF SkipWord
<1>4. CASE PassBlock
  <2>1. ~BackAtStart
    BY <1>5, <1>4 DEF PassBlock
  <2>2. At .. At+1-1 = {At} /\ At \notin free /\ blk' = At + 1
    BY <1>2, <1>4, <2>1 DEF PassBlock
  <2>3. Wrapping => At + 1 <= start
    BY <1>1, <1>2, <2>1, SMT DEF BackAtStart, TypeOK, Blocks
  <2> QED BY <1>2, <1>4, <2>1, <2>2, <2>3 DEF PassBlock
<1> QED BY <1>3, <1>4

-----------------------------------------------------------------------------
(* The pages that are clean stay clean *)

(* Bitmap.load() reads what is on the medium.                              *)
LEMMA InitClean == Init => CleanInv /\ QuietInv
BY DEF Init, NoScan, CleanInv, QuietInv, InScan

(* The blocks that an iteration takes lie in the page that it marks.       *)
LEMMA TakenClean ==
  ASSUME AInv, GrabPage \/ GrabWord \/ TakeBlock
  PROVE  CleanInv' /\ QuietInv'
<1>1. IInv /\ CleanInv /\ QuietInv
  BY DEF AInv
<1>2. PICK n \in Nat \ {0} :
        /\ Take(At, n) /\ At .. At+n-1 \subseteq Blocks
        /\ \A x \in At .. At+n-1 : Page(x) = Page(At)
        /\ InScan /\ UNCHANGED <<disk, pc, want, towrite>>
  BY <1>1, Taken
<1>3. QuietInv'
  BY <1>1, <1>2 DEF QuietInv, InScan
<1>4. /\ Unsaved = dirty /\ Unsaved' = dirty \cup {Page(At)}
      /\ free' = free \ (At .. At+n-1)
  BY <1>2 DEF Unsaved, InScan, Take, Marked
<1>5. ASSUME NEW p \in Pages \ Unsaved' PROVE PageOf(p) \cap free' = PageOf(p) \cap disk'
  <2>1. p \in Pages \ Unsaved /\ p # Page(At)
    BY <1>4, <1>5
  <2>2. PageOf(p) \cap (At .. At+n-1) = {}
    BY <1>2, <2>1 DEF PageOf
  <2> QED BY <1>1, <1>2, <1>4, <2>1, <2>2 DEF CleanInv
<1> QED BY <1>3, <1>5 DEF CleanInv

(* free() marks the pages it changes, flush() cleans what it has written.  *)
LEMMA OtherClean ==
  ASSUME AInv, [Next]_vars, ~(GrabPage \/ GrabWord \/ TakeBlock)
  PROVE  CleanInv' /\ QuietInv'
<1>1. IInv /\ CleanInv /\ QuietInv /\ TypeOK /\ NeverShort
  BY DEF AInv, IInv
<1>2. ASSUME NEW n \in 1..MaxCount, NEW loop \in {"alloc", "runs"}, Call(n, loop)
      PROVE  CleanInv' /\ QuietInv'
  <2>1. /\ pc = "idle" /\ found = {} /\ found' = {}
        /\ UNCHANGED <<free, dirty, disk, towrite>>
    BY <1>1, <1>2 DEF Call, QuietInv, InScan, scan
  <2>2. pc' = pc \/ (pc' = loop /\ want' = n)
    BY <1>2 DEF Call
  <2>3. n # 0
    BY GeometryAssumption
  <2> QED BY <1>1, <2>1, <2>2, <2>3 DEF CleanInv, Unsaved, QuietInv, InScan
<1>3. CASE SkipWord \/ PassBlock
  <2>1. InScan /\ UNCHANGED <<free, found, dirty, disk, pc, want, towrite>>
    BY <1>1, <1>3, PassedBy
  <2> QED BY <1>1, <2>1 DEF CleanInv, Unsaved, QuietInv, InScan
<1>4. CASE Return
  <2>1. /\ pc' = "idle" /\ found' = {} /\ pc # "flush"
        /\ UNCHANGED <<free, dirty, disk>>
    BY <1>4 DEF Return, Forget
  <2> QED BY <1>1, <2>1 DEF CleanInv, Unsaved, QuietInv, InScan
<1>5. ASSUME NEW S \in SUBSET Blocks, Free(S) PROVE CleanInv' /\ QuietInv'
  <2>1. /\ pc = "idle" /\ UNCHANGED <<pc, found, want, disk>>
        /\ free' = free \cup S /\ dirty' = dirty \cup {Page(b) : b \in S \ free}
    BY <1>5 DEF Free, scan
  <2>2. ASSUME NEW p \in Pages \ Unsaved' PROVE PageOf(p) \cap free' = PageOf(p) \cap disk'
    <3>1. p \in Pages \ Unsaved /\ \A b \in S \ free : Page(b) # p
      BY <2>1, <2>2 DEF Unsaved
    <3>2. PageOf(p) \cap free' = PageOf(p) \cap free
      BY <2>1, <3>1 DEF PageOf
    <3> QED BY <1>1, <2>1, <3>1, <3>2 DEF CleanInv
  <2> QED BY <1>1, <2>1, <2>2 DEF CleanInv, QuietInv, InScan
<1>6. CASE Flush
  BY <1>1, <1>6 DEF Flush, CleanInv, Unsaved, QuietInv, InScan, scan
<1>7. CASE WriteRun
  <2>1. PICK p \in towrite, q \in towrite :
          /\ disk' = {b \in Bits : b \in (IF Page(b) \in p..q THEN free ELSE disk)}
          /\ towrite' = towrite \ (p..q)
    BY <1>7 DEF WriteRun
  <2>2. pc = "flush" /\ UNCHANGED <<free, dirty, pc, found, want, answer>>
    BY <1>7 DEF WriteRun, scan
  <2>3. ASSUME NEW r \in Pages \ Unsaved' PROVE PageOf(r) \cap free' = PageOf(r) \cap disk'
    <3>1. r \in p..q \/ r \in Pages \ Unsaved
      BY <2>1, <2>2, <2>3 DEF Unsaved
    <3>2. CASE r \in p..q
      BY <2>1, <2>2, <3>2 DEF PageOf
    <3>3. CASE r \notin p..q
      <4>1. PageOf(r) \cap disk' = PageOf(r) \cap disk
        BY <2>1, <3>3 DEF PageOf
      <4> QED BY <1>1, <2>2, <3>1, <3>3, <4>1 DEF CleanInv
    <3> QED BY <3>2, <3>3
  <2> QED BY <1>1, <2>2, <2>3 DEF CleanInv, QuietInv, InScan
<1>8. CASE FlushDone
  BY <1>1, <1>8 DEF FlushDone, CleanInv, Unsaved, QuietInv, InScan, scan
<1>9. CASE WriteError
  <2>1. /\ pc = "flush" /\ pc' = "idle" /\ UNCHANGED <<free, dirty, disk, found>>
    BY <1>9 DEF WriteError, scan
  <2>2. towrite \subseteq dirty
    BY <1>1 DEF TypeOK
  <2> QED BY <1>1, <2>1, <2>2 DEF CleanInv, Unsaved, QuietInv, InScan
<1>10. CASE Remount
  BY <1>10 DEF Remount, Forget, CleanInv, QuietInv, InScan
<1>11. CASE UNCHANGED vars
  BY <1>1, <1>11 DEF vars, scan, CleanInv, Unsaved, QuietInv, InScan
<1> QED BY <1>2, <1>3, <1>4, <1>5, <1>6, <1>7, <1>8, <1>9, <1>10, <1>11 DEF Next

(* Both invariants hold of the bitmap, whatever the geometry.              *)
THEOREM AllocatorInvariant == Spec => []AInv
<1>1. Init => AInv
  BY InitInv, InitClean DEF AInv
<1>2. AInv /\ [Next]_vars => AInv'
  BY NextInv, TakenClean, OtherClean DEF AInv
<1> QED BY <1>1, <1>2, PTL DEF Spec

(* A page that is not in the dirty set, which flush() leaves out, is the   *)
(* same in memory and on the medium, words and pages grabbed whole and     *)
(* flushes that failed half-way included.                                  *)
THEOREM CleanAlwaysOnDisk == Spec => []CleanPagesOnDisk
<1>1. AInv => CleanPagesOnDisk
  BY DEF AInv, IInv, TypeOK, CleanInv, Unsaved, CleanPagesOnDisk
<1> QED BY AllocatorInvariant, <1>1, PTL

-----------------------------------------------------------------------------
(* The abstract allocator: while a request runs, the blocks it has taken   *)
(* are not gone yet.                                                       *)
Mem == (free \cup found) \cap Blocks

(* The abstract module counts with its own instance of FiniteSets.         *)
LEMMA SameCount == ASSUME NEW S PROVE Allocator!Cardinality(S) = Cardinality(S)
BY DEF Allocator!Cardinality, Cardinality, Allocator!IsFiniteSet, IsFiniteSet

(* A volume that is mounted is an allocator whose memory is the medium.    *)
LEMMA RefinesInit == Init => Allocator!Init
<1> SUFFICES ASSUME Init PROVE Allocator!Init
  OBVIOUS
<1>1. found = {} /\ free = disk /\ answer = NoAnswer
  BY DEF Init, NoScan
<1> QED BY <1>1 DEF Allocator!Init, Allocator!None, NoAnswer, Answer

(* What changes neither memory, medium nor answer is not seen.             *)
LEMMA Unseen ==
  ASSUME UNCHANGED <<Mem, disk, answer>>
  PROVE  UNCHANGED Allocator!vars
BY DEF Mem, Allocator!vars

(* A step that only clears the last answer persists nothing.               *)
LEMMA Cleared ==
  ASSUME UNCHANGED <<Mem, disk>>, answer' = NoAnswer
  PROVE  Allocator!Next
<1>1. Allocator!Persist({})
  BY DEF Mem, Allocator!Persist, Allocator!None, NoAnswer, Answer
<1> QED BY <1>1 DEF Allocator!Next

(* alloc() refuses for want of free blocks only.                           *)
LEMMA CallRefines ==
  ASSUME AInv, NEW n \in 1..MaxCount, NEW loop \in {"alloc", "runs"}, Call(n, loop)
  PROVE  Allocator!Next
<1>1. TypeOK /\ CountExact /\ found = {} /\ UNCHANGED <<free, disk>>
  BY DEF AInv, QuietInv, InScan, IInv, Call
<1>2. CASE Refused(n)
  <2>1. answer' = Answer("refused", n, {}) /\ UNCHANGED found
    BY <1>2 DEF Call, scan
  <2>2. CountFree = Cardinality(Mem)
    BY <1>1 DEF CountExact, CountFree, Mem
  <2>3. Cardinality(Mem) \in Nat
    BY Geometry, FS_Intersection, FS_CardinalityType DEF Mem
  <2>4. Allocator!Cardinality((free \cup found) \cap Blocks) < n
    BY <1>2, <2>2, <2>3, SameCount, SMT DEF Refused, Mem
  <2>5. Allocator!Refuse(n)
    BY <1>1, <2>1, <2>4 DEF Allocator!Refuse, Allocator!Refused, Answer
  <2> QED BY <2>5 DEF Allocator!Next
<1>3. CASE ~Refused(n)
  <2>1. found' = {} /\ answer' = NoAnswer
    BY <1>3 DEF Call
  <2> QED BY <1>1, <2>1, Cleared DEF Mem
<1> QED BY <1>2, <1>3

(* A request takes effect when it returns.                                 *)
LEMMA ReturnRefines == ASSUME AInv, Return PROVE Allocator!Next
<1>1. TypeOK /\ RequestInv /\ QuietInv /\ pc \in {"alloc", "runs"} /\ Got = want
  BY DEF AInv, IInv, Return
<1>2. /\ found' = {} /\ answer' = Answer("given", want, found)
      /\ UNCHANGED <<free, disk>>
  BY DEF Return, Forget
<1>3. want \in 1..MaxCount
  BY <1>1, GeometryAssumption DEF TypeOK, QuietInv, InScan
<1>4. found \subseteq Mem /\ Mem' = Mem \ found
  BY <1>1, <1>2 DEF Mem, RequestInv, TypeOK
<1>5. Allocator!Cardinality(found) = want
  BY <1>1, SameCount DEF Got
<1>6. Allocator!Allocate(want)
  BY <1>2, <1>4, <1>5 DEF Allocator!Allocate, Allocator!Given, Answer, Mem
<1> QED BY <1>3, <1>6 DEF Allocator!Next

(* flush() persists the blocks of the pages that it writes.                *)
LEMMA WriteRunRefines == ASSUME AInv, WriteRun PROVE Allocator!Next
<1>1. pc = "flush" /\ answer = NoAnswer /\ found = {} /\ TypeOK
  BY DEF AInv, IInv, QuietInv, InScan, WriteRun
<1>2. PICK p \in towrite, q \in towrite :
        disk' = {b \in Bits : b \in (IF Page(b) \in p..q THEN free ELSE disk)}
  BY DEF WriteRun
<1> DEFINE S == {b \in Blocks : Page(b) \in p..q}
<1>3. disk' \cap Blocks = ((disk \cap Blocks) \ S) \cup (Mem \cap S)
  BY <1>1, <1>2, Geometry DEF Mem, TypeOK
<1>4. UNCHANGED <<free, found, answer>>
  BY DEF WriteRun, scan
<1>5. Allocator!Persist(S)
  BY <1>1, <1>3, <1>4 DEF Allocator!Persist, Allocator!None, NoAnswer, Answer, Mem
<1>6. S \in SUBSET Blocks
  OBVIOUS
<1> QED BY <1>5, <1>6 DEF Allocator!Next

(* Every step of the bitmap is a step of the allocator or not seen by it.  *)
LEMMA StepRefines == ASSUME AInv, [Next]_vars PROVE [Allocator!Next]_Allocator!vars
<1>1. IInv /\ QuietInv
  BY DEF AInv
<1>2. ASSUME NEW n \in 1..MaxCount, NEW loop \in {"alloc", "runs"}, Call(n, loop)
      PROVE  Allocator!Next
  BY <1>2, CallRefines
<1>3. CASE GrabPage \/ GrabWord \/ TakeBlock
  <2>1. PICK n \in Nat \ {0} :
          /\ Take(At, n) /\ At .. At+n-1 \subseteq free \cap Blocks
          /\ UNCHANGED <<disk, answer>>
    BY <1>1, <1>3, Taken
  <2>2. free' \cup found' = free \cup found
    BY <2>1 DEF Take
  <2> QED BY <2>1, <2>2, Unseen DEF Mem
<1>4. CASE SkipWord \/ PassBlock
  <2>1. UNCHANGED <<free, found, disk, answer>>
    BY <1>1, <1>4, PassedBy
  <2> QED BY <2>1, Unseen DEF Mem
<1>5. CASE Return
  BY <1>5, ReturnRefines
<1>6. ASSUME NEW S \in SUBSET Blocks, Free(S) PROVE Allocator!Next
  <2>1. /\ found = {} /\ UNCHANGED <<found, disk>>
        /\ free' = free \cup S /\ answer' = NoAnswer
    BY <1>1, <1>6 DEF Free, scan, QuietInv, InScan
  <2>2. Allocator!Release(S)
    BY <2>1 DEF Allocator!Release, Allocator!None, NoAnswer, Answer
  <2> QED BY <2>2 DEF Allocator!Next
<1>7. CASE Flush
  BY <1>7, Cleared DEF Flush, scan, Mem
<1>8. CASE WriteRun
  BY <1>8, WriteRunRefines
<1>9. CASE FlushDone \/ WriteError
  BY <1>9, Unseen DEF FlushDone, WriteError, scan, Mem
<1>10. CASE Remount
  <2>1. /\ free' = disk /\ found' = {} /\ answer' = NoAnswer /\ UNCHANGED disk
    BY <1>10 DEF Remount, Forget
  <2>2. Allocator!Remount
    BY <2>1 DEF Allocator!Remount, Allocator!None, NoAnswer, Answer
  <2> QED BY <2>2 DEF Allocator!Next
<1>11. CASE UNCHANGED vars
  BY <1>11, Unseen DEF vars, scan, Mem
<1> QED BY <1>2, <1>3, <1>4, <1>5, <1>6, <1>7, <1>8, <1>9, <1>10, <1>11 DEF Next

(* Bitmap implements the allocator of BlockAllocator: blocks handed out    *)
(* were free and change hands once, a request is refused only for want of  *)
(* blocks, and a crash brings back what was flushed.                       *)
THEOREM BitmapImplementsAllocator == Spec => ImplementsAllocator
<1>1. Init => Allocator!Init
  BY RefinesInit
<1>2. AInv /\ [Next]_vars => [Allocator!Next]_Allocator!vars
  BY StepRefines
<1> QED BY <1>1, <1>2, AllocatorInvariant, PTL
        DEF Spec, ImplementsAllocator, Allocator!Spec

-----------------------------------------------------------------------------
(* Next fit *)

\* The blocks behind a walk that is at b, and those behind this one.
BehindAt(w, b) == IF w THEN (start .. Total-1) \cup (Reserved .. b-1) ELSE start .. b-1
Behind == BehindAt(wrapped, blk)

\* Where the last run that is closed ends.
LastEnd == Closed[Len(Closed)][1] + Closed[Len(Closed)][2]

(* What a scan has taken is behind it, and after a wrap it stays before its *)
(* start.                                                                  *)
FitInv ==
  InScan =>
    /\ found \subseteq Behind
    /\ wrapped => blk <= start

(* The runs name what was taken, and the last closed one ends behind the   *)
(* walk or at the end of the volume.                                       *)
RunsInv ==
  InScan =>
    /\ RunsName(Closed, found)
    /\ Closed # <<>> /\ open[2] = 0 => LastEnd = Total \/ LastEnd \in Behind

(* A wrap leaves nothing behind that was not behind before but blocks in   *)
(* use.                                                                    *)
LEMMA AtBehind ==
  ASSUME IInv, FitInv, Scanning
  PROVE  /\ Behind \subseteq BehindAt(Wrapping, At)
         /\ BehindAt(Wrapping, At) \cap free = {}
         /\ Wrapping => At <= start
<1> USE GeometryAssumption
<1>1. /\ At \in Blocks /\ Wrapping \in BOOLEAN
      /\ IF Wrapping THEN /\ (start .. Total-1) \cap free = {}
                          /\ (Reserved .. At-1) \cap free = {}
                     ELSE start <= At /\ (start .. At-1) \cap free = {}
  BY WalkAt
<1>2. TypeOK /\ InScan
  BY DEF IInv, Scanning, InScan
<1>3. /\ wrapped \in BOOLEAN /\ blk \in Nat /\ Reserved <= blk /\ blk <= Total
      /\ start \in Nat /\ Reserved <= start /\ start < Total
  BY <1>2, SMT DEF TypeOK, Blocks
<1>4. BehindAt(Wrapping, At) \cap free = {}
  BY <1>1 DEF BehindAt
<1>5. Behind \subseteq BehindAt(Wrapping, At) /\ (Wrapping => At <= start)
  <2>1. wrapped => blk <= start
    BY <1>2 DEF FitInv
  <2>2. CASE blk >= Total
    <3>1. blk = Total /\ ~wrapped /\ Wrapping /\ At = Reserved
      BY <1>3, <2>1, <2>2, SMT DEF Wrapping, At
    <3> QED BY <1>3, <3>1 DEF Behind, BehindAt
  <2>3. CASE ~(blk >= Total)
    <3>1. At = blk /\ Wrapping = wrapped
      BY <1>3, <2>3 DEF Wrapping, At
    <3> QED BY <2>1, <3>1 DEF Behind
  <2> QED BY <2>2, <2>3
<1> QED BY <1>4, <1>5

(* The walk moves n blocks on.                                             *)
LEMMA Advance ==
  ASSUME IInv, FitInv, Scanning, NEW n \in Nat \ {0},
         blk' = At + n, wrapped' = Wrapping, start' = start, At + n <= Total
  PROVE  Behind' = BehindAt(Wrapping, At) \cup (At .. At+n-1)
<1> USE GeometryAssumption
<1>1. /\ At \in Blocks /\ Wrapping \in BOOLEAN
      /\ ~Wrapping => start <= At
  BY WalkAt
<1>2. TypeOK
  BY DEF IInv
<1>3. At \in Nat /\ Reserved <= At /\ start \in Nat
  BY <1>1, <1>2, SMT DEF TypeOK, Blocks
<1>6. Behind' = IF Wrapping THEN (start .. Total-1) \cup (Reserved .. blk'-1)
                ELSE start .. blk'-1
  BY DEF Behind, BehindAt
<1>7. blk'-1 = At+n-1
  BY <1>3
<1>4. CASE Wrapping
  <2>1. Behind' = (start .. Total-1) \cup (Reserved .. At+n-1)
    BY <1>4, <1>6, <1>7
  <2>2. Reserved .. At+n-1 = (Reserved .. At-1) \cup (At .. At+n-1)
    BY <1>3, SMT
  <2> QED BY <1>4, <2>1, <2>2 DEF BehindAt
<1>5. CASE ~Wrapping
  <2>1. Behind' = start .. At+n-1
    BY <1>5, <1>6, <1>7
  <2>2. start .. At+n-1 = (start .. At-1) \cup (At .. At+n-1)
    BY <1>1, <1>3, <1>5, SMT
  <2> QED BY <1>5, <2>1, <2>2 DEF BehindAt
<1> QED BY <1>1, <1>4, <1>5

(* A run that does not touch the last one becomes a run of its own.        *)
LEMMA AppendRun ==
  ASSUME NEW rs \in Seq(Nat \X Nat), NEW S, RunsName(rs, S),
         NEW b \in Nat, NEW n \in Nat \ {0}, (b .. b+n-1) \cap S = {},
         rs # <<>> => rs[Len(rs)][1] + rs[Len(rs)][2] # b
  PROVE  RunsName(Append(rs, <<b, n>>), S \cup (b .. b+n-1))
<1> DEFINE new == Append(rs, <<b, n>>)
           k == Len(rs)
<1>1. /\ k \in Nat /\ DOMAIN rs = 1..k /\ DOMAIN new = 1..k+1
      /\ \A i \in 1..k : new[i] = rs[i]
      /\ new[k+1] = <<b, n>> /\ (k = 0 <=> rs = <<>>)
  OBVIOUS
<1> HIDE DEF new, k
<1>2. /\ \A i \in 1..k : RunBlocks(new[i]) = RunBlocks(rs[i])
      /\ RunBlocks(new[k+1]) = b .. b+n-1
  BY <1>1 DEF RunBlocks
<1>3. /\ \A i \in 1..k : RunBlocks(rs[i]) \subseteq S
      /\ S = UNION {RunBlocks(rs[i]) : i \in 1..k}
      /\ \A i, j \in 1..k : i # j => RunBlocks(rs[i]) \cap RunBlocks(rs[j]) = {}
      /\ \A i \in 1..k : i > 1 => rs[i-1][1] + rs[i-1][2] # rs[i][1]
  BY <1>1 DEF RunsName
<1>4. \A i \in 1..k+1 : i \in 1..k \/ i = k+1
  BY <1>1
<1>5. S \cup (b .. b+n-1) = UNION {RunBlocks(new[i]) : i \in 1..k+1}
  <2>1. ASSUME NEW x \in S PROVE \E i \in 1..k+1 : x \in RunBlocks(new[i])
    <3>1. PICK i \in 1..k : x \in RunBlocks(rs[i])
      BY <1>3, <2>1
    <3>2. i \in 1..k+1
      BY <1>1, <3>1
    <3> QED BY <1>2, <3>1, <3>2
  <2>2. ASSUME NEW x \in b .. b+n-1 PROVE \E i \in 1..k+1 : x \in RunBlocks(new[i])
    <3>1. k+1 \in 1..k+1
      BY <1>1
    <3> QED BY <1>2, <2>2, <3>1
  <2>3. ASSUME NEW i \in 1..k+1 PROVE RunBlocks(new[i]) \subseteq S \cup (b .. b+n-1)
    BY <1>2, <1>3, <1>4, <2>3
  <2> QED BY <2>1, <2>2, <2>3
<1>6. \A i, j \in 1..k+1 : i # j => RunBlocks(new[i]) \cap RunBlocks(new[j]) = {}
  BY <1>2, <1>3, <1>4
<1>7. ASSUME NEW i \in 1..k+1, i > 1 PROVE new[i-1][1] + new[i-1][2] # new[i][1]
  <2>1. i-1 \in 1..k
    BY <1>1, <1>7
  <2>2. CASE i \in 1..k
    BY <1>1, <1>3, <1>7, <2>1, <2>2
  <2>3. CASE i = k+1
    <3>1. rs # <<>> /\ i-1 = k
      BY <1>1, <1>7, <2>3
    <3>2. new[i-1] = rs[k] /\ new[i][1] = b
      BY <1>1, <2>1, <2>3, <3>1
    <3> QED BY <3>1, <3>2 DEF k
  <2> QED BY <1>4, <2>2, <2>3
<1> QED BY <1>1, <1>5, <1>6, <1>7 DEF RunsName, new

(* One that does makes it longer.                                          *)
LEMMA GrowRun ==
  ASSUME NEW rs \in Seq(Nat \X Nat), NEW o \in Nat \X Nat, o[2] > 0,
         NEW S, RunsName(Append(rs, o), S),
         NEW n \in Nat \ {0}, NEW b \in Nat, b = o[1] + o[2], (b .. b+n-1) \cap S = {}
  PROVE  RunsName(Append(rs, <<o[1], o[2] + n>>), S \cup (b .. b+n-1))
<1> DEFINE k == Len(rs) + 1
           old == Append(rs, o)
           new == Append(rs, <<o[1], o[2] + n>>)
<1>1. /\ k \in Nat \ {0} /\ DOMAIN old = 1..k /\ DOMAIN new = 1..k
      /\ \A i \in 1..k-1 : new[i] = rs[i] /\ old[i] = rs[i]
      /\ new[k] = <<o[1], o[2] + n>> /\ old[k] = o
  OBVIOUS
<1> HIDE DEF old, new, k
<1>2. RunsName(old, S)
  BY DEF old
<1>3. RunBlocks(new[k]) = RunBlocks(old[k]) \cup (b .. b+n-1)
  <2>1. o[1] \in Nat /\ o[2] \in Nat
    OBVIOUS
  <2>2. RunBlocks(new[k]) = o[1] .. o[1] + (o[2] + n) - 1 /\ RunBlocks(old[k]) = o[1] .. o[1] + o[2] - 1
    BY <1>1 DEF RunBlocks
  <2> QED BY SMTT(40), <2>1, <2>2
<1>9. \A i \in 1..k : i # k => i \in 1..k-1
  BY <1>1, SMT
<1>4. \A i \in 1..k : i # k => RunBlocks(new[i]) = RunBlocks(old[i])
  BY <1>1, <1>9, Zenon
<1>5. /\ S = UNION {RunBlocks(old[i]) : i \in 1..k}
      /\ \A i \in 1..k : RunBlocks(old[i]) \subseteq S
      /\ \A i, j \in 1..k : i # j => RunBlocks(old[i]) \cap RunBlocks(old[j]) = {}
      /\ \A i \in 1..k : i > 1 => old[i-1][1] + old[i-1][2] # old[i][1]
  <2>1. DOMAIN old = 1..k
    BY <1>1
  <2>2. /\ S = UNION {RunBlocks(old[i]) : i \in 1..k}
        /\ \A i, j \in 1..k : i # j => RunBlocks(old[i]) \cap RunBlocks(old[j]) = {}
        /\ \A i \in 1..k : i > 1 => old[i-1][1] + old[i-1][2] # old[i][1]
    BY <1>2, <2>1, Zenon DEF RunsName
  <2>3. \A i \in 1..k : RunBlocks(old[i]) \subseteq S
    BY <2>2, Zenon
  <2> QED BY <2>2, <2>3, Zenon
<1>6. S \cup (b .. b+n-1) = UNION {RunBlocks(new[i]) : i \in 1..k}
  <2>1. ASSUME NEW x \in S PROVE \E i \in 1..k : x \in RunBlocks(new[i])
    <3>1. PICK i \in 1..k : x \in RunBlocks(old[i])
      <4>1. x \in UNION {RunBlocks(old[i]) : i \in 1..k}
        BY <1>5, <2>1, Zenon
      <4> QED BY <4>1
    <3>2. x \in RunBlocks(new[i])
      BY <1>3, <1>4, <3>1, Zenon
    <3> QED BY <3>2, Zenon
  <2>2. ASSUME NEW x \in b .. b+n-1 PROVE \E i \in 1..k : x \in RunBlocks(new[i])
    <3>1. k \in 1..k
      BY <1>1
    <3> QED BY <1>3, <3>1
  <2>3. ASSUME NEW i \in 1..k PROVE RunBlocks(new[i]) \subseteq S \cup (b .. b+n-1)
    BY <1>3, <1>4, <1>5
  <2>4. \A x \in S \cup (b .. b+n-1) : \E i \in 1..k : x \in RunBlocks(new[i])
    BY <2>1, <2>2, Zenon
  <2>5. \A x : (\E i \in 1..k : x \in RunBlocks(new[i])) => x \in S \cup (b .. b+n-1)
    BY <2>3, Zenon
  <2> QED BY ZenonT(40), <2>4, <2>5
<1>7. \A i, j \in 1..k : i # j => RunBlocks(new[i]) \cap RunBlocks(new[j]) = {}
  BY <1>3, <1>4, <1>5
<1>8. ASSUME NEW i \in 1..k, i > 1 PROVE new[i-1][1] + new[i-1][2] # new[i][1]
  <2>1. i-1 \in 1..k-1 /\ new[i-1] = old[i-1] /\ new[i][1] = old[i][1]
    BY <1>1, <1>8
  <2> QED BY <1>5, <1>8, <2>1
<1>10. DOMAIN new = 1..k
  BY <1>1
<1> HIDE DEF new
<1>11. RunsName(new, S \cup (b .. b+n-1))
  BY <1>6, <1>7, <1>8, <1>10, Zenon DEF RunsName
<1> QED BY <1>11, Zenon DEF new

(* An iteration that takes blocks names them in the open run or a new one. *)
LEMMA TakenFit ==
  ASSUME IInv, FitInv, RunsInv, GrabPage \/ GrabWord \/ TakeBlock
  PROVE  FitInv' /\ RunsInv'
<1> USE GeometryAssumption
<1>1. TypeOK /\ RequestInv /\ Scanning
  BY DEF IInv, GrabPage, GrabWord, TakeBlock, BitByBit
<1>2. PICK n \in Nat \ {0} :
        /\ Take(At, n) /\ wrapped' = Wrapping
        /\ At .. At+n-1 \subseteq free \cap Blocks
        /\ InScan /\ UNCHANGED <<pc, start>>
  BY Taken
<1>3. /\ At \in Nat /\ At \in At .. At+n-1 /\ At + n <= Total /\ At < Total
      /\ start \in Nat /\ start < Total
  <2>1. At \in Blocks
    BY <1>1, WalkAt
  <2>2. At \in Nat /\ At+n-1 \in At .. At+n-1
    BY <2>1 DEF Blocks
  <2>3. At+n-1 \in Blocks
    BY <1>2, <2>2
  <2>4. start \in Blocks
    BY <1>1 DEF TypeOK
  <2> QED BY <2>1, <2>2, <2>3, <2>4, SMT DEF Blocks
<1>4. /\ Behind \subseteq BehindAt(Wrapping, At)
      /\ BehindAt(Wrapping, At) \cap free = {}
      /\ Wrapping => At <= start
  BY <1>1, AtBehind
<1>5. /\ found' = found \cup (At .. At+n-1) /\ blk' = At + n /\ Extend(At, n)
      /\ found \cap free = {}
  BY <1>1, <1>2 DEF Take, RequestInv, InScan
<1>6. Behind' = BehindAt(Wrapping, At) \cup (At .. At+n-1)
  BY <1>1, <1>2, <1>3, <1>5, Advance
<1>7. FitInv'
  <2>1. found' \subseteq Behind'
    BY <1>2, <1>4, <1>5, <1>6 DEF FitInv
  <2>2. ASSUME Wrapping PROVE At + n <= start
    <3>1. SUFFICES ASSUME start < At + n PROVE FALSE
      BY <1>3
    <3>2. start \in At .. At+n-1
      BY <1>3, <1>4, <2>2, <3>1
    <3>3. start \in BehindAt(Wrapping, At)
      BY <1>3, <2>2 DEF BehindAt
    <3> QED BY <1>2, <1>4, <3>2, <3>3
  <2> QED BY <1>2, <1>5, <2>1, <2>2 DEF FitInv
<1>8. RunsInv'
  <2>1. runs \in Seq(Nat \X Nat) /\ open \in Nat \X Nat
    BY <1>1 DEF TypeOK
  <2>2. Closed \in Seq(Nat \X Nat)
    BY <2>1 DEF Closed
  <2>3. (At .. At+n-1) \cap found = {} /\ RunsName(Closed, found)
    BY <1>2, <1>5 DEF RunsInv
  <2>4. CASE open[2] > 0 /\ open[1] + open[2] = At
    <3>1. /\ Closed = Append(runs, open)
          /\ open' = <<open[1], open[2] + n>> /\ runs' = runs
      BY <1>5, <2>4 DEF Closed, Extend
    <3>2. open'[2] > 0 /\ Closed' = Append(runs, <<open[1], open[2] + n>>)
      BY <2>1, <3>1 DEF Closed
    <3>3. RunsName(Append(runs, open), found)
      BY <2>3, <3>1
    <3>4. RunsName(Append(runs, <<open[1], open[2] + n>>), found \cup (At .. At+n-1))
      BY <1>3, <2>1, <2>3, <2>4, <3>3, GrowRun
    <3> QED BY <1>5, <3>2, <3>4 DEF RunsInv
  <2>5. CASE ~(open[2] > 0 /\ open[1] + open[2] = At)
    <3>1. open' = <<At, n>> /\ runs' = Closed
      BY <1>5, <2>5 DEF Extend
    <3>2. open'[2] > 0 /\ Closed' = Append(Closed, <<At, n>>)
      BY <3>1 DEF Closed
    <3>3. ASSUME Closed # <<>> PROVE LastEnd # At
      <4>1. CASE open[2] > 0
        <5>1. LastEnd = open[1] + open[2]
          BY <2>1, <4>1 DEF LastEnd, Closed
        <5> QED BY <2>5, <4>1, <5>1
      <4>2. CASE open[2] = 0
        <5>1. LastEnd = Total \/ LastEnd \in Behind
          BY <1>2, <3>3, <4>2 DEF RunsInv
        <5>2. At \notin Behind
          BY <1>2, <1>3, <1>4
        <5> QED BY <1>3, <5>1, <5>2
      <4> QED BY <2>1, <4>1, <4>2
    <3>4. RunsName(Append(Closed, <<At, n>>), found \cup (At .. At+n-1))
      BY <1>3, <2>2, <2>3, <3>3, AppendRun DEF LastEnd
    <3> QED BY <1>5, <3>2, <3>4 DEF RunsInv
  <2> QED BY <2>4, <2>5
<1> QED BY <1>7, <1>8

(* One that passes blocks closes the open run.                             *)
LEMMA PassedFit ==
  ASSUME IInv, FitInv, RunsInv, SkipWord \/ PassBlock
  PROVE  FitInv' /\ RunsInv'
<1> USE GeometryAssumption
<1>1. TypeOK /\ RequestInv /\ Scanning
  BY DEF IInv, SkipWord, PassBlock, BitByBit
<1>2. PICK n \in Nat \ {0} :
        /\ blk' = At + n /\ wrapped' = Wrapping
        /\ At .. At+n-1 \subseteq Blocks
        /\ Wrapping => At + n <= start
        /\ Close /\ InScan
        /\ UNCHANGED <<found, pc, start>>
  BY PassedBy
<1>3. At \in Nat /\ At + n <= Total /\ At \in At .. At+n-1
  <2>1. At \in Blocks
    BY <1>1, WalkAt
  <2>2. At \in Nat /\ At+n-1 \in At .. At+n-1
    BY <2>1 DEF Blocks
  <2>3. At+n-1 \in Blocks
    BY <1>2, <2>2
  <2> QED BY <2>1, <2>2, <2>3, SMT DEF Blocks
<1>4. Behind \subseteq BehindAt(Wrapping, At)
  BY <1>1, AtBehind
<1>5. Behind' = BehindAt(Wrapping, At) \cup (At .. At+n-1)
  BY <1>1, <1>2, <1>3, Advance
<1>6. FitInv'
  BY <1>2, <1>4, <1>5 DEF FitInv
<1>7. RunsInv'
  <2>1. runs \in Seq(Nat \X Nat) /\ open \in Nat \X Nat
    BY <1>1 DEF TypeOK
  <2>2. runs' = Closed /\ open' = <<open[1], 0>> /\ Closed' = Closed /\ LastEnd' = LastEnd
    BY <1>2 DEF Close, Closed, LastEnd
  <2>3. RunsName(Closed', found')
    BY <1>2, <2>2 DEF RunsInv
  <2>4. ASSUME Closed # <<>> PROVE LastEnd = Total \/ LastEnd \in Behind'
    <3>1. CASE open[2] > 0
      <4>1. LastEnd = open[1] + open[2] /\ LastEnd - 1 \in RunBlocks(open)
        BY <2>1, <3>1 DEF LastEnd, Closed, RunBlocks
      <4>2. RunBlocks(open) \subseteq found
        <5>1. Closed = Append(runs, open)
          BY <3>1 DEF Closed
        <5>2. Len(runs) + 1 \in DOMAIN Closed /\ Closed[Len(runs) + 1] = open
          BY <2>1, <5>1
        <5> QED BY <1>2, <5>2 DEF RunsInv, RunsName
      <4>3. LastEnd - 1 \in Behind
        BY <1>2, <4>1, <4>2 DEF FitInv
      <4>4. /\ blk \in Nat /\ blk <= Total /\ start \in Nat /\ start < Total
            /\ Reserved <= blk /\ LastEnd \in Nat /\ (wrapped => blk <= start)
        BY <1>1, <1>2, <2>1, <4>1, SMT DEF TypeOK, FitInv, Blocks
      <4>5. LastEnd \in Behind \/ LastEnd = blk \/ LastEnd = Total
        BY <4>3, <4>4, SMT DEF Behind, BehindAt
      <4>6. ASSUME LastEnd = blk, blk # Total PROVE LastEnd = At
        BY <4>4, <4>6 DEF At
      <4> QED BY <1>3, <1>4, <1>5, <4>5, <4>6
    <3>2. CASE open[2] = 0
      BY <1>2, <1>4, <1>5, <2>4, <3>2 DEF RunsInv
    <3> QED BY <2>1, <3>1, <3>2
  <2> QED BY <2>2, <2>3, <2>4 DEF RunsInv
<1> QED BY <1>6, <1>7

(* No other step touches a scan that runs.                                 *)
LEMMA NextFits == ASSUME IInv, FitInv, RunsInv, [Next]_vars PROVE FitInv' /\ RunsInv'
<1>1. ASSUME NEW n \in 1..MaxCount, NEW loop \in {"alloc", "runs"}, Call(n, loop)
      PROVE  FitInv' /\ RunsInv'
  <2>1. CASE pc' = "idle"
    BY <2>1 DEF FitInv, RunsInv, InScan
  <2>2. CASE pc' # "idle"
    <3>1. found' = {} /\ runs' = <<>> /\ open' = <<0, 0>> /\ wrapped' = FALSE
      BY <1>1, <2>2 DEF Call
    <3>2. Closed' = <<>>
      BY <3>1 DEF Closed
    <3>3. RunsName(<<>>, {})
      BY DEF RunsName
    <3> QED BY <3>1, <3>2, <3>3 DEF FitInv, RunsInv
  <2> QED BY <2>1, <2>2
<1>2. CASE GrabPage \/ GrabWord \/ TakeBlock
  BY <1>2, TakenFit
<1>3. CASE SkipWord \/ PassBlock
  BY <1>3, PassedFit
<1>4. ASSUME ~InScan' PROVE FitInv' /\ RunsInv'
  BY <1>4 DEF FitInv, RunsInv
<1>5. CASE Return \/ Flush \/ WriteRun \/ FlushDone \/ WriteError \/ Remount
  <2>1. pc' \in {"idle", "flush"}
    BY <1>5 DEF Return, Flush, WriteRun, FlushDone, WriteError, Remount
  <2> QED BY <1>4, <2>1 DEF InScan
<1>6. ASSUME NEW S \in SUBSET Blocks, Free(S) PROVE FitInv' /\ RunsInv'
  <2>1. pc' = "idle"
    BY <1>6 DEF Free
  <2> QED BY <1>4, <2>1 DEF InScan
<1>7. CASE UNCHANGED vars
  BY <1>7 DEF vars, scan, FitInv, RunsInv, InScan, Behind, BehindAt, Closed, LastEnd
<1> QED BY <1>1, <1>2, <1>3, <1>5, <1>6, <1>7 DEF Next

(* The invariants of the walk hold of the bitmap.                          *)
LEMMA WalkInvariant == Spec => [](IInv /\ FitInv /\ RunsInv)
<1>1. Init => FitInv /\ RunsInv
  BY DEF Init, FitInv, RunsInv, InScan
<1>2. IInv /\ FitInv /\ RunsInv /\ [Next]_vars => (IInv /\ FitInv /\ RunsInv)'
  BY NextInv, NextFits
<1> QED BY <1>1, <1>2, InitInv, PTL DEF Spec

(* alloc() and alloc_runs() return the first free blocks of the cyclic     *)
(* walk from the cursor, as a scan bit by bit would, and the runs name     *)
(* each of them once.                                                      *)
THEOREM AlwaysNextFit == Spec => []TakesNextFit
<1> USE GeometryAssumption
<1>1. ASSUME IInv, FitInv, RunsInv, InScan, Got = want
      PROVE  found = NextFit(free \cup found, start, want)
  <2> DEFINE map == free \cup found
             Ahead(b) == Before(start, b) \cap map
  <2>1. /\ TypeOK /\ Behind \cap free = {} /\ found \subseteq Behind
        /\ wrapped => blk <= start
    BY <1>1 DEF IInv, WalkInv, InScan, FitInv, Behind, BehindAt
  <2>2. /\ blk \in Nat /\ Reserved <= blk /\ blk <= Total /\ wrapped \in BOOLEAN
        /\ start \in Nat /\ Reserved <= start /\ start < Total
        /\ found \subseteq Blocks
        /\ ~wrapped => start <= blk
    BY <1>1, <2>1, SMT DEF TypeOK, Blocks, IInv, WalkInv, InScan
  <2>3. IsFiniteSet(found) /\ Cardinality(found) = want /\ want \in Nat
    <3>1. IsFiniteSet(found)
      BY <2>2, Geometry, FS_Subset
    <3>2. Cardinality(found) = want
      BY <1>1 DEF Got
    <3> QED BY <3>1, <3>2, FS_CardinalityType
  <2>4. ASSUME NEW b \in found PROVE Cardinality(Ahead(b)) < want
    <3>1. b \in Behind /\ b \in Nat /\ Reserved <= b /\ b < Total
      BY <2>1, <2>2, <2>4, SMT DEF Blocks
    <3>2. Before(start, b) \subseteq Behind /\ b \notin Before(start, b)
      BY <2>2, <3>1, SMT DEF Before, Behind, BehindAt
    <3>3. Ahead(b) \subseteq found \ {b}
      BY <2>1, <3>2
    <3>4. IsFiniteSet(found \ {b}) /\ Cardinality(found \ {b}) = want - 1
      BY <2>3, <2>4, FS_RemoveElement
    <3>5. Cardinality(Ahead(b)) <= want - 1 /\ Cardinality(Ahead(b)) \in Nat
      BY <3>3, <3>4, FS_Subset, FS_CardinalityType
    <3> QED BY <2>3, <3>5
  <2>5. ASSUME NEW b \in Blocks \ found, b \in map PROVE Cardinality(Ahead(b)) >= want
    <3>1. b \notin Behind /\ b \in Nat /\ Reserved <= b /\ b < Total
      BY <2>1, <2>2, <2>5, SMT DEF Blocks
    <3>2. Behind \subseteq Before(start, b) /\ Before(start, b) \subseteq Blocks
      BY <2>2, <3>1, SMT DEF Before, Behind, BehindAt, Blocks
    <3>3. found \subseteq Ahead(b) /\ IsFiniteSet(Ahead(b))
      BY <2>1, <3>2, Geometry, FS_Subset
    <3>4. Cardinality(Ahead(b)) \in Nat /\ Cardinality(found) <= Cardinality(Ahead(b))
      BY <3>3, FS_Subset, FS_CardinalityType
    <3> QED BY <2>3, <3>4
  <2>6. \A b \in map \cap Blocks : Cardinality(Ahead(b)) < want <=> b \in found
    <3>1. SUFFICES ASSUME NEW b \in Blocks, b \in map, b \notin found,
                          Cardinality(Ahead(b)) < want
                   PROVE  FALSE
      BY <2>4
    <3>2. Cardinality(Ahead(b)) >= want /\ Cardinality(Ahead(b)) \in Nat
      <4>1. IsFiniteSet(Ahead(b))
        <5>1. b \in Nat /\ Reserved <= b /\ b < Total
          BY SMT DEF Blocks
        <5>2. Before(start, b) \subseteq Blocks
          BY <2>2, <5>1, SMT DEF Before, Blocks
        <5> QED BY <5>2, Geometry, FS_Subset
      <4> QED BY <2>5, <3>1, <4>1, FS_CardinalityType
    <3> QED BY <2>3, <3>1, <3>2
  <2> QED BY <2>2, <2>6 DEF NextFit
<1>2. IInv /\ FitInv /\ RunsInv => TakesNextFit
  BY <1>1 DEF TakesNextFit, RunsInv, InScan
<1> QED BY WalkInvariant, <1>2, PTL
=============================================================================
