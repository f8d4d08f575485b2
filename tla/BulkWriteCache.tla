--------------------------- MODULE BulkWriteCache ---------------------------
(***************************************************************************)
(* The write-back cache for bulk imports, class BulkWriteCache of          *)
(* blkdev.py.  Small writes are kept block by block, large ones whole, in  *)
(* a list sorted by their first block; a flush writes all of them sorted   *)
(* by first block.                                                         *)
(*                                                                         *)
(* The base device is written one kept item at a time: merging neighbours  *)
(* into larger writes changes neither their order nor their contents, and  *)
(* a large write may tear anywhere.                                        *)
(***************************************************************************)
EXTENDS Integers, FiniteSets, Sequences, SequencesExt

CONSTANTS NBlocks, Values,
          SmallMax,      \* 8: the largest write kept block by block
          ServedMax,     \* 256: the largest read served from the cache
          Threshold      \* flush_threshold, in blocks

ASSUME CacheAssumption ==
  /\ NBlocks \in Nat \ {0}
  /\ SmallMax \in Nat /\ ServedMax \in Nat /\ Threshold \in Nat \ {0}

Blocks == 0..NBlocks-1
Covers(lba, n) == lba .. lba + n - 1

VARIABLES
  base,      \* the device below
  small,     \* _small: block -> value
  big,       \* _big: <<[start, data], ...>>
  pending,   \* _pending
  out,       \* flush_cache: the items it has still to write
  doing,     \* the call that flush_cache runs in
  answer

vars == <<base, small, big, pending, out, doing, answer>>

Idle == [op |-> "idle", lba |-> 0, n |-> 0]
Answer(op, lba, data) == [op |-> op, lba |-> lba, data |-> data]
NoAnswer == Answer("none", 0, <<>>)
Nothing == [b \in {} |-> b]

Init == /\ base \in [Blocks -> Values]
        /\ small = Nothing /\ big = <<>> /\ pending = 0
        /\ out = {} /\ doing = Idle /\ answer = NoAnswer

Item(lba, data) == [start |-> lba, data |-> data]
Within(s) == Covers(s.start, Len(s.data))
At(s, b) == s.data[b - s.start + 1]
StartsUpTo(b) == Cardinality({i \in DOMAIN big : big[i].start <= b})   \* bisect_right

\* What read finds for a block: only the last large item that starts at or
\* before it is looked at.
Lookup(b) ==
  LET i == StartsUpTo(b)
  IN  IF b \in DOMAIN small THEN small[b]
      ELSE IF i > 0 /\ b \in Within(big[i]) THEN At(big[i], b)
      ELSE base[b]

\* Everything kept.  Small ones come first in the list that is sorted.
Items(sm, bg) ==
  {[start |-> b, data |-> <<sm[b]>>, rank |-> 0] : b \in DOMAIN sm}
    \cup {[start |-> bg[i].start, data |-> bg[i].data, rank |-> i] : i \in DOMAIN bg}

\* The sort by first block is stable.
Earlier(item, other) ==
  \/ item.start < other.start
  \/ item.start = other.start /\ item.rank < other.rank

KeepSmall(lba, data) ==
  /\ small' = [b \in DOMAIN small \cup Covers(lba, Len(data)) |->
                 IF b \in Covers(lba, Len(data)) THEN data[b - lba + 1] ELSE small[b]]
  /\ UNCHANGED big

KeepBigOverSmall(lba, data) ==      \* mutant: the blocks it covers stay in _small
  /\ big' = InsertAt(big, StartsUpTo(lba) + 1, Item(lba, data))
  /\ UNCHANGED small
KeepBig(lba, data) ==
  /\ big' = InsertAt(big, StartsUpTo(lba) + 1, Item(lba, data))
  /\ small' = [b \in DOMAIN small \ Covers(lba, Len(data)) |-> small[b]]

\* The cache has reached its size: the write does not return before a flush.
FullLate(n) == pending >= Threshold      \* mutant: tested before the write is counted
Full(n) == pending + n >= Threshold

Write(lba, data) ==
  /\ doing = Idle
  /\ IF Len(data) <= SmallMax THEN KeepSmall(lba, data) ELSE KeepBig(lba, data)
  /\ pending' = pending + Len(data)
  /\ IF Full(Len(data))
       THEN /\ out' = Items(small', big')
            /\ doing' = [op |-> "write", lba |-> lba, n |-> Len(data)]
       ELSE UNCHANGED <<out, doing>>
  /\ answer' = Answer("write", lba, data)
  /\ UNCHANGED base

Kept == DOMAIN small # {} \/ big # <<>>

\* A read that the cache and the base answer together.
ReadServed(lba, n) ==
  /\ doing = Idle
  /\ n <= ServedMax \/ ~Kept
  /\ answer' = Answer("read", lba, [i \in 1..n |-> Lookup(lba + i - 1)])
  /\ UNCHANGED <<base, small, big, pending, out, doing>>

StartFlush(op, lba, n) ==
  /\ doing = Idle
  /\ out' = Items(small, big)
  /\ doing' = [op |-> op, lba |-> lba, n |-> n]
  /\ UNCHANGED <<base, small, big, pending, answer>>

\* A longer read, and read_into and pread_into at any length, flush first.
ReadThrough(lba, n) == Kept /\ StartFlush("read", lba, n)
Flush == StartFlush("flush", 0, 0)

WriteItem == \E item \in out :
  /\ \A other \in out \ {item} : Earlier(item, other)
  /\ base' = [b \in Blocks |-> IF b \in Within(item) THEN At(item, b) ELSE base[b]]
  /\ out' = out \ {item}
  /\ UNCHANGED <<small, big, pending, doing, answer>>

EndFlush ==
  /\ doing # Idle /\ out = {}
  /\ small' = Nothing /\ big' = <<>> /\ pending' = 0 /\ doing' = Idle
  /\ \/ doing.op = "write" /\ UNCHANGED answer
     \/ doing.op = "read" /\ answer' = Answer("read", doing.lba,
                                     [i \in 1..doing.n |-> base[doing.lba + i - 1]])
     \/ doing.op = "flush" /\ answer' = Answer("flush", 0, <<>>)
  /\ UNCHANGED <<base, out>>

Crash ==
  /\ small' = Nothing /\ big' = <<>> /\ pending' = 0
  /\ out' = {} /\ doing' = Idle /\ answer' = NoAnswer
  /\ UNCHANGED base

Reading == \E lba \in Blocks : \E n \in 1..NBlocks-lba : ReadServed(lba, n) \/ ReadThrough(lba, n)
Flushing == Flush \/ WriteItem \/ EndFlush

Next == \/ \E lba \in Blocks : \E n \in 1..NBlocks-lba :
             \E data \in [1..n -> Values] : Write(lba, data)
        \/ Reading \/ Flushing \/ Crash
Spec == Init /\ [][Next]_vars

\* "the allocators hand out distinct blocks": no write meets a kept large item.
Distinct(lba, n) ==
  \A i \in DOMAIN big : Within(big[i]) \cap Covers(lba, n) = {}
DistinctNext ==
  \/ \E lba \in Blocks : \E n \in 1..NBlocks-lba :
       \E data \in [1..n -> Values] : Distinct(lba, n) /\ Write(lba, data)
  \/ Reading \/ Flushing \/ Crash
DistinctSpec == Init /\ [][DistinctNext]_vars
-----------------------------------------------------------------------------
\* The cache stays below its threshold between calls, keeps only whole items
\* of the disk, and has nothing left to write out when no call runs.
TypeOK ==
  /\ base \in [Blocks -> Values]
  /\ DOMAIN small \subseteq Blocks /\ \A b \in DOMAIN small : small[b] \in Values
  /\ \A i \in DOMAIN big : Within(big[i]) \subseteq Blocks /\ Len(big[i].data) > SmallMax
  /\ \A i, j \in DOMAIN big : i < j => big[i].start <= big[j].start
  /\ pending \in Nat
  /\ doing = Idle => pending < Threshold /\ out = {}

\* A reader never sees an older version of a block than the last one written,
\* a block that reaches the disk is the newest version of it, and flush()
\* returns only when all of them have (blkdev.py BulkWriteCache).
Device == INSTANCE BlockDevice WITH
  image <- [b \in Blocks |-> Lookup(b)], durable <- base
ImplementsDevice == Device!Spec
=============================================================================
