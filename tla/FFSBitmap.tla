----------------------------- MODULE FFSBitmap -----------------------------
(***************************************************************************)
(* The FFS allocation bitmap, class Bitmap of fs/ffs.py: one bit per       *)
(* block, set when the block is free, kept in 32-bit words and in pages    *)
(* (one bitmap block each).  alloc() and alloc_runs() scan from a roving   *)
(* cursor, wrap once, skip words with no free block and grab words (and,   *)
(* for runs, pages) that are wholly free in one step; flush() writes the   *)
(* dirty pages.  One iteration of either loop is one action, so that the   *)
(* shortcuts the loops take are steps the properties see.                  *)
(*                                                                         *)
(* WordBits and WordsPerPage stand for 32 and (bs-4)/4, AlignMin and       *)
(* AlignBlks for 4096 blocks and the blocks in 4 KB.                       *)
(***************************************************************************)
EXTENDS Integers, FiniteSets, Sequences

CONSTANTS Total,         \* vol.total: block numbers are 0..Total-1
          Reserved,      \* vol.reserved: the first block the bitmap covers
          WordBits, WordsPerPage,
          AlignMin, AlignBlks,
          MaxCount,      \* bound: the largest request modelled
          NoCount        \* "_free_count is None"

ASSUME GeometryAssumption ==
  /\ Total \in Nat /\ Reserved \in Nat \ {0} /\ Reserved < Total
  /\ WordBits \in Nat \ {0} /\ WordsPerPage \in Nat \ {0}
  /\ AlignMin \in Nat /\ AlignBlks \in Nat \ {0}
  /\ MaxCount \in Nat \ {0}
  /\ NoCount \notin Nat

PageBits == WordsPerPage * WordBits
NPages == (Total - Reserved + PageBits - 1) \div PageBits
Pages == 0 .. NPages - 1
Blocks == Reserved .. Total-1
\* The last page has bits past the end of the volume; a foreign formatter
\* may have left them set.
Bits == Reserved .. Reserved + NPages * PageBits - 1

Page(b) == (b - Reserved) \div PageBits
PageOf(p) == {b \in Bits : Page(b) = p}
Word(b) == b .. b + WordBits - 1
WholePage(b) == b .. b + PageBits - 1
RootBlk == (Reserved + Total - 1) \div 2

VARIABLES
  free,      \* the pages in memory: the bits that are set
  cached,    \* _free_count
  dirty,     \* pages changed since the last flush
  cursor,    \* _cursor
  disk,      \* the bits set in the bitmap blocks of the medium
  pc,        \* "idle", a loop "alloc" or "runs", or "flush"
  want, start, blk, wrapped,   \* the loop's variables
  found,     \* the blocks taken so far
  runs,      \* alloc_runs: the runs closed so far ...
  open,      \* ... and the run being extended, <<rs, rn>>
  towrite,   \* flush: dirty pages not written yet
  answer     \* the outcome of the last request

scan == <<want, start, blk, wrapped, found, runs, open>>
vars == <<free, cached, dirty, cursor, disk, pc, scan, towrite, answer>>

\* A request's locals before it starts and after it returns.
NoScan == /\ want = 0 /\ start = Reserved /\ blk = Reserved /\ wrapped = FALSE
          /\ found = {} /\ runs = <<>> /\ open = <<0, 0>>

Forget == /\ want' = 0 /\ start' = Reserved /\ blk' = Reserved /\ wrapped' = FALSE
          /\ found' = {} /\ runs' = <<>> /\ open' = <<0, 0>>

Answer(kind, n, S) == [kind |-> kind, asked |-> n, blocks |-> S]
NoAnswer == Answer("none", 0, {})

Init ==
  /\ disk \in SUBSET Bits
  /\ free = disk
  /\ cached = NoCount
  /\ dirty = {}
  /\ cursor = RootBlk + 1
  /\ pc = "idle"
  /\ NoScan
  /\ towrite = {}
  /\ answer = NoAnswer

CountFree == IF cached # NoCount THEN cached ELSE Cardinality(free \cap Blocks)

\* The fail-fast test.
RefusedAtLimit(n) == n >= CountFree   \* mutant
Refused(n) == n > CountFree

FromCursorUnchecked == cursor         \* mutant
FromCursor == IF cursor \in Blocks THEN cursor ELSE Reserved

\* Large runs start on a 4 KB boundary; the blocks skipped stay free.
Aligned(s, n) ==
  IF n >= AlignMin /\ AlignBlks > 1 /\ (s % AlignBlks) # 0
  THEN LET up == s + AlignBlks - (s % AlignBlks)
       IN  IF up >= Total THEN Reserved ELSE up
  ELSE s

(***************************************************************************)
(* alloc(count) and alloc_runs(count): the fail-fast test on the cached    *)
(* popcount, then the loop.                                                *)
(***************************************************************************)
Call(n, loop) ==
  /\ pc = "idle"
  /\ cached' = CountFree
  /\ IF Refused(n)
     THEN /\ answer' = Answer("refused", n, {})
          /\ UNCHANGED <<pc, scan>>
     ELSE /\ pc' = loop
          /\ want' = n
          /\ start' = IF loop = "runs" THEN Aligned(FromCursor, n) ELSE FromCursor
          /\ blk' = start'
          /\ wrapped' = FALSE
          /\ found' = {} /\ runs' = <<>> /\ open' = <<0, 0>>
          /\ answer' = NoAnswer
  /\ UNCHANGED <<free, dirty, cursor, disk, towrite>>

Got == Cardinality(found)
Scanning == pc \in {"alloc", "runs"} /\ Got < want

WordAligned == (blk - Reserved) % WordBits = 0 /\ blk + WordBits <= Total
PageAligned == (blk - Reserved) % PageBits = 0 /\ blk + PageBits <= Total

CanGrabPage == /\ pc = "runs"
               /\ PageAligned
               /\ Got + PageBits <= want
               /\ WholePage(blk) \subseteq free
CanSkipWord == WordAligned /\ Word(blk) \cap free = {}
CanGrabWord == /\ WordAligned
               /\ Got + WordBits <= want
               /\ Word(blk) \subseteq free

Closed == IF open[2] > 0 THEN Append(runs, open) ELSE runs

\* The run bookkeeping of alloc_runs for n blocks taken at b, and for none.
ExtendAcrossGap(b, n) ==              \* mutant
  IF open[2] > 0
  THEN open' = <<open[1], open[2] + n>> /\ UNCHANGED runs
  ELSE open' = <<b, n>> /\ runs' = Closed
Extend(b, n) ==
  IF open[2] > 0 /\ open[1] + open[2] = b
  THEN open' = <<open[1], open[2] + n>> /\ UNCHANGED runs
  ELSE open' = <<b, n>> /\ runs' = Closed
Close == runs' = Closed /\ open' = <<open[1], 0>>

\* The grabs adjust `_free_count` and the dirty set themselves, _set() does
\* it for single blocks; `_free_count` is not None inside a loop.
CountOnce(n) == cached - 1                               \* mutant
Recounted(n) == cached - n
MarkSingles(b, n) == IF n = 1 THEN dirty \cup {Page(b)} ELSE dirty  \* mutant
Marked(b, n) == dirty \cup {Page(b)}

\* n blocks from b leave the map.
Take(b, n) ==
  /\ free' = free \ (b .. b+n-1)
  /\ found' = found \cup (b .. b+n-1)
  /\ cached' = Recounted(n)
  /\ dirty' = Marked(b, n)
  /\ blk' = b + n
  /\ Extend(b, n)

GrabPage == /\ Scanning
            /\ CanGrabPage
            /\ Take(blk, PageBits)
            /\ UNCHANGED <<cursor, disk, pc, want, start, wrapped, towrite, answer>>

GrabWord == /\ Scanning
            /\ ~CanGrabPage
            /\ CanGrabWord
            /\ Take(blk, WordBits)
            /\ UNCHANGED <<cursor, disk, pc, want, start, wrapped, towrite, answer>>

\* No free block in the word.  Past the start after a wrap, the loop ends
\* with what it has.
SkipWord == /\ Scanning
            /\ ~CanGrabPage
            /\ CanSkipWord
            /\ blk' = blk + WordBits
            /\ pc' = IF wrapped /\ start <= blk' THEN "short" ELSE pc
            /\ Close
            /\ UNCHANGED <<free, cached, dirty, cursor, disk, want, start,
                           wrapped, found, towrite, answer>>

\* The rest of an iteration looks at one block, after the wrap if it is due.
BitByBit == Scanning /\ ~CanGrabPage /\ ~CanSkipWord /\ ~CanGrabWord
AtRestart == IF blk >= Total THEN start ELSE blk          \* mutant
At == IF blk >= Total THEN Reserved ELSE blk
Wrapping == wrapped \/ blk >= Total
BackAWordEarly == Wrapping /\ At + WordBits >= start   \* mutant
BackAtStart == Wrapping /\ At >= start

\* _set(blk, False) on a free block.  A wrap closes the open run first; no
\* run can end at Reserved, so extending never crosses it.
TakeBlock == /\ BitByBit
             /\ ~BackAtStart
             /\ At \in free
             /\ Take(At, 1)
             /\ wrapped' = Wrapping
             /\ UNCHANGED <<cursor, disk, pc, want, start, towrite, answer>>

\* A block in use is passed.  Back at the start, after a full circle without
\* enough blocks, what was taken is put back and the request fails.
PassBlock == /\ BitByBit
             /\ BackAtStart \/ At \notin free
             /\ pc' = IF BackAtStart THEN "short" ELSE pc
             /\ free' = IF BackAtStart THEN free \cup found ELSE free
             /\ cached' = IF BackAtStart THEN cached + Got ELSE cached
             /\ blk' = IF BackAtStart THEN At ELSE At + 1
             /\ wrapped' = Wrapping
             /\ Close
             /\ UNCHANGED <<dirty, cursor, disk, want, start, found, towrite,
                            answer>>

Return == /\ pc \in {"alloc", "runs"}
          /\ Got = want
          /\ pc' = "idle"
          /\ cursor' = blk
          /\ answer' = Answer("given", want, found)
          /\ Forget
          /\ UNCHANGED <<free, cached, dirty, disk, towrite>>

(***************************************************************************)
(* free(blks): blocks that are free already are left alone.                *)
(***************************************************************************)
Free(S) ==
  /\ pc = "idle"
  /\ free' = free \cup S
  /\ cached' = IF cached = NoCount THEN NoCount ELSE cached + Cardinality(S \ free)
  /\ dirty' = dirty \cup {Page(b) : b \in S \ free}
  /\ answer' = NoAnswer
  /\ UNCHANGED <<cursor, disk, pc, scan, towrite>>

(***************************************************************************)
(* flush(): dirty pages go out in runs of neighbours, lowest first.  The   *)
(* dirty set is cleared after the last one; a device error leaves it.      *)
(***************************************************************************)
Flush == /\ pc = "idle"
         /\ dirty # {}
         /\ pc' = "flush"
         /\ towrite' = dirty
         /\ answer' = NoAnswer
         /\ UNCHANGED <<free, cached, dirty, cursor, disk, scan>>

WriteRun ==
  /\ pc = "flush"
  /\ towrite # {}
  /\ \E p, q \in towrite :
       /\ \A r \in towrite : p <= r
       /\ p .. q \subseteq towrite
       /\ disk' = {b \in Bits : b \in (IF Page(b) \in p..q THEN free ELSE disk)}
       /\ towrite' = towrite \ (p..q)
  /\ UNCHANGED <<free, cached, dirty, cursor, pc, scan, answer>>

FlushDone == /\ pc = "flush"
             /\ towrite = {}
             /\ pc' = "idle"
             /\ dirty' = {}
             /\ UNCHANGED <<free, cached, cursor, disk, scan, towrite, answer>>

WriteError == /\ pc = "flush"
              /\ towrite # {}
              /\ pc' = "idle"
              /\ towrite' = {}
              /\ UNCHANGED <<free, cached, dirty, cursor, disk, scan, answer>>

\* The process dies and a new one mounts the volume: Bitmap.load().
Remount ==
  /\ free' = disk
  /\ cached' = NoCount
  /\ dirty' = {}
  /\ cursor' = RootBlk + 1
  /\ pc' = "idle"
  /\ towrite' = {}
  /\ answer' = NoAnswer
  /\ Forget
  /\ UNCHANGED disk

Next ==
  \/ \E n \in 1..MaxCount, loop \in {"alloc", "runs"} : Call(n, loop)
  \/ GrabPage \/ GrabWord \/ SkipWord \/ TakeBlock \/ PassBlock \/ Return
  \/ \E S \in SUBSET Blocks : Free(S)
  \/ Flush \/ WriteRun \/ FlushDone \/ WriteError
  \/ Remount

Spec == Init /\ [][Next]_vars

-----------------------------------------------------------------------------
TypeOK ==
  /\ free \in SUBSET Bits /\ disk \in SUBSET Bits
  /\ cached \in Nat \cup {NoCount}
  /\ dirty \in SUBSET Pages /\ towrite \in SUBSET dirty
  /\ cursor \in Nat
  /\ pc \in {"idle", "alloc", "runs", "short", "flush"}
  /\ want \in 0..MaxCount
  /\ start \in Blocks /\ blk \in Reserved..Total /\ wrapped \in BOOLEAN
  /\ found \in SUBSET Blocks
  /\ runs \in Seq(Nat \X Nat) /\ open \in Nat \X Nat
  /\ answer \in [kind : {"none", "given", "refused"}, asked : 0..MaxCount,
                 blocks : SUBSET Blocks]

(* _free_count is changed by _set() and, directly, by the word and page    *)
(* grabs of both loops; get_info(), the fail-fast test and therefore every *)
(* "disk full" rest on it.  It is the popcount of the in-memory map, in    *)
(* the middle of a scan too.                                               *)
CountExact == cached # NoCount => cached = Cardinality(free \cap Blocks)

(* Once the popcount test has let a request through, the scan finds its    *)
(* blocks: neither the early exit of the skip branch, which would return   *)
(* fewer blocks than were asked for, nor the roll-back is ever taken.      *)
NeverShort == pc # "short"

(* The blocks of the cyclic walk start, start+1, .., Total-1, Reserved, .. *)
(* before b, and the first n free ones of a map.                           *)
Before(s, b) == IF b >= s THEN s .. b-1 ELSE (s .. Total-1) \cup (Reserved .. b-1)
NextFit(map, s, n) ==
  {b \in map \cap Blocks : Cardinality(Before(s, b) \cap map) < n}

(* The grabs and skips are only shortcuts: a finished scan has taken the   *)
(* first `want` free blocks of the walk that starts at the cursor, and the *)
(* runs alloc_runs returns name each of them once, in runs as long as the  *)
(* walk allows.                                                            *)
RunBlocks(r) == r[1] .. r[1] + r[2] - 1
RunsName(rs, S) ==
  /\ S = UNION {RunBlocks(rs[i]) : i \in DOMAIN rs}
  /\ \A i, j \in DOMAIN rs : i # j => RunBlocks(rs[i]) \cap RunBlocks(rs[j]) = {}
  /\ \A i \in DOMAIN rs : i > 1 => rs[i-1][1] + rs[i-1][2] # rs[i][1]
TakesNextFit ==
  pc \in {"alloc", "runs"} /\ Got = want =>
    /\ found = NextFit(free \cup found, start, want)
    /\ pc = "runs" => RunsName(Closed, found)

(* A page left out of the dirty set is the same in memory and on the       *)
(* medium; flush() writes nothing else.  Words grabbed whole must count.   *)
CleanPagesOnDisk ==
  \A p \in Pages \ dirty : PageOf(p) \cap free = PageOf(p) \cap disk

(* The bitmap is the allocator the engine relies on.  A request takes      *)
(* effect when it returns.                                                 *)
Allocator == INSTANCE BlockAllocator WITH
               Requests <- 1..MaxCount,
               mem <- (free \cup found) \cap Blocks,
               durable <- disk \cap Blocks,
               given <- answer
ImplementsAllocator == Allocator!Spec
=============================================================================
