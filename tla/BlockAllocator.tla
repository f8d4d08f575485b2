--------------------------- MODULE BlockAllocator ---------------------------
(***************************************************************************)
(* What every allocator of the toolkit promises to the file system engine  *)
(* above it: blocks handed out were free and are not free afterwards, a    *)
(* request is refused only when too few blocks are free, and a persist     *)
(* moves bits of the in-memory map to the medium, from which a crash       *)
(* reloads it.  The FFS bitmap (FFSBitmap.tla) is shown to implement it.   *)
(***************************************************************************)
EXTENDS Naturals, FiniteSets

CONSTANTS Blocks,       \* the blocks that can be handed out
          Requests      \* the sizes that can be asked for

VARIABLES mem,          \* the blocks free in the in-memory map
          durable,      \* the blocks free in the map on the medium
          given         \* the answer of the last step, if it was a request

vars == <<mem, durable, given>>

Given(n, S) == [kind |-> "given", asked |-> n, blocks |-> S]
Refused(n) == [kind |-> "refused", asked |-> n, blocks |-> {}]
None == [kind |-> "none", asked |-> 0, blocks |-> {}]

Init == /\ durable \in SUBSET Blocks
        /\ mem = durable
        /\ given = None

\* n blocks, all of them free until now, change hands.
Allocate(n) == \E S \in SUBSET mem :
                 /\ Cardinality(S) = n
                 /\ mem' = mem \ S
                 /\ given' = Given(n, S)
                 /\ UNCHANGED durable

\* A request is refused only for want of free blocks, and changes nothing.
Refuse(n) == /\ Cardinality(mem) < n
             /\ given' = Refused(n)
             /\ UNCHANGED <<mem, durable>>

Release(S) == /\ mem' = mem \cup S
              /\ given' = None
              /\ UNCHANGED durable

\* Some blocks' bits reach the medium.
Persist(S) == /\ durable' = (durable \ S) \cup (mem \cap S)
              /\ given' = None
              /\ UNCHANGED mem

\* The process dies; the next mount reads the map of the medium.
Remount == /\ mem' = durable
           /\ given' = None
           /\ UNCHANGED durable

Next == \/ \E n \in Requests : Allocate(n) \/ Refuse(n)
        \/ \E S \in SUBSET Blocks : Release(S) \/ Persist(S)
        \/ Remount

Spec == Init /\ [][Next]_vars
=============================================================================
