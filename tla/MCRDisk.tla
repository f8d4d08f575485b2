------------------------------- MODULE MCRDisk -------------------------------
(* The partition table and its rescue with three drives, whose names are      *)
(* interchangeable.                                                           *)
EXTENDS RDBRescue, TLC

Drives == Permutations(Names) \cup Permutations(DosTypes)

\* A root whose size was estimated, one that knows its size, a smaller one, and
\* one that knows of more than the disk has.
Root(n, first, last, known) == [name |-> n, lo |-> first, hi |-> last, exact |-> known]
Roots == UNION {{Root(n, LoCyl, HiCyl, FALSE), Root(n, LoCyl, HiCyl, TRUE),
                 Root(n, LoCyl, LoCyl, TRUE), Root(n, HiCyl, HiCyl + 1, TRUE)} : n \in Names}
=============================================================================
