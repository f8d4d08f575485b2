--------------------------- MODULE MCPFS3Volume ---------------------------
(* The ways PFS3Volume is run.  The run that passes leaves out the calls    *)
(* after which the code is known not to keep its promises.                  *)
EXTENDS PFS3Volume, TLC

CONSTANTS n1, n2, n3

Symmetry == Permutations(Names \ Refused)

\* Outside bulk mode no file is replaced by a write that fails.
ReplacesWhole ==
  call'.op = "write" /\ call'.err # "none" /\ ~vol.bulk =>
    \A x \in tree : x[1] # call'.path

\* No rename is refused once it has taken the entry out of its directory, for
\* its new name or for want of a reserved block.
RenamesWhole == call'.op = "rename" => call'.err = "none"

\* After a makedirs that failed something is removed or renamed before any other
\* call: until then makedirs takes the path for made.
RetriesNothing ==
  call.op = "makedirs" /\ call.err # "none" => call'.op \in {"delete", "rename"}

\* The paths made: a path of one name is made as by mkdir, and the names of
\* two directories have nothing to do with one another.
LongPaths == {<<n, n>> : n \in Names}

SessionNext ==
  \/ DeviceWrite
  \/ /\ Calls \/ (\E p \in LongPaths : CallMakedirs(p)) \/ CallEnterBulk \/ CallLeaveBulk
     /\ ReplacesWhole /\ RenamesWhole /\ RetriesNothing
SessionSpec == Init /\ [][SessionNext]_vars

-----------------------------------------------------------------------------
\* Files in the root directory outside bulk mode, and directories.
RootNext ==
  \/ DeviceWrite
  \/ \E p \in [1..1 -> Names] :
       \/ CallMkdir(p)
       \/ \E ver \in Versions : CallWrite(p, ver, FALSE)
RootSpec == Init /\ [][RootNext]_vars

(* A write that fails is rolled back, and what check() looks for stays so: *)
(* no anode and no directory block is met twice on a walk                  *)
(* (tests/pfs3/test_write.py:181, test_volume_full: "failed alloc must     *)
(* roll back cleanly", and then check() must be ok).                       *)
FailedWriteRollsBack == vol.out = <<>> => Apart(Now)
=============================================================================
