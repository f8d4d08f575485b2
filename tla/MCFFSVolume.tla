---------------------------- MODULE MCFFSVolume ----------------------------
(* The ways FFSVolume is run.  The runs that pass leave out the calls after *)
(* which the code is known not to keep its promises.                        *)
EXTENDS FFSVolume

\* All writes of a call at once, for runs in which nothing is killed.
Drain ==
  /\ vol.out # <<>>
  /\ media' = [media EXCEPT !.disk = vol.disk, !.bits = vol.bits]
  /\ vol' = [vol EXCEPT !.out = <<>>]
  /\ UNCHANGED <<call, before, mishap, calls>>

\* No directory is deleted in a bulk session.
Deletes(p) == call'.op = "delete" /\ call'.path = p
KeepsDirectories ==
  vol.bulk /\ vol.out = <<>> => \A x \in Tree : x[2] = 0 => ~Deletes(x[1])

\* With a dircache or with comment blocks no call runs out of space, and a
\* directory with a dircache has at most two entries.
Roomy ==
  /\ DirCache(vol) \/ LongNames(vol) => call'.err # "full"
  /\ DirCache(vol) => 3 \notin Range(call'.path \o call'.to)

\* After a makedirs that failed something is removed or renamed before any other
\* call: until then makedirs takes the path for made.
RetriesNothing ==
  call.op = "makedirs" /\ call.err # "none" => call'.op \in {"delete", "rename"}

\* The third name is used in the root only.
FewPaths == {p \in Paths : 3 \in Range(p) => p = <<3>>}
\* A path of one name is made as by mkdir.
LongPaths == {p \in FewPaths : Len(p) > 1}

SessionNext ==
  \/ Drain
  \/ /\ Calls(FewPaths) \/ (\E p \in LongPaths : CallMakedirs(p))
        \/ CallEnterBulk \/ CallLeaveBulk
     /\ KeepsDirectories /\ Roomy /\ RetriesNothing
SessionSpec == Init /\ [][SessionNext]_vars

\* Killed at any write; the next process runs repair before anything else.
RepairFirst == call.op = "crash" => call'.op \in {"crash", "repair", "repair --write"}
CrashNext ==
  \/ DeviceWrite \/ Crash
  \/ (Calls(Paths) \/ CallEnterBulk \/ CallLeaveBulk \/ CallRepair \/ CallRepairCommand)
       /\ KeepsDirectories /\ RepairFirst
CrashSpec == Init /\ [][CrashNext]_vars

\* Bulk sessions.
BulkNext == (vol.bulk /\ Calls(Paths)) \/ CallEnterBulk \/ CallLeaveBulk \/ Drain
BulkSpec == Init /\ [][BulkNext]_vars
=============================================================================
