---------------------------- MODULE MCSFSVolume ----------------------------
(* The way SFSVolume is run.  It leaves out a call after which the code is  *)
(* known not to keep its promises.                                          *)
EXTENDS SFSVolume, TLC

CONSTANTS n1, n2, n3, n4

\* Bound: objects with long names have nothing in them, and n4 is used in the
\* root only, where it fills a third container.
FewPaths == [1..1 -> Names] \cup {<<x, y>> : x \in Names \ Long, y \in Names \ {n4}}

Symmetry == Permutations(Names \ Long)

\* No rename is refused once it has taken the object out of its directory, for
\* its new name or for want of an admin block.
RenamesWhole == call'.op = "rename" => call'.err = "none"

\* Bound: n4 names a directory that is made and deleted, and nothing else.
FewUses == call'.op \in {"write", "rename"} => <<n4>> \notin {call'.path, call'.to}

SessionNext ==
  \/ DeviceWrite
  \/ (Calls \/ CallEnterBulk \/ CallLeaveBulk) /\ RenamesWhole /\ FewUses
SessionSpec == Init /\ [][SessionNext]_vars
=============================================================================
