---------------------------- MODULE FileExtents ----------------------------
(***************************************************************************)
(* What the extent records of an SFS volume are for: each file is a        *)
(* sequence of runs of blocks, known by their first blocks, and no two     *)
(* files share one.                                                        *)
(***************************************************************************)
EXTENDS Naturals, Sequences, Functions

CONSTANT Keys          \* the first blocks of runs

VARIABLES files,       \* the set of files, each a sequence of keys
          answer

vars == <<files, answer>>

InUse == UNION {Range(f) : f \in files}

Init == files = {} /\ answer = "ok"

WriteFile(runs) ==
  /\ \A i, j \in DOMAIN runs : runs[i] \in Keys \ InUse /\ (runs[i] = runs[j] => i = j)
  /\ files' = files \cup {runs}
  /\ answer' = "ok"

DeleteFile(f) ==
  /\ f \in files
  /\ files' = files \ {f}
  /\ answer' = "ok"

\* A call may raise, and changes nothing then.
Raise == UNCHANGED files /\ answer' = "raised"

Next == \/ \E f \in files' \ files : WriteFile(f)
        \/ \E f \in files : DeleteFile(f)
        \/ Raise

Spec == Init /\ [][Next]_vars
=============================================================================
