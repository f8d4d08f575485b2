------------------------------ MODULE FileTree ------------------------------
(***************************************************************************)
(* What a caller of a volume engine (fs/ffs.py and its siblings) is        *)
(* promised: a tree of directories and files that one call at a time       *)
(* changes.  A tree is a set of <<path, content>> pairs; the content of a  *)
(* directory is Dir, that of a file a version of its data.  `call` is the  *)
(* last call and whether it succeeded.                                     *)
(***************************************************************************)
EXTENDS Naturals, Sequences, SequencesExt

CONSTANTS Names, Versions, MaxDepth

Dir == 0

Paths == UNION {[1..k -> Names] : k \in 1..MaxDepth}

VARIABLES tree, call

vars == <<tree, call>>

Used(t) == {x[1] : x \in t}
IsDir(t, p) == p = <<>> \/ <<p, Dir>> \in t
Below(t, p) == {x \in t : IsPrefix(p, x[1])}

Called(op, p, q, ok) == [op |-> op, path |-> p, to |-> q, ok |-> ok]
NoCall == Called("none", <<>>, <<>>, TRUE)

Init == tree = {} /\ call = NoCall

Mkdir(p) ==
  /\ call' = Called("mkdir", p, <<>>, TRUE)
  /\ IsDir(tree, Front(p)) /\ p \notin Used(tree)
  /\ tree' = tree \cup {<<p, Dir>>}

\* Creates the directories of a path that are not there yet.
Prefix(p, k) == SubSeq(p, 1, k)
Makedirs(p) ==
  /\ call' = Called("makedirs", p, <<>>, TRUE)
  /\ \A k \in DOMAIN p : Prefix(p, k) \in Used(tree) => IsDir(tree, Prefix(p, k))
  /\ tree' = tree \cup {<<Prefix(p, k), Dir>> : k \in DOMAIN p}

\* Creates the file or replaces its data.
Write(p, v) ==
  /\ call' = Called("write", p, <<>>, TRUE)
  /\ IsDir(tree, Front(p)) /\ ~IsDir(tree, p)
  /\ tree' = (tree \ Below(tree, p)) \cup {<<p, v>>}

Delete(p) ==
  /\ call' = Called("delete", p, <<>>, TRUE)
  /\ p \in Used(tree)
  /\ tree' = tree \ Below(tree, p)

Moved(t, p, q) ==
  (t \ Below(t, p)) \cup
  {<<q \o SubSeq(x[1], Len(p)+1, Len(x[1])), x[2]>> : x \in Below(t, p)}

Rename(p, q) ==
  /\ call' = Called("rename", p, q, TRUE)
  /\ p \in Used(tree) /\ q # <<>> /\ IsDir(tree, Front(q))
  /\ q \in Used(tree) => q = p
  /\ IsPrefix(p, q) => p = q
  /\ tree' = Moved(tree, p, q)

\* A call that raises changes nothing, except that a write refused for want
\* of space has already removed the file it was to replace, and makedirs the
\* first directories.
Raise(op, p, q) ==
  /\ call' = Called(op, p, q, FALSE)
  /\ \/ tree' = tree
     \/ op = "write" /\ tree' = tree \ Below(tree, p)
     \/ /\ op = "makedirs"
        /\ \E k \in DOMAIN p :
             /\ \A i \in 1..k : Prefix(p, i) \in Used(tree) => IsDir(tree, Prefix(p, i))
             /\ tree' = tree \cup {<<Prefix(p, i), Dir>> : i \in 1..k}

\* Entering and leaving bulk mode, and a repair, are not seen in the tree.
Maintain(op) == call' = Called(op, <<>>, <<>>, TRUE) /\ tree' = tree

\* What was called is part of the state, so a step reads its arguments there.
Next ==
  LET op == call'.op
      p == call'.path
      q == call'.to
  IN  \/ op \in {"bulk", "repair"} /\ Maintain(op)
      \/ /\ op \in {"mkdir", "makedirs", "write", "delete", "rename"}
         /\ p \in Paths /\ q \in Paths \cup {<<>>}
         /\ \/ Mkdir(p) \/ Makedirs(p) \/ Delete(p) \/ Rename(p, q)
            \/ \E v \in Versions : Write(p, v)
            \/ Raise(op, p, q)

Spec == Init /\ [][Next]_vars
=============================================================================
