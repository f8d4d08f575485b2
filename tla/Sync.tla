--------------------------------- MODULE Sync ---------------------------------
(* The command sync of sync.py: the files below a directory of the host or of *)
(* a volume are brought to another one.  A run lists both sides, plans what   *)
(* to delete, which directories to make and which files to copy, and does     *)
(* that item by item; the first item that raises ends it, and so may a kill.  *)
(*                                                                            *)
(* A side is a function from the paths below its base (the base is <<>>) to   *)
(* what is there.  Abstractions: volumes are seen through the calls that      *)
(* FileTree describes, and a volume that a killed run has left is repaired    *)
(* before it is listed again; --bulk shows in what a kill leaves only; names  *)
(* that differ by case only, links, which a listing passes over, and errors   *)
(* that rmtree ignores are left out; a dry run prints the plan.               *)
EXTENDS Integers, Sequences, FiniteSets, SequencesExt

CONSTANTS Names,          \* numbers, in the order in which names sort
          MaxDepth,       \* bound: the longest path
          Versions,       \* what a file may hold
          Times,          \* when a file may have been changed, below Now
          Now,            \* the time of the runs
          MaxRuns         \* bound: the runs of a behaviour

ASSUME SyncAssumption ==
  /\ {MaxDepth, MaxRuns, Now} \subseteq Nat
  /\ Names \subseteq Nat /\ Versions \subseteq Nat \ {0}
  /\ Times \subseteq 0..Now

VARIABLES
  src, dst,       \* the two sides
  opts,           \* which sides are images, and the options
  todo,           \* what the run has still to do
  outcome,        \* of the last run
  before,         \* what the last run found at the destination
  runs            \* how many runs were started

vars == <<src, dst, opts, todo, outcome, before, runs>>

-----------------------------------------------------------------------------
(* Trees *)

Base == <<>>
Paths == UNION {[1..k -> Names] : k \in 0..MaxDepth}

Torn == 0                         \* what a copy to the host leaves half-way
Size(ver) == (ver + 1) \div 2     \* two versions may be of one size
Directory == [dir |-> TRUE, ver |-> 0, mtime |-> 0]
File(ver, mtime) == [dir |-> FALSE, ver |-> ver, mtime |-> mtime]

\* A file system: what is above a path are directories.
IsTree(t) == \A p \in DOMAIN t, q \in Paths :
               IsStrictPrefix(q, p) => q \in DOMAIN t /\ t[q].dir

\* walk_host and walk_amiga: the base itself is listed if it is a file.
Listed(t) == IF Base \in DOMAIN t /\ t[Base].dir THEN DOMAIN t \ {Base} ELSE DOMAIN t

Without(t, p) == [q \in {r \in DOMAIN t : ~IsPrefix(p, r)} |-> t[q]]
With(t, p, item) == [q \in DOMAIN t \cup {p} |-> IF q = p THEN item ELSE t[q]]

\* makedirs: what is missing on the way becomes a directory.
Blocked(t, p) == \E q \in DOMAIN t : IsPrefix(q, p) /\ ~t[q].dir
WithDirs(t, p) == [q \in DOMAIN t \cup {r \in Paths : IsPrefix(r, p)} |->
                     IF q \in DOMAIN t THEN t[q] ELSE Directory]

\* Times are in half ticks: a volume keeps ticks, of which two make a second.
Stored(t) == IF opts.toImage THEN t - (t % 2) ELSE t
Second(t) == t \div 4

-----------------------------------------------------------------------------
(* The plan *)

\* should_update, for a file on both sides.
UpdateFirst(s, d) ==                                         \* mutant
  IF opts.checksum THEN s.ver # d.ver
  ELSE IF opts.update THEN s.mtime > d.mtime
  ELSE Size(s.ver) # Size(d.ver) \/ Second(s.mtime) # Second(d.mtime)
ShouldUpdate(s, d) ==
  IF opts.checksum THEN s.ver # d.ver
  ELSE \/ Size(s.ver) # Size(d.ver)
       \/ IF opts.update THEN s.mtime > d.mtime
          ELSE Second(s.mtime) # Second(d.mtime)

\* The order of the relative paths as strings.
Before(p, q) ==
  \/ IsStrictPrefix(p, q)
  \/ \E i \in DOMAIN p \cap DOMAIN q :
       p[i] < q[i] /\ \A j \in 1..i-1 : p[j] = q[j]

DirThere(p) == p \in Listed(dst) /\ dst[p].dir                \* mutant
OfOtherKind(p) == p \in Listed(dst) /\ dst[p].dir # src[p].dir
NoFileOf == IF opts.delete                                    \* mutant
            THEN Listed(dst) \ {p \in Listed(src) : ~src[p].dir} ELSE {}
Extraneous == IF opts.delete THEN Listed(dst) \ Listed(src) ELSE {}
Conflicts == {p \in Listed(src) \ {Base} : OfOtherKind(p)}
NewDirs == {p \in Listed(src) : src[p].dir /\ (p \notin Listed(dst) \/ ~dst[p].dir)}
Outdated == {p \in Listed(src) :
               /\ ~src[p].dir
               /\ p \in Listed(dst) /\ ~dst[p].dir => ShouldUpdate(src[p], dst[p])}

Plan == [del |-> Extraneous \cup Conflicts, dirs |-> NewDirs, copy |-> Outdated]
Nothing == [del |-> {}, dirs |-> {}, copy |-> {}]

\* Extraneous items go first, and children before their directories.
DeletedBeforeTop(p, q) ==                                     \* mutant
  IF p \in Listed(src) THEN q \in Listed(src) /\ Before(p, q)
                       ELSE q \in Listed(src) \/ Before(p, q)
DeletedBefore(p, q) ==
  IF p \in Listed(src) THEN q \in Listed(src) /\ Before(p, q)
                       ELSE q \in Listed(src) \/ Before(q, p)

\* The item whose turn it is; new directories come before what is in them.
NextDeletion(p) == p \in todo.del /\ \A q \in todo.del \ {p} : DeletedBefore(p, q)
First(p, S) == p \in S /\ \A q \in S \ {p} : Before(p, q)

-----------------------------------------------------------------------------
(* A run *)

Running == outcome = "running"

Start ==
  /\ ~Running /\ runs < MaxRuns
  /\ runs' = runs + 1
  /\ before' = dst
  /\ IF Listed(src) = {} THEN outcome' = "failed" /\ todo' = Nothing
     ELSE outcome' = "running" /\ todo' = Plan
  /\ UNCHANGED <<src, dst, opts>>

\* An item is done, or it raises and leaves the destination as t.
Done(kind, p, t) ==
  /\ dst' = t
  /\ todo' = [todo EXCEPT ![kind] = @ \ {p}]
  /\ UNCHANGED <<src, opts, outcome, before, runs>>
Raises(t) ==
  /\ dst' = t
  /\ todo' = Nothing
  /\ outcome' = "failed"
  /\ UNCHANGED <<src, opts, before, runs>>

\* delete(recursive=True), rmtree or remove.
Vanished(p) == p \notin DOMAIN dst
DeleteItem == \E p \in todo.del :
  /\ Running /\ NextDeletion(p)
  /\ IF Vanished(p) THEN Raises(dst) ELSE Done("del", p, Without(dst, p))

\* A recursive deletion that stops half-way has deleted from below.
DeleteStops == \E p \in todo.del :
  /\ Running /\ NextDeletion(p) /\ ~Vanished(p)
  /\ \E gone \in SUBSET {q \in DOMAIN dst : IsStrictPrefix(p, q)} :
       LET left == [q \in DOMAIN dst \ gone |-> dst[q]]
       IN  IsTree(left) /\ Raises(left)

MakeDir == \E p \in todo.dirs :
  /\ Running /\ todo.del = {} /\ First(p, todo.dirs)
  /\ IF Blocked(dst, p) THEN Raises(dst) ELSE Done("dirs", p, WithDirs(dst, p))

\* The directories that are made for a file before it is written; between two
\* images none are.
Parents(p) ==
  IF p = Base \/ (opts.fromImage /\ opts.toImage) THEN dst ELSE WithDirs(dst, Front(p))
NoPlace(p) ==
  \/ p # Base /\ Blocked(dst, Front(p))
  \/ p # Base /\ Front(p) \notin DOMAIN Parents(p)
  \/ p \in DOMAIN dst /\ dst[p].dir

CopyNow(p) == With(Parents(p), p, File(src[p].ver, Now))                 \* mutant
Copied(p) == With(Parents(p), p, File(src[p].ver, Stored(src[p].mtime)))

Copying(p) == Running /\ todo.del = {} /\ todo.dirs = {} /\ First(p, todo.copy)
CopyItem == \E p \in todo.copy :
  /\ Copying(p)
  /\ IF NoPlace(p) THEN Raises(dst) ELSE Done("copy", p, Copied(p))

\* The source cannot be opened; or a volume, which takes the old file out
\* first, has no room; or a copy to the host breaks off, and keeps the time
\* at which it did, or has not been given the source's yet.
CopyStops == \E p \in todo.copy :
  /\ Copying(p) /\ ~NoPlace(p)
  /\ \/ Raises(Parents(p))
     \/ opts.toImage /\ Raises(Without(Parents(p), p))
     \/ \E ver \in {Torn, src[p].ver} :
          ~opts.toImage /\ Raises(With(Parents(p), p, File(ver, Now)))

\* The process is killed. In a bulk session links of a volume are written late,
\* so that some of what the run has brought may not be there.
Killed ==
  /\ Running
  /\ \E gone \in SUBSET {q \in DOMAIN dst : q \notin DOMAIN before \/ dst[q] # before[q]} :
       LET left == [q \in DOMAIN dst \ gone |-> dst[q]]
       IN  (gone # {} => opts.toImage) /\ IsTree(left) /\ Raises(left)

Finish ==
  /\ Running /\ todo = Nothing
  /\ outcome' = "ok"
  /\ UNCHANGED <<src, dst, opts, todo, before, runs>>

Options == {o \in [fromImage : BOOLEAN, toImage : BOOLEAN, delete : BOOLEAN,
                   update : BOOLEAN, checksum : BOOLEAN] : o.fromImage \/ o.toImage}

\* What a side can hold; a volume keeps whole ticks only.
KeptAt(image, t) == image => (t % 2) = 0
Trees(image) ==
  {t \in UNION {[S -> {Directory} \cup {File(v, m) : v \in Versions, m \in Times}] :
                  S \in SUBSET Paths} :
     IsTree(t) /\ \A p \in DOMAIN t : KeptAt(image, t[p].mtime)}

Fresh == todo = Nothing /\ outcome = "none" /\ before = dst /\ runs = 0
Init ==
  /\ opts \in Options
  /\ src \in Trees(opts.fromImage) /\ dst \in Trees(opts.toImage)
  /\ Fresh

Step == DeleteItem \/ MakeDir \/ CopyItem \/ Finish
Failure == DeleteStops \/ CopyStops \/ Killed
Next == Start \/ Step \/ Failure

Spec == Init /\ [][Next]_vars

-----------------------------------------------------------------------------
TypeOK ==
  /\ IsTree(src) /\ IsTree(dst)
  /\ \A t \in {src, dst}, p \in Paths : p \in DOMAIN t =>
       t[p] = Directory \/ t[p] \in {File(v, m) : v \in Versions \cup {Torn}, m \in 0..Now}
  /\ opts \in Options
  /\ \A kind \in DOMAIN todo : todo[kind] \subseteq Paths
  /\ outcome \in {"none", "running", "ok", "failed"}
  /\ Running \/ todo = Nothing

(* A run that returns 0 has brought everything over, whatever earlier runs    *)
(* that failed left half-way: each directory and file of the source is there, *)
(* each file with its content unless one of the same size and time (or, with  *)
(* -u, not an older one) was there before, and with --delete there is nothing *)
(* else.                                                                      *)
LooksTheSame(s, d) ==
  /\ ~d.dir /\ ~opts.checksum /\ Size(s.ver) = Size(d.ver)
  /\ IF opts.update THEN s.mtime <= d.mtime ELSE Second(s.mtime) = Second(d.mtime)
BroughtOver ==
  outcome = "ok" =>
    /\ \A p \in Listed(src) :
         /\ p \in DOMAIN dst /\ dst[p].dir = src[p].dir
         /\ \/ dst[p].ver = src[p].ver
            \/ p \in DOMAIN before /\ LooksTheSame(src[p], before[p]) /\ dst[p] = before[p]
    /\ opts.delete => Listed(dst) = Listed(src)

(* Without --delete a run that succeeds, fails or is killed loses nothing of  *)
(* the destination but what it replaces: files that the source has too, and   *)
(* what lies where or below where the source has a file.                      *)
Replaced(p) == \E q \in Listed(src) : IsPrefix(q, p) /\ ~src[q].dir
KeepsTheRest ==
  ~opts.delete /\ outcome # "none" =>
    \A p \in DOMAIN before :
      ~Replaced(p) /\ (p \in Listed(src) => before[p].dir) =>
        p \in DOMAIN dst /\ dst[p] = before[p]

(* After a run that returned 0 a second one would find nothing to do          *)
(* ("rsync-style incremental sync"), but for -u with times of the host, which *)
(* a volume rounds down.                                                      *)
SecondRunIdle ==
  outcome = "ok" /\ ~(opts.update /\ opts.toImage /\ ~opts.checksum) => Plan = Nothing

(* No deletion meets what an earlier one has taken away, which a volume and   *)
(* the host's remove would refuse, with the copies never made.                *)
DeletionsFindTheirItem ==
  Running => \A p \in todo.del : NextDeletion(p) => ~Vanished(p)

(* The plan of two listings still fits the trees when its items are due.      *)
PlanFits == TypeOK /\ DeletionsFindTheirItem

(* A file that is wanted is missing, or torn, only between its deletion and   *)
(* its copy or after a failure there: what a run has not come to is as it was,*)
(* and what it has done stays done.                                           *)
Reached(p) == p \in Listed(src) /\ p \in DOMAIN dst /\ dst[p].dir = src[p].dir
                /\ (~src[p].dir => dst[p] = File(src[p].ver, Stored(src[p].mtime)))
NothingUndone ==
  [][Running /\ outcome' = "running" =>
       \A p \in Paths : Reached(p) => Reached(p)']_vars
=============================================================================
