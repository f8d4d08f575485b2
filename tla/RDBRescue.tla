------------------------------ MODULE RDBRescue ------------------------------
(* The commands that do not trust themselves with a partition table: part-del *)
(* and rdb-rebuild run on an overlay over the image (blkdev.py), look at the  *)
(* outcome, and then commit the blocks that changed. rdb-rebuild is the       *)
(* rescue of rdb/rescue.py: scan collects the evidence of partitions, the     *)
(* orphaned PART blocks first, and rebuild writes a fresh RDSK block and adds *)
(* a partition for each candidate through RDisk; when PART blocks are all the *)
(* evidence it is to link them again instead, and fails (Relink).             *)
(* While a command simulates, `disk` is what a read of the overlay returns.   *)
(* Positions are cylinders: the geometry is that of the lost table, which     *)
(* reserved two cylinders for itself.                                         *)
EXTENDS RDisk

CONSTANT Anchors     \* roots of file systems that the scan may come upon, each
                     \* with the name DHi that rebuild would give it

VARIABLES
    command,         \* the command that runs: "part-del", or rdb-rebuild, which is
                     \* to "relink" or to "add"
    base,            \* the image under the overlay, or what it was before the
                     \* commit of a part-del
    queue,           \* the candidates that rebuild has still to add
    torn,            \* history: a commit was killed, and nothing put it right
    lost             \* history: the partitions that PART blocks still describe;
                     \* while part-del runs, those that it is to leave

commandVars == <<command, base, queue, torn>>
rescueVars == <<vars, commandVars, lost>>

ASSUME AnchorAssumption ==
    /\ Anchors \subseteq [name : Names, lo : LoCyl..HiCyl, hi : LoCyl..(HiCyl + 1),
                    exact : BOOLEAN]
    /\ \A a \in Anchors : a.lo <= a.hi

-----------------------------------------------------------------------------
(* scan                                                                       *)

\* The roots of one scan, in the order it finds them: the sizes of OFS and FFS
\* volumes, which are estimates, come last.
FoundBefore(a, b) ==
    /\ a.name # b.name
    /\ a.exact \/ ~b.exact
    /\ a.exact = b.exact => a.lo < b.lo
Evidence == {<<>>} \cup {<<a>> : a \in Anchors}
              \cup {e \in Anchors \X Anchors : FoundBefore(e[1], e[2])}

\* What the scan makes of a PART block and of an anchor.
PartCandidate(d, b) ==
    [name |-> d[b].name, lo |-> d[b].lo, hi |-> d[b].hi, exact |-> TRUE, blk |-> b]
AnchorCandidate(a) ==
    [name |-> a.name, lo |-> a.lo, hi |-> a.hi, exact |-> a.exact, blk |-> END]

PartCandidates(d) ==
    {PartCandidate(d, b) : b \in {c \in 1..RdbHi : d[c].magic = "PART"}}

\* An anchor counts if it does not begin inside a candidate there already is.
Merge(cands, a) ==
    IF \E c \in cands : c.lo <= a.lo /\ a.lo <= c.hi
    THEN cands ELSE cands \cup {AnchorCandidate(a)}

\* Of two candidates that overlap the earlier stays, unless only the later is
\* exact.
PruneTouching(pruned, c) ==      \* mutant
    IF pruned = <<>> \/ c.lo > Last(pruned).hi + 1 THEN Append(pruned, c)
    ELSE IF c.exact /\ ~Last(pruned).exact THEN Append(Front(pruned), c)
    ELSE pruned
Prune(pruned, c) ==
    IF pruned = <<>> \/ c.lo > Last(pruned).hi THEN Append(pruned, c)
    ELSE IF c.exact /\ ~Last(pruned).exact THEN Append(Front(pruned), c)
    ELSE pruned

\* The elements of S in the order R.
Sorted(S, R) ==
    [i \in 1..Cardinality(S) |->
       CHOOSE c \in S : Cardinality({e \in S : <<e, c>> \in R}) = i - 1]

\* The candidates by where they begin; of those that begin at one place the PART
\* blocks come first, in the order in which they were found.
InOrder(cands) ==
    LET Before(c, e) == c.lo < e.lo \/ (c.lo = e.lo /\ c.blk < e.blk)
    IN Sorted(cands, {p \in cands \X cands : Before(p[1], p[2])})

scan(d, anchors) ==
    LET merged[i \in 0..Len(anchors)] ==
          IF i = 0 THEN PartCandidates(d) ELSE Merge(merged[i - 1], anchors[i])
        order == InOrder(merged[Len(anchors)])
        pruned[i \in 0..Len(order)] ==
          IF i = 0 THEN <<>> ELSE Prune(pruned[i - 1], order[i])
    IN pruned[Len(order)]

-----------------------------------------------------------------------------
(* rebuild                                                                    *)

\* The partition added for the i-th candidate, which never reaches into the
\* next one.
ToAdd(cands, i) ==
    LET next == IF i < Len(cands) THEN cands[i + 1].lo - 1 ELSE HiCyl
        least(a, b) == IF a <= b THEN a ELSE b
    IN [name |-> cands[i].name,
        lo |-> cands[i].lo,
        hi |-> least(least(cands[i].hi, HiCyl), next)]

-----------------------------------------------------------------------------
(* The overlay                                                                *)

NoOverlay == <<>>
Committing == reread = "commit"
Simulating == base # NoOverlay /\ ~Committing
NoCommand == Idle /\ command = "none"

\* The blocks that a commit writes, ascending.
dirty_blocks(changed) == Sorted(changed, {p \in changed \X changed : p[1] < p[2]})

\* A command starts: an overlay with nothing in it.
Simulate(what) == command' = what /\ base' = disk /\ UNCHANGED torn

\* The calls have returned (those of a relinking never do), the outcome passes
\* the inspection, and --write was given.
Commit ==
    /\ Simulating /\ Idle /\ queue = <<>> /\ command # "relink"
    /\ LET order == dirty_blocks({b \in Blocks : disk[b] # base[b]})
       IN pending' = [i \in DOMAIN order |-> Write(order[i], disk[order[i]])]
    /\ disk' = base
    /\ base' = IF command = "part-del" THEN base ELSE NoOverlay
    /\ reread' = "commit" /\ Exit
    /\ UNCHANGED <<command, queue, torn, lost, crashes, inits>>

\* The overlay is dropped: the image is as it was.
Discard ==
    /\ disk' = base /\ pending' = <<>> /\ reread' = "none" /\ Exit
    /\ command' = "none" /\ base' = NoOverlay /\ queue' = <<>>
    /\ lost' = IF command = "part-del" THEN {} ELSE lost
    /\ UNCHANGED <<torn, crashes, inits>>

\* The command ends in its simulation: a dry run, an error, a volume that does
\* not pass, a kill.
Abandon == Simulating /\ Discard

CommitWrite ==
    /\ Committing /\ ~Idle
    /\ disk' = [disk EXCEPT ![Head(pending).blk] = Head(pending).data]
    /\ pending' = Tail(pending)
    /\ UNCHANGED <<mem, reread, commandVars, lost, crashes, inits>>

Ended ==
    /\ reread' = "none" /\ command' = "none" /\ base' = NoOverlay
    /\ UNCHANGED <<disk, mem, queue, inits>>

Committed ==
    /\ Committing /\ Idle
    /\ torn' = FALSE /\ lost' = {}
    /\ Ended
    /\ UNCHANGED <<pending, crashes>>

\* The command is killed in its commit, a rescue any number of times. What a
\* rescue adds is written over the PART blocks that it found; a deletion leaves
\* the others.
KilledInCommit ==
    /\ Committing /\ ~Idle
    /\ command = "part-del" => crashes + inits < MaxUpsets
    /\ crashes' = IF command = "part-del" THEN crashes + 1 ELSE crashes
    /\ pending' = <<>> /\ torn' = TRUE
    /\ lost' = IF command = "part-del" THEN lost ELSE {}
    /\ Ended

-----------------------------------------------------------------------------
(* The commands                                                               *)

\* The partitions that PART blocks describe, but those of no cylinders, as long
\* as no others can have been left over.
Described(blks) ==
    {[name |-> disk[b].name, lo |-> disk[b].lo, hi |-> disk[b].hi] :
       b \in {c \in blks : disk[c].lo <= disk[c].hi /\ crashes + inits = 0}}

part_del(i) ==
    /\ NoCommand
    /\ Simulate("part-del")
    /\ delete_partition(i)
    /\ lost' = Described(BlkNums(parts) \ {parts[i].blk})
    /\ UNCHANGED queue

\* rebuild has written its RDSK block and comes to the first PART block. That is
\* an object of the scan, which read the image, and so its write goes to the
\* image and not to the overlay: the image was opened to be read, the write
\* raises, and no candidate is ever linked.
Relink == Simulating /\ command = "relink" /\ Discard

\* Nobody rescues a table that opens, unless a commit of it was killed.
Rescuable == torn \/ ~Readable(disk)
rdb_rebuild ==
    /\ NoCommand /\ ~opened /\ Rescuable
    /\ \E anchors \in Evidence :
       LET cands == scan(disk, anchors)
           reuse == \A i \in DOMAIN cands : cands[i].blk # END
       IN /\ cands # <<>>
          /\ disk' = [disk EXCEPT ![RDSK] = FreshRDB]
          /\ Load(disk')
          /\ IF reuse
             THEN Simulate("relink") /\ UNCHANGED <<queue, lost>>
             ELSE /\ Simulate("add")
                  /\ queue' = [i \in DOMAIN cands |-> ToAdd(cands, i)]
                  /\ lost' = {p \in lost :
                       \A a \in ToSet(anchors) : ~(a.exact /\ a.lo < p.lo /\ p.lo <= a.hi)}
          /\ UNCHANGED <<pending, reread, crashes, inits>>

\* rebuild adds its next candidate; if it is refused, the command is abandoned.
AddNext ==
    /\ queue # <<>>
    /\ AddPartitionAt(Head(queue).name, Head(queue).lo, Head(queue).hi)
    /\ queue' = Tail(queue)
    /\ UNCHANGED <<command, base, torn, lost>>

-----------------------------------------------------------------------------
(* The world around                                                           *)

\* Another program writes over blocks 0..k, which no program has open.
Overwrite(k) ==
    /\ NoCommand /\ HasTable(disk) /\ crashes + inits < MaxUpsets
    /\ crashes' = crashes + 1
    /\ disk' = [b \in Blocks |-> IF b <= k THEN Blank ELSE disk[b]]
    /\ lost' = Described({b \in ToSet(PartChain(disk)) : b > k})
    /\ Exit
    /\ UNCHANGED <<pending, reread, inits, commandVars>>

RescueInit ==
    /\ Init
    /\ command = "none" /\ base = NoOverlay /\ queue = <<>>
    /\ torn = FALSE /\ lost = {}

\* The calls that commands make on the image itself. While a commit is torn,
\* the rescue comes first.
Library ==
    /\ NoCommand
    /\ \/ ~torn /\ Adds /\ UNCHANGED torn /\ lost' = {}
       \/ create /\ torn' = FALSE /\ lost' = {}
       \/ ~torn /\ open /\ UNCHANGED torn /\ lost' = {}
    /\ UNCHANGED <<command, base, queue>>

RescueNext ==
    \/ Library
    \/ ~Committing /\ DeviceWrite /\ UNCHANGED <<commandVars, lost>>
    \/ command = "none" /\ Crash /\ UNCHANGED <<commandVars, lost>>
    \/ \E k \in Blocks : Overwrite(k)
    \/ \E i \in DOMAIN parts : part_del(i)
    \/ rdb_rebuild \/ Relink \/ AddNext
    \/ Commit \/ Abandon \/ CommitWrite \/ Committed \/ KilledInCommit

RescueSpec == RescueInit /\ [][RescueNext]_rescueVars

-----------------------------------------------------------------------------
(* Properties                                                                 *)

\* The overlay is sound at every write of a simulation, and so is the image at
\* every write of a call that goes to it directly and when a commit has ended.
SoundUnlessTorn == TypeOK /\ (torn \/ Committing \/ TableSound)

\* Whatever the instant, a reader of the image finds the table before the
\* command in progress or the one after it, if he waits for the end of a commit
\* and takes a table whose commit was killed for lost. The simulation shows in
\* nothing.
Blurred == torn \/ (Committing /\ command # "part-del")
Image == IF base # NoOverlay THEN base ELSE disk
ImageTable == INSTANCE PartitionTable
    WITH parts <- IF Blurred THEN <<>> ELSE PartsOn(Image),
         drivers <- IF Blurred THEN <<>> ELSE DriversOn(Image)
ImageImplementsTable == ImageTable!Spec

\* When a deletion, or a rescue that adds partitions, is committed, the table
\* holds every partition whose PART block was there to be found, with its name
\* and its cylinders, whatever overwrote the table, and if the deletion's commit
\* was killed before; unless a root of a file system told of another partition
\* that covers where it begins. A rescue that finds PART blocks alone promises
\* nothing: it is never committed (Relink).
RescueRestores ==
    [][Committed => lost \subseteq ToSet(PartsOn(disk))]_rescueVars
=============================================================================
