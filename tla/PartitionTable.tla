---------------------------- MODULE PartitionTable ----------------------------
(* What a caller of RDisk is promised: a table that maps names to disjoint    *)
(* ranges of cylinders, in the order in which they were added, together with  *)
(* the drivers embedded for it. Every call takes effect at one instant: a     *)
(* reader of the image, or a process that crashes, finds the table before the *)
(* call or the table after it. A command whose commit is killed may lose it   *)
(* (Create), until the rescue brings back what there is (Recover).            *)
EXTENDS Integers, SequencesExt

CONSTANTS
    Names,        \* drive names of partitions
    DosTypes,     \* the types a driver can be embedded for
    DriverSizes,  \* lengths of a driver, in LSEG blocks
    LoCyl, HiCyl  \* the partitionable cylinders

VARIABLES
    parts,        \* the partitions, in chain order
    drivers       \* the drivers, in chain order

table == <<parts, drivers>>

Partition == [name : Names, lo : LoCyl..(HiCyl + 1), hi : (LoCyl - 1)..HiCyl]
Driver == [dos_type : DosTypes, segs : DriverSizes]

Init == parts = <<>> /\ drivers = <<>>

AddPartition ==
    /\ parts' # <<>> /\ Front(parts') = parts
    /\ Last(parts') \in Partition
    /\ \A q \in ToSet(parts) :
          /\ q.name # Last(parts').name
          /\ Last(parts').hi < q.lo \/ q.hi < Last(parts').lo
    /\ UNCHANGED drivers

DeletePartition == \E i \in DOMAIN parts :
    /\ parts' = RemoveAt(parts, i)
    /\ UNCHANGED drivers

AddDriver == \E d \in Driver :
    /\ \A e \in ToSet(drivers) : e.dos_type # d.dos_type
    /\ drivers' = Append(drivers, d)
    /\ UNCHANGED parts

\* A new table over the old one.
Create == parts' = <<>> /\ drivers' = <<>>

\* The rescue of an overwritten table: disjoint partitions, by cylinder.
Recover ==
    /\ parts = <<>>
    /\ parts' \in Seq(Partition)
    /\ \A i, j \in DOMAIN parts' : i < j => parts'[i].hi < parts'[j].lo
    /\ UNCHANGED drivers

Next ==
    /\ table' # table
    /\ AddPartition \/ DeletePartition \/ AddDriver \/ Create \/ Recover

Spec == Init /\ [][Next]_table
=============================================================================
