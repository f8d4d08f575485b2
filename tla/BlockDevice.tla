---------------------------- MODULE BlockDevice ----------------------------
(***************************************************************************)
(* What an engine expects of the block device below it, whatever layers    *)
(* (blkdev.py) lie in between: a read returns what was last written, and a *)
(* block that reaches the medium early is the newest version of it.        *)
(***************************************************************************)
EXTENDS Naturals, Sequences

CONSTANTS NBlocks, Values

Blocks == 0..NBlocks-1

VARIABLES image,     \* what a read returns
          durable,   \* what a crash leaves
          answer     \* the outcome of the last call

vars == <<image, durable, answer>>

Answer(op, lba, data) == [op |-> op, lba |-> lba, data |-> data]
NoAnswer == Answer("none", 0, <<>>)

Covers(lba, n) == lba .. lba + n - 1

Init == /\ image \in [Blocks -> Values]
        /\ durable = image
        /\ answer = NoAnswer

Write(lba, data) ==
  /\ answer' = Answer("write", lba, data)
  /\ image' = [b \in Blocks |-> IF b \in Covers(lba, Len(data)) THEN data[b - lba + 1]
                                                              ELSE image[b]]
  /\ UNCHANGED durable

Read(lba, n) ==
  /\ answer' = Answer("read", lba, [i \in 1..n |-> image[lba + i - 1]])
  /\ UNCHANGED <<image, durable>>

\* Some blocks reach the medium.
Settle ==
  /\ durable' \in [Blocks -> Values]
  /\ \A b \in Blocks : durable'[b] \in {durable[b], image[b]}
  /\ UNCHANGED <<image, answer>>

\* flush() returns when all have.
Flushed ==
  /\ durable = image
  /\ answer' = Answer("flush", 0, <<>>)
  /\ UNCHANGED <<image, durable>>

Crash ==
  /\ image' = durable
  /\ answer' = NoAnswer
  /\ UNCHANGED durable

Next ==
  \/ \E lba \in Blocks : \E n \in 1..NBlocks-lba :
       Read(lba, n) \/ \E data \in [1..n -> Values] : Write(lba, data)
  \/ Settle \/ Flushed \/ Crash

Spec == Init /\ [][Next]_vars
=============================================================================
