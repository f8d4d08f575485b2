---------------------------- MODULE MCFFSBitmap ----------------------------
(***************************************************************************)
(* TLC instances of FFSBitmap.                                             *)
(***************************************************************************)
EXTENDS FFSBitmap

\* Past the end of the volume a foreign formatter left all bits or none.
PadBits == Bits \ Blocks
FullInit == Init /\ disk \cap PadBits \in {{}, PadBits}
FullSpec == FullInit /\ [][Next]_vars

\* Requests, frees and remounts only, from a full volume and over a map that
\* is never flushed: room for a larger volume, with whole pages and half a word.
ScanInit == Init /\ disk \in {{}, PadBits}
ScanStep == GrabPage \/ GrabWord \/ SkipWord \/ TakeBlock \/ PassBlock \/ Return
ScanNext ==
  \/ \E n \in 1..MaxCount, loop \in {"alloc", "runs"} : Call(n, loop)
  \/ ScanStep
  \/ \E b \in Blocks : Free({b})
  \/ Remount

\* The loop runs in the caller's thread: it goes on as long as it can.
ScanSpec == ScanInit /\ [][ScanNext]_vars /\ WF_vars(ScanStep)

\* A request that the popcount test lets through comes back with its blocks,
\* unless the process dies: no jump over words and pages and no wrap makes the
\* loop of alloc and alloc_runs circle for good or miss a free block.
ScanReturns == pc \in {"alloc", "runs"} ~> pc = "idle"
=============================================================================
