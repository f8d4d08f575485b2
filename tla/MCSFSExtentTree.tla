-------------------------- MODULE MCSFSExtentTree --------------------------
(* Leaves of two entries and indexes of three: five runs make a tree of    *)
(* three levels.                                                           *)
EXTENDS SFSExtentTree
=============================================================================
