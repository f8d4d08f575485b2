-------------------------- MODULE MCBulkWriteCache --------------------------
(* Four blocks of two values each; a write of two blocks is already a      *)
(* large one, and a read of four is not served from the cache.             *)
EXTENDS BulkWriteCache

\* The last answer is never read, only compared with the device's.
View == <<base, small, big, pending, out, doing>>
=============================================================================
