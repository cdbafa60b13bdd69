------------------------- MODULE MCSyncCacheAccess -------------------------
(***************************************************************************)
(* SyncCacheAccess for TLC, with what the documentation says of threads.   *)
(***************************************************************************)
EXTENDS SyncCacheAccess

\* docs/techniques/caching.md:260 says of the local memory cache: "Its also
\* thread-safe."  No increment that a thread has written is lost.
NoLostIncrement == value = writes
=============================================================================
