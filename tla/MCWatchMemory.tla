--------------------------- MODULE MCWatchMemory ---------------------------
(* Small instances of WatchMemory for TLC: the items differ by their source. *)
EXTENDS WatchMemory
=============================================================================
