--------------------------- MODULE MCCacheUpdates ---------------------------
(***************************************************************************)
(* Small instances of CacheUpdates for TLC.                                *)
(***************************************************************************)
EXTENDS CacheUpdates

CONSTANTS sot, m1

ServerOrder == <<sot, m1>>

=============================================================================
