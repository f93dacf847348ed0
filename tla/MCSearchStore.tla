--------------------------- MODULE MCSearchStore ----------------------------
(***************************************************************************)
(* Small instances of SearchStore for TLC.                                 *)
(***************************************************************************)
EXTENDS SearchStore

=============================================================================
