------------------------- MODULE MCFileReplication --------------------------
(***************************************************************************)
(* Small instances of FileReplication for TLC.                             *)
(***************************************************************************)
EXTENDS FileReplication

=============================================================================
