--------------------------- MODULE MCChangeAgent ----------------------------
(***************************************************************************)
(* Small instances of ChangeAgent for TLC.                                 *)
(***************************************************************************)
EXTENDS ChangeAgent

=============================================================================
