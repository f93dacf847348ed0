----------------------------- MODULE MCDocStore -----------------------------
(***************************************************************************)
(* Small instances of DocStore for TLC: the constants are given in the cfg *)
(* files.                                                                  *)
(***************************************************************************)
EXTENDS DocStore

=============================================================================
