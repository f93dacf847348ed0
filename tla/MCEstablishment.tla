-------------------------- MODULE MCEstablishment ---------------------------
(***************************************************************************)
(* Small instances of Establishment for TLC.                               *)
(***************************************************************************)
EXTENDS Establishment

=============================================================================
