----------------------------- MODULE MCFileOps ------------------------------
(***************************************************************************)
(* Small instances of FileOps for TLC.  Clients are interchangeable.       *)
(***************************************************************************)
EXTENDS FileOps, TLC

ClientSymmetry == Permutations(Clients)

=============================================================================
