------------------------------ MODULE MCBackup ------------------------------
(***************************************************************************)
(* A small instance of Backup: two files, which are interchangeable.       *)
(***************************************************************************)
EXTENDS Backup, TLC

Interchangeable == Permutations(Files)
=============================================================================
