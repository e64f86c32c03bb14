---------------------------- MODULE MCMigration ----------------------------
(***************************************************************************)
(* A small instance of Migration: columns of two tables, two files of the  *)
(* same content.                                                           *)
(***************************************************************************)
EXTENDS Migration

CONSTANTS c1, c2, c3

\* c1 and c3 belong to files, c2 to users; releases added them in this order.
AddedTo == [c \in Columns |-> IF c = c2 THEN 2 ELSE 1]
Prefixes == {{}, {c1}, {c1, c2}, {c1, c2, c3}}
Same == [f \in Files |-> 0]
=============================================================================
