---------------------------- MODULE MCFileStore ----------------------------
(***************************************************************************)
(* Small instances of FileStore.  Two files of one course with different   *)
(* or equal digests, and two staged names for each.                        *)
(***************************************************************************)
EXTENDS FileStore, TLC

CONSTANTS f1, f2, c1, n1, n2, n3, n4, r1, r2, m1

OneCourse == [f \in Files |-> c1]
Distinct == [f \in Files |-> f]
Same == [f \in Files |-> c1]
TwoEach == (n1 :> f1) @@ (n2 :> f1) @@ (n3 :> f2) @@ (n4 :> f2)

AllButUndo == AllFaults \ {"undo"}

\* The names drawn for one file are interchangeable.
SymNames == {a @@ b : a \in Permutations({n1, n2}), b \in Permutations({n3, n4})}
=============================================================================
