----------------------------- MODULE MCLibrary -----------------------------
(* Library on a small instance: two courses, two users, every quota on.    *)
EXTENDS Library, TLC

\* The disk may be full, have less left than an upload wants, or plenty.
MCSpares == {-1, 1, 5}

Symmetry ==
  Permutations(Courses) \cup Permutations(Files)
    \cup Permutations(Forms) \cup Permutations(Titles)
=============================================================================
