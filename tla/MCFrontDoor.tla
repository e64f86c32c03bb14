---------------------------- MODULE MCFrontDoor ----------------------------
(***************************************************************************)
(* A small instance of FrontDoor.  One unit of time is about two days for  *)
(* sessions and a third of a window for the limiter: the parts run apart,  *)
(* and only the proportions of their own constants matter.                 *)
(***************************************************************************)
EXTENDS FrontDoor, TLC

Interchangeable == Permutations(Threads)
=============================================================================
