------------------------- MODULE MCUpdateInstaller --------------------------
(* UpdateInstaller for TLC: update commands are interchangeable. *)
EXTENDS UpdateInstaller, TLC

JobSymmetry == Permutations(Job)
=============================================================================
