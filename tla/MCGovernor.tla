----------------------------- MODULE MCGovernor -----------------------------
(* Governor on a small instance; the jobs are interchangeable.             *)
EXTENDS Governor, TLC

Symmetry == Permutations(Jobs)
=============================================================================
