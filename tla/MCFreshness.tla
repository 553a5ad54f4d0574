------------------------------ MODULE MCFreshness ------------------------------
(* Instances of Freshness for TLC. *)
EXTENDS Freshness, TLC

CONSTANTS s1, s2, t1, t2

Symmetry == Permutations(Submissions) \cup Permutations(Threads)
===============================================================================
