------------------------------- MODULE MCListing -------------------------------
(* Instances of Listing for TLC. *)
EXTENDS Listing

CONSTANTS s1, s2, s3, s4, s5, s6

Symmetry == Permutations(Submissions \ Unusable)
===============================================================================
