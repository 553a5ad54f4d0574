----------------------------- MODULE MCSerialGaps -----------------------------
(* Instances of SerialGaps for TLC. *)
EXTENDS SerialGaps, TLC

\* Submissions are interchangeable.
SymmetricSubs == Permutations(Subs)
===============================================================================
