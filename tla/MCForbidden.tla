------------------------------ MODULE MCForbidden ------------------------------
(* An instance of Forbidden for TLC. *)
EXTENDS Forbidden

CONSTANTS j1, f1, q1, o1, u1, u2

OneForm == [u \in Subs |-> f1]

OneJob == [j \in JobIds |-> [state |-> "live", owner |-> o1, form |-> f1, dest |-> q1, active |-> TRUE]]
===============================================================================
