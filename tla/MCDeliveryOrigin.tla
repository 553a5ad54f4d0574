--------------------------- MODULE MCDeliveryOrigin ---------------------------
(* Instances of DeliveryOrigin for TLC. *)
EXTENDS DeliveryOrigin

CONSTANTS j1, j2, f1, q1, q2, o1, o2

OneForm == [u \in Subs |-> f1]

JobOf(own, to) == [state |-> "live", owner |-> own, form |-> f1, dest |-> to, active |-> TRUE]

\* One owner with a job for each of two queues.
TwoQueues == [j \in JobIds |-> JobOf(o1, IF j = j1 THEN q1 ELSE q2)]

\* Two owners, each with a job for the one form and the one queue.
TwoOwners == [j \in JobIds |-> JobOf(IF j = j1 THEN o1 ELSE o2, q1)]
===============================================================================
