---------------------------- MODULE DeliveryOrigin ----------------------------
(***************************************************************************)
(* Poller with a record of which jobs' payloads were added. An item's      *)
(* reference is the submission's uuid alone, so jobs that share a form and *)
(* a queue share references, and each may shape its payload differently.   *)
(***************************************************************************)
EXTENDS Poller

\* History: of each queue and submission, the jobs whose item was added.
VARIABLE origin

\* Whoever posts does so for the job in hand.
Author(p) == plan[p].job.id

OriginInit == Init /\ origin = [k \in Queues \X Subs |-> {}]

OriginNext ==
  /\ Next
  /\ origin' = [k \in Queues \X Subs |->
       origin[k] \cup (IF items'[k] > items[k]
                       THEN {Author(p) : p \in {q \in Pollers : pc[q] = "post" /\ Reference(q) = k}}
                       ELSE {})]

OriginSpec == OriginInit /\ [][OriginNext]_<<vars, origin>>

\* "For each job in a group, deliver any submissions not yet delivered *for
\* that job*": a row that says delivered stands for an item of its own job.
DeliveredForThatJob ==
  \A k \in Keys :
    rows[k].deliveredAt => \E q \in Queues : k[1] \in origin[<<q, k[2]>>]
===============================================================================
