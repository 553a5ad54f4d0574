--------------------------- MODULE SubmissionLedger ---------------------------
(***************************************************************************)
(* What the service promises of each submission of each job, without       *)
(* threads, transactions, requests or failures: the state machine that     *)
(* src/app/poller.py and src/app/models.py describe in words. One entry    *)
(* per (job, submission), one item at most per (queue, submission).        *)
(***************************************************************************)
EXTENDS Naturals

CONSTANTS JobIds, Subs, Queues

VARIABLES
  status,   \* of each (job, submission); "none": not on record
  items     \* how often each submission is on each queue

ledger == <<status, items>>

Entries == JobIds \X Subs

\* The poll loop has not made up its mind for good ...
Open == {"none", "new", "failed"}

\* ... and what it may make of such an entry.
Results == {"delivered", "failed", "dead_letter"}

Init ==
  /\ status = [k \in Entries |-> "none"]
  /\ items = [i \in Queues \X Subs |-> 0]

\* The one item of a submission on a queue.
Add(q, u) ==
  /\ items[<<q, u>>] = 0
  /\ items' = [items EXCEPT ![<<q, u>>] = 1]
  /\ UNCHANGED status

\* Delivered is for a submission that is on a queue.
Decide(k, result) ==
  /\ status[k] \in Open
  /\ result = "delivered" => \E q \in Queues : items[<<q, k[2]>>] > 0
  /\ status' = [status EXCEPT ![k] = result]
  /\ UNCHANGED items

\* A retry request.
Reset(k) ==
  /\ status[k] # "none"
  /\ status' = [status EXCEPT ![k] = "new"]
  /\ UNCHANGED items

\* The entries of a job go with it, all at once; the items stay.
Erase(j) ==
  /\ status' = [k \in Entries |-> IF k[1] = j THEN "none" ELSE status[k]]
  /\ UNCHANGED items

Next ==
  \/ \E q \in Queues, u \in Subs : Add(q, u)
  \/ \E k \in Entries, result \in Results : Decide(k, result)
  \/ \E k \in Entries : Reset(k)
  \/ \E j \in JobIds : Erase(j)

Spec == Init /\ [][Next]_ledger
===============================================================================
