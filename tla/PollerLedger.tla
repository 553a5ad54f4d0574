----------------------------- MODULE PollerLedger -----------------------------
(***************************************************************************)
(* Poller implements SubmissionLedger: the status column is the entry.     *)
(* Poll cycles, requests and replies, open transactions and stale copies   *)
(* are steps the ledger does not see.                                      *)
(***************************************************************************)
EXTENDS Poller

\* What is on record of each entry.
StatusColumn == [k \in Keys |-> rows[k].status]

Ledger == INSTANCE SubmissionLedger WITH status <- StatusColumn

\* Every step of the service, with one poll thread and no quirk, is a step of
\* the ledger or none: an item appears once, delivered comes after it, what is
\* settled is reopened by a request only, and a job's entries go together.
ImplementsLedger == Ledger!Spec
===============================================================================
