------------------------------- MODULE Forbidden -------------------------------
(***************************************************************************)
(* Poller with submissions that OS2forms refuses to hand out: it lists     *)
(* them and answers 403 whenever one is asked for, at no cost to the bound *)
(* on faults. The adapter tells such a 403 from a bad credential by        *)
(* nothing (src/app/sources/os2forms.py).                                  *)
(***************************************************************************)
EXTENDS Poller

CONSTANT Refused   \* of Subs

AsksRefused(p) == pc[p] = "fetch" /\ txn[p].sub \in Refused

\* get_submission raises SourceAuthError for a 403 of one submission, too.
FetchRefused(p) ==
  /\ AsksRefused(p)
  /\ React(p, "SourceAuthError")
  /\ UNCHANGED <<jobs, rows, stamp, source, items, stop, request, left>>

PollStepRefused(p) == IF AsksRefused(p) THEN FetchRefused(p) ELSE PollStep(p)

NextRefused ==
  \/ \E p \in Pollers : PollStepRefused(p) \/ DatabaseFault(p) \/ Stop(p) \/ Crash(p) \/ Start(p)
  \/ \E u \in Subs : Arrive(u) \/ Purge(u)
  \/ \E j \in JobIds : CreateJob(j) \/ UpdateJob(j) \/ DeleteJob(j)
  \/ \E r \in Requests : RetryLoad(r) \/ RetryCommit(r) \/ RetryFail(r)

FairnessRefused ==
  /\ \A p \in Pollers : WF_vars(PollStepRefused(p)) /\ WF_vars(Start(p))
  /\ \A r \in Requests : WF_vars(RetryCommit(r))

SpecRefused == Init /\ [][NextRefused]_vars /\ FairnessRefused

\* "The source itself rejects us, which breaks every job on this webform": what
\* the source does hand out settles otherwise.
OthersSettle == \A j \in JobIds, u \in Subs \ Refused : Owed(j, u) ~> ~Owed(j, u)
===============================================================================
