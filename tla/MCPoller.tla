------------------------------- MODULE MCPoller -------------------------------
(* Instances of Poller for TLC. *)
EXTENDS PollerLedger, TLC

CONSTANTS j1, j2, f1, f2, q1, o1

\* Every submission is on the one form.
OneForm == [u \in Subs |-> f1]

JobOn(form, state) ==
  [state |-> state, owner |-> o1, form |-> form, dest |-> q1, active |-> TRUE]

\* Every job is live from the start, on the one form and queue.
LiveJobs == [j \in JobIds |-> JobOn(f1, "live")]

\* One job is live, any other is still to be created.
FirstJob == [j \in JobIds |-> JobOn(f1, IF j = j1 THEN "live" ELSE "unborn")]

SymmetricSubs == Permutations(Subs)
===============================================================================
