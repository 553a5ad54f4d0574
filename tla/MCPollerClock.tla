----------------------------- MODULE MCPollerClock -----------------------------
(* An instance of PollerClock for TLC: one job, one form, one queue. *)
EXTENDS PollerClock

CONSTANTS j1, f1, q1, o1

OneForm == [u \in Subs |-> f1]

OneJob == [j \in JobIds |->
  [state |-> "live", owner |-> o1, form |-> f1, dest |-> q1, active |-> TRUE]]

\* Nobody deletes or moves the job.
JobStays == StaysOnForm'

\* PassesAreFresh, of a step that does not delete or move it either.
StepsAreFresh == [][StaysOnForm /\ StaysOnForm' => [Passes!Next]_(Passes!vars)]_<<vars, clock>>

\* No submission of the job is lost in silence: Freshness says so of its passes.
LossIsSignalled == Passes!LossIsSignalled
===============================================================================
