------------------------------ MODULE PollerClock ------------------------------
(***************************************************************************)
(* Poller with the clock of Freshness, for one job: when submissions were  *)
(* made, when each thread made the listing it works from, when the stamp   *)
(* was set. The passes of Poller are those of Freshness.                   *)
(***************************************************************************)
EXTENDS Poller

CONSTANTS
  Watched,     \* the job
  Retention, Alert, MaxPass, MaxTime, Never  \* as in Freshness

VARIABLES
  now,
  created,     \* when each submission arrived
  listedAt,    \* when each thread last made a listing
  stampedAt,   \* last_successful_poll_at of the job
  signalled    \* history: those in OS2forms at a moment that was too old

clock == <<now, created, listedAt, stampedAt, signalled>>

Form == InitialJobs[Watched].form

\* The thread has a listing that it has to work off for the job.
Passing(p) ==
  \/ \E s \in plan[p].group : s.id = Watched
  \/ pc[p] \in InJob /\ plan[p].job.id = Watched

\* What Freshness sees of the service: the form, and who has been on it ...
OnForm == {u \in Subs : FormOf[u] = Form}
Born == [u \in OnForm |-> created[u]]
Here == Listing(Form)
Purged == {u \in OnForm : source[u] = "purged"}

\* ... the submissions with a row for the job, and the passes under way.
Seen == {u \in OnForm : rows[<<Watched, u>>] # NoRow}
Listed == [p \in Pollers |-> IF Passing(p) THEN plan[p].listed ELSE {}]
Began == [p \in Pollers |-> IF Passing(p) THEN listedAt[p] ELSE Never]

Passes == INSTANCE Freshness WITH
  Submissions <- OnForm, Threads <- Pollers, created <- Born, form <- Here, gone <- Purged,
  rows <- Seen, listed <- Listed, began <- Began, stamp <- stampedAt

\* Time begins before the first submission.
ClockInit ==
  /\ Init
  /\ \A u \in Subs : source[u] = "absent"
  /\ now = 0
  /\ created = [u \in Subs |-> 0]
  /\ listedAt = [p \in Pollers |-> 0]
  /\ stampedAt = Never
  /\ signalled = {}

\* No pass takes longer than MaxPass.
Tick ==
  /\ now < MaxTime
  /\ \A p \in Pollers : Passing(p) => now < listedAt[p] + MaxPass
  /\ now' = now + 1
  /\ UNCHANGED <<vars, created, listedAt, stampedAt>>

\* mark_polled, if its job is still there.
Stamps(p) ==
  MarkPolled(p) /\ UNCHANGED left /\ plan[p].job.id = Watched /\ jobs[Watched].state = "live"

\* A step of the service and what it says of time. OS2forms purges nothing
\* before the end of its retention.
Timed ==
  /\ Next
  /\ \A u \in Subs : Purge(u) => now >= created[u] + Retention
  /\ created' = [u \in Subs |-> IF Arrive(u) THEN now ELSE created[u]]
  /\ listedAt' = [p \in Pollers |-> IF pc[p] = "groups" /\ pc'[p] = "jobs" THEN now ELSE listedAt[p]]
  /\ stampedAt' = IF \E p \in Pollers : Stamps(p) THEN now ELSE stampedAt
  /\ UNCHANGED now

ClockNext == (Tick \/ Timed) /\ Passes!Watch

ClockSpec == ClockInit /\ [][ClockNext]_<<vars, clock>>

\* The job is neither deleted nor moved to another form.
StaysOnForm == jobs[Watched].state = "live" /\ jobs[Watched].form = Form

\* "A job whose timestamp is fresher than the retention period therefore cannot
\* have lost one": the threads' passes, with all that can end or overtake them,
\* give the stamp the meaning that Freshness has for it.
PassesAreFresh == Passes!Spec
===============================================================================
