------------------------------- MODULE Freshness -------------------------------
(***************************************************************************)
(* What last_successful_poll_at says about loss when OS2forms deletes      *)
(* submissions after a retention period (src/app/poller.py, mark_polled of *)
(* src/app/jobs.py, src/migrations/006). One job, whose passes take time:  *)
(* the listing is made when a pass begins, the stamp when it ends.         *)
(***************************************************************************)
EXTENDS Naturals, FiniteSets

CONSTANTS
  Submissions,
  Threads,     \* one poll thread in each process
  Retention,   \* OS2forms keeps a submission at least that long
  Alert,       \* the age of the stamp at which somebody is told
  MaxPass,     \* bound: the longest a pass takes (nothing in the code limits it)
  MaxTime,     \* bound: the end of time
  Never        \* NULL

ASSUME FreshnessAssumption ==
  /\ Retention \in Nat /\ Alert \in Nat /\ MaxPass \in Nat /\ MaxTime \in Nat
  /\ Never \notin Nat

VARIABLES
  now,
  created,     \* when a submission was made
  form,        \* those in OS2forms
  gone,        \* those purged
  rows,        \* those with a row
  listed,      \* of each thread: what its pass has to leave a row for
  began,       \* of each thread: when its listing was made, or Never
  stamp,       \* last_successful_poll_at
  signalled    \* history: those in OS2forms at a moment the stamp was too old

vars == <<now, created, form, gone, rows, listed, began, stamp, signalled>>

TypeOK ==
  /\ now \in Nat
  /\ created \in [Submissions -> Nat]
  /\ form \in SUBSET Submissions /\ gone \in SUBSET Submissions
  /\ rows \in SUBSET Submissions
  /\ listed \in [Threads -> SUBSET Submissions]
  /\ began \in [Threads -> Nat \cup {Never}]
  /\ stamp \in 0 .. now \cup {Never}
  /\ signalled \in SUBSET Submissions

Stale == stamp = Never \/ now - stamp >= Alert

Init ==
  /\ now = 0
  /\ created = [s \in Submissions |-> 0]
  /\ form = {} /\ gone = {} /\ rows = {}
  /\ listed = [t \in Threads |-> {}]
  /\ began = [t \in Threads |-> Never]
  /\ stamp = Never
  /\ signalled = {}

\* Whoever watches the stamp sees it go stale while these are still there.
Watch == signalled' = signalled \cup (IF Stale' THEN form' ELSE {})

-------------------------------------------------------------------------------
(* Time and OS2forms.                                                      *)

Tick ==
  /\ now < MaxTime
  /\ \A t \in Threads : began[t] # Never => now < began[t] + MaxPass
  /\ now' = now + 1
  /\ UNCHANGED <<created, form, gone, rows, listed, began, stamp>>
  /\ Watch

Submit(s) ==
  /\ s \notin form \cup gone
  /\ created' = [created EXCEPT ![s] = now]
  /\ form' = form \cup {s}
  /\ UNCHANGED <<now, gone, rows, listed, began, stamp>>
  /\ Watch

Purge(s) ==
  /\ s \in form /\ now >= created[s] + Retention
  /\ form' = form \ {s}
  /\ gone' = gone \cup {s}
  /\ UNCHANGED <<now, created, rows, listed, began, stamp>>
  /\ Watch

-------------------------------------------------------------------------------
(* The passes over the job.                                                *)

List(t) ==
  /\ began[t] = Never
  /\ began' = [began EXCEPT ![t] = now]
  /\ listed' = [listed EXCEPT ![t] = form]
  /\ UNCHANGED <<now, created, form, gone, rows, stamp>>
  /\ Watch

\* A verdict, whatever it is, leaves a row; a submission purged meanwhile is
\* not found, and its row says so.
Record(t, s) ==
  /\ began[t] # Never /\ s \in listed[t]
  /\ rows' = rows \cup {s}
  /\ UNCHANGED <<now, created, form, gone, listed, began, stamp>>
  /\ Watch

LeavePass(t) ==
  /\ began' = [began EXCEPT ![t] = Never]
  /\ listed' = [listed EXCEPT ![t] = {}]

\* Mutant: a pass is stamped however far it came.
MarkPolled_Partial(t) ==
  /\ began[t] # Never
  /\ stamp' = now
  /\ LeavePass(t)
  /\ UNCHANGED <<now, created, form, gone, rows>>
  /\ Watch

\* Mutant: the stamp is the time the next pass is due.
MarkPolled_NextDue(t) ==
  /\ began[t] # Never /\ listed[t] \subseteq rows
  /\ stamp' = now + 1
  /\ LeavePass(t)
  /\ UNCHANGED <<now, created, form, gone, rows>>
  /\ Watch

MarkPolled(t) ==
  /\ began[t] # Never /\ listed[t] \subseteq rows
  /\ stamp' = now
  /\ LeavePass(t)
  /\ UNCHANGED <<now, created, form, gone, rows>>
  /\ Watch

\* An abort, a stop, a crash, or a stamp that could not be written; a commit
\* that was not heard of may be what ended the pass.
Abandon(t) ==
  /\ began[t] # Never
  /\ \/ UNCHANGED rows
     \/ \E s \in listed[t] : rows' = rows \cup {s}
  /\ LeavePass(t)
  /\ UNCHANGED <<now, created, form, gone, stamp>>
  /\ Watch

Next ==
  \/ Tick
  \/ \E s \in Submissions : Submit(s) \/ Purge(s)
  \/ \E t \in Threads : List(t) \/ MarkPolled(t) \/ Abandon(t)
  \/ \E t \in Threads, s \in Submissions : Record(t, s)

Spec == Init /\ [][Next]_vars

-------------------------------------------------------------------------------
\* "A job whose timestamp is fresher than the retention period therefore cannot
\* have lost one": a submission purged before the poller had seen it was in
\* OS2forms at a moment when the stamp was old enough to raise the alarm. What
\* counts as old, and the length of a pass, are the constants' to say.
LossIsSignalled == gone \ rows \subseteq signalled \cup UNION {listed[t] : t \in Threads}
===============================================================================
