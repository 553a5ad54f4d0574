-------------------------------- MODULE Poller --------------------------------
(***************************************************************************)
(* The service: poll threads (src/app/poller.py), the management API that  *)
(* changes jobs and resets submissions under them                          *)
(* (src/app/api/jobs_routes.py), the database between the two, and the two *)
(* systems outside, OS2forms (the source) and the Automation Server (the   *)
(* destination), as the adapters see them.                                 *)
(*                                                                         *)
(* A poll thread is sequential, but each of its steps below is a call that *)
(* leaves the process (a transaction, an HTTP request) or a check of the   *)
(* stop flag, so everything else may happen between two of them:           *)
(*                                                                         *)
(*  down -> boot -> idle -> groups -> jobs -> refs -> create -> fetch -> resolve   *)
(*       -> guard -> post -> record -> refs ... refs -> mark -> jobs ...   *)
(***************************************************************************)
EXTENDS SubmissionState, Failures

CONSTANTS
  JobIds,        \* PollJob.id: an identity column, never reused
  Owners, Forms,
  Dests,         \* values of destination_system the API accepts ...
  Queues,        \* ... and those among them that name a queue
  Subs,          \* submission uuids
  FormOf,        \* the form each submission belongs to
  InitialJobs,   \* the PollJob table at the start
  Pollers,       \* processes, each of which runs one poll thread
  Requests,      \* concurrent retry requests
  MaxTries,      \* stop_after_attempt of one request
  ListShapes,    \* whether a listing may carry serials: a subset of BOOLEAN
  Quirks,        \* the rarer faults that may occur, a subset of the set below
  None,
  Faults, Crashes, Ops  \* bounds: failures, stops and kills, API writes

\* lost_reply: an add takes effect and its reply does not arrive.
\* blind_guard: the lookup by reference is answered with an unexpected 4xx.
\* boot_fault: the database fails the bootstrap of a poll thread.
AllQuirks == {"lost_reply", "blind_guard", "boot_fault"}

Job == [state : {"unborn", "live", "gone"}, owner : Owners, form : Forms,
        dest : Dests, active : BOOLEAN]

ASSUME PollerAssumption ==
  /\ Queues \subseteq Dests
  /\ FormOf \in [Subs -> Forms]
  /\ InitialJobs \in [JobIds -> Job]
  /\ MaxTries \in Nat \ {0}
  /\ ListShapes \subseteq BOOLEAN
  /\ Quirks \subseteq AllQuirks
  /\ Faults \in Nat /\ Crashes \in Nat /\ Ops \in Nat

VARIABLES
  jobs,      \* table PollJob
  rows,      \* table SubmissionPollStatus
  stamp,     \* PollJob.last_successful_poll_at, as what the stamped pass listed
  source,    \* the submissions in OS2forms
  items,     \* number of work items per queue and reference
  pc, plan, txn,  \* each poll thread: where it is, its cycle, its transaction
  stop,      \* each poll thread's stop event
  request,   \* each retry request between its read and its commit
  left       \* what the bounds leave

vars == <<jobs, rows, stamp, source, items, pc, plan, txn, stop, request, left>>

Keys == JobIds \X Subs

\* A job as the cycle loaded it: detached, so later edits do not reach it.
Snapshot == [id : JobIds, form : Forms, dest : Dests]

Plan == [todo   : SUBSET Snapshot,      \* jobs of the groups still to come
         group  : SUBSET Snapshot,      \* jobs of this group still to come
         listed : SUBSET Subs,          \* refs of this group ...
         known  : BOOLEAN,              \* ... and whether they carry serials
         job    : Snapshot \cup {None}, \* the job in hand
         rest   : SUBSET Subs,          \* its refs still to come
         queueKnown : BOOLEAN]          \* its queue's id is cached

EmptyPlan == [todo |-> {}, group |-> {}, listed |-> {}, known |-> FALSE,
              job |-> None, rest |-> {}, queueKnown |-> FALSE]

\* The row as read (NoRow: inserted, and locked until the commit), the row as
\* it will be written, and the failed tries of the request under way.
Txn == [sub : Subs, old : RowOrNone, cur : RowOrNone, tries : 0..(MaxTries - 1)]

Retry == [key : Keys, old : Row]

Locations == {"down", "boot", "dead", "idle", "groups", "jobs", "refs", "create", "fetch",
              "resolve", "guard", "post", "record", "mark"}

\* Where a thread holds a row it has read or inserted.
Holding == {"fetch", "resolve", "guard", "post", "record"}

InTxn == Holding \cup {"create"}

InJob == InTxn \cup {"refs", "mark"}

TypeOK ==
  /\ jobs \in [JobIds -> Job]
  /\ rows \in [Keys -> RowOrNone]
  /\ stamp \in [JobIds -> (SUBSET Subs) \cup {None}]
  /\ source \in [Subs -> {"absent", "present", "purged"}]
  /\ items \in [Queues \X Subs -> Nat]
  /\ pc \in [Pollers -> Locations]
  /\ plan \in [Pollers -> Plan]
  /\ txn \in [Pollers -> Txn \cup {None}]
  /\ stop \in [Pollers -> BOOLEAN]
  /\ request \in [Requests -> Retry \cup {None}]
  /\ left \in [{"faults", "crashes", "ops"} -> Nat]

Init ==
  /\ jobs = InitialJobs
  /\ rows = [k \in Keys |-> NoRow]
  /\ stamp = [j \in JobIds |-> None]
  /\ source \in [Subs -> {"absent", "present"}]
  /\ items = [k \in Queues \X Subs |-> 0]
  /\ pc = [p \in Pollers |-> "boot"]
  /\ plan = [p \in Pollers |-> EmptyPlan]
  /\ txn = [p \in Pollers |-> None]
  /\ stop = [p \in Pollers |-> FALSE]
  /\ request = [r \in Requests |-> None]
  /\ left = [b \in {"faults", "crashes", "ops"} |->
               CASE b = "faults" -> Faults [] b = "crashes" -> Crashes [] OTHER -> Ops]

-------------------------------------------------------------------------------
(* Helpers.                                                                *)

Spend(bound) == left[bound] > 0 /\ left' = [left EXCEPT ![bound] = @ - 1]

\* A reply other than the one due is a fault.
Receive(reply, due) == IF reply = due THEN UNCHANGED left ELSE Spend("faults")

GoTo(p, place) == pc' = [pc EXCEPT ![p] = place]

Key(p) == <<plan[p].job.id, txn[p].sub>>

\* The destination's key for the submission in hand: its uuid, per queue.
Reference(p) == <<plan[p].job.dest, txn[p].sub>>

\* Mutant: the lookup by reference is skipped.
ItemThere_NoLookup(p) == FALSE

\* An item with that reference is on the queue.
ItemThere(p) == items[Reference(p)] > 0

Inserting(p) == pc[p] \in Holding /\ txn[p].old = NoRow

\* Mutant: the loop does not catch what leaves poll_once.
AbandonCycle_KillsThread(p) ==
  /\ GoTo(p, "dead")
  /\ plan' = [plan EXCEPT ![p] = EmptyPlan]
  /\ txn' = [txn EXCEPT ![p] = None]

\* An exception left poll_once: the loop logs it and waits for the next cycle.
AbandonCycle(p) ==
  /\ GoTo(p, "idle")
  /\ plan' = [plan EXCEPT ![p] = EmptyPlan]
  /\ txn' = [txn EXCEPT ![p] = None]

\* The transaction is decided: only its commit remains.
Settle(p, row) ==
  /\ txn' = [txn EXCEPT ![p].cur = row]
  /\ GoTo(p, "record")
  /\ UNCHANGED plan

\* session.rollback(), then on to the group's next job ...
AbortJob(p) ==
  /\ txn' = [txn EXCEPT ![p] = None]
  /\ plan' = [plan EXCEPT ![p] = [plan[p] EXCEPT !.job = None, !.rest = {}, !.queueKnown = FALSE]]
  /\ GoTo(p, "jobs")

\* ... or past all of them, to the next group.
AbortGroup(p) ==
  /\ txn' = [txn EXCEPT ![p] = None]
  /\ plan' = [plan EXCEPT ![p] = [EmptyPlan EXCEPT !.todo = plan[p].todo]]
  /\ GoTo(p, "groups")

\* Mutant: an abort_job breaks out of the loop over the refs instead of leaving
\* the job, and so reaches _mark_polled.
React_AbortStamps(p, error) ==
  \/ Classify(error) = "failed"      /\ Settle(p, MarkFailure(txn[p].cur))
  \/ Classify(error) = "dead_letter" /\ Settle(p, MarkDeadLetter(txn[p].cur))
  \/ /\ Classify(error) = "abort_job"
     /\ txn' = [txn EXCEPT ![p] = None] /\ GoTo(p, "mark") /\ UNCHANGED plan
  \/ Classify(error) = "abort_group" /\ AbortGroup(p)

\* The except clause of _process_submission.
React(p, error) ==
  \/ Classify(error) = "failed"      /\ Settle(p, MarkFailure(txn[p].cur))
  \/ Classify(error) = "dead_letter" /\ Settle(p, MarkDeadLetter(txn[p].cur))
  \/ Classify(error) = "abort_job"   /\ AbortJob(p)
  \/ Classify(error) = "abort_group" /\ AbortGroup(p)
-------------------------------------------------------------------------------
(* The poll cycle.                                                         *)

ActiveJobs ==
  {[id |-> j, form |-> jobs[j].form, dest |-> jobs[j].dest] :
     j \in {i \in JobIds : jobs[i].state = "live" /\ jobs[i].active}}

\* The thread runs the migrations before it enters the loop that survives every
\* exception: one that leaves them ends the thread, and the process lives on.
Boot(p) ==
  /\ pc[p] = "boot"
  /\ \/ GoTo(p, "idle") /\ UNCHANGED left
     \/ "boot_fault" \in Quirks /\ Spend("faults") /\ GoTo(p, "dead")
  /\ UNCHANGED <<jobs, rows, stamp, source, items, plan, txn, stop, request>>

\* Mutant: the loop goes on whatever the stop flag says.
LoadActive_IgnoresStop(p) ==
  /\ pc[p] = "idle"
  /\ plan' = [plan EXCEPT ![p].todo = ActiveJobs]
  /\ GoTo(p, "groups")
  /\ UNCHANGED <<jobs, rows, stamp, source, items, txn, stop, request, left>>

\* _load_active_groups: one read of the job table serves the whole cycle.
LoadActive(p) ==
  /\ pc[p] = "idle" /\ ~stop[p]
  /\ plan' = [plan EXCEPT ![p].todo = ActiveJobs]
  /\ GoTo(p, "groups")
  /\ UNCHANGED <<jobs, rows, stamp, source, items, txn, stop, request, left>>

\* list_submissions: the refs of every page, each once. The pages are read as one.
Listing(form) == {u \in Subs : source[u] = "present" /\ FormOf[u] = form}

\* The head of _process_group. The stop flag is not looked at here.
ListGroup(p) ==
  /\ pc[p] = "groups"
  /\ \E s \in plan[p].todo :
       LET group == {t \in plan[p].todo : t.form = s.form} IN
       \/ \E known \in ListShapes :
            /\ plan' = [plan EXCEPT ![p] =
                 [plan[p] EXCEPT !.todo = @ \ group,
                           !.group = group,
                           !.listed = Listing(s.form),
                           !.known = known]]
            /\ GoTo(p, "jobs")
            /\ UNCHANGED left
       \/ /\ Spend("faults")
          /\ plan' = [plan EXCEPT ![p].todo = @ \ group]
          /\ UNCHANGED pc
  /\ UNCHANGED <<jobs, rows, stamp, source, items, txn, stop, request>>

EndCycle(p) ==
  /\ pc[p] = "groups" /\ plan[p].todo = {}
  /\ GoTo(p, "idle")
  /\ UNCHANGED <<jobs, rows, stamp, source, items, plan, txn, stop, request, left>>

\* The next job of the group, if its destination can be built.
NextJob(p) ==
  /\ pc[p] = "jobs" /\ ~stop[p]
  /\ \E s \in plan[p].group :
       \/ /\ s.dest \in Queues
          /\ plan' = [plan EXCEPT ![p] =
               [plan[p] EXCEPT !.group = @ \ {s}, !.job = s, !.rest = plan[p].listed]]
          /\ GoTo(p, "refs")
       \/ /\ s.dest \notin Queues
          /\ plan' = [plan EXCEPT ![p].group = @ \ {s}]
          /\ UNCHANGED pc
  /\ UNCHANGED <<jobs, rows, stamp, source, items, txn, stop, request, left>>

EndGroup(p) ==
  /\ pc[p] = "jobs" /\ (stop[p] \/ plan[p].group = {})
  /\ AbortGroup(p)
  /\ UNCHANGED <<jobs, rows, stamp, source, items, stop, request, left>>

\* Stopped in mid-pass: the job goes unstamped.
LeaveJob(p) ==
  /\ pc[p] = "refs" /\ stop[p] /\ plan[p].rest # {}
  /\ AbortJob(p)
  /\ UNCHANGED <<jobs, rows, stamp, source, items, stop, request, left>>

\* The read that opens a submission's transaction. A terminal row is skipped,
\* and its serial filled in, within the same transaction.
Lookup(p) ==
  /\ pc[p] = "refs" /\ ~stop[p]
  /\ \E u \in plan[p].rest :
       LET k   == <<plan[p].job.id, u>>
           row == rows[k]
       IN
       /\ plan' = [plan EXCEPT ![p].rest = @ \ {u}]
       /\ \/ /\ row.status \in TerminalStates
             /\ rows' = [rows EXCEPT ![k] = BackfillSerial(row, plan[p].known)]
             /\ UNCHANGED <<pc, txn>>
          \/ /\ row = NoRow
             /\ txn' = [txn EXCEPT ![p] =
                  [sub |-> u, old |-> NoRow, cur |-> NewRow(plan[p].known), tries |-> 0]]
             /\ GoTo(p, "create")
             /\ UNCHANGED rows
          \/ /\ row # NoRow /\ row.status \notin TerminalStates
             /\ txn' = [txn EXCEPT ![p] =
                  [sub |-> u, old |-> row, cur |-> BackfillSerial(row, plan[p].known), tries |-> 0]]
             /\ GoTo(p, "fetch")
             /\ UNCHANGED rows
  /\ UNCHANGED <<jobs, stamp, source, items, stop, request, left>>

\* Mutant: the insert is committed at once instead of flushed.
Create_Commits(p) ==
  /\ pc[p] = "create"
  /\ \/ /\ jobs[plan[p].job.id].state = "live" /\ rows[Key(p)] = NoRow
        /\ rows' = [rows EXCEPT ![Key(p)] = txn[p].cur]
        /\ GoTo(p, "fetch")
        /\ UNCHANGED <<plan, txn>>
     \/ /\ jobs[plan[p].job.id].state # "live" \/ rows[Key(p)] # NoRow
        /\ AbandonCycle(p)
        /\ UNCHANGED rows
  /\ UNCHANGED <<jobs, stamp, source, items, stop, request, left>>

\* The INSERT of get_or_create. It waits for an uncommitted insert of the same
\* key, and fails on the unique key or, the job being gone, on the foreign key.
Create(p) ==
  /\ pc[p] = "create"
  /\ \A q \in Pollers : ~(Inserting(q) /\ Key(q) = Key(p))
  /\ \/ /\ jobs[plan[p].job.id].state = "live" /\ rows[Key(p)] = NoRow
        /\ GoTo(p, "fetch")
        /\ UNCHANGED <<plan, txn>>
     \/ /\ jobs[plan[p].job.id].state # "live" \/ rows[Key(p)] # NoRow
        /\ AbandonCycle(p)
  /\ UNCHANGED <<jobs, rows, stamp, source, items, stop, request, left>>

\* get_submission and build_workitem_payload. A read may be tried again without
\* effect, so the reply that ends the tries stands for all of them.
Fetch(p) ==
  /\ pc[p] = "fetch"
  /\ LET due == IF source[txn[p].sub] = "present" THEN "ok" ELSE "missing" IN
     \/ \E reply \in Replies :
          /\ reply = "ok" => due = "ok"
          /\ Receive(reply, due)
          /\ \/ /\ SourceGet(reply) = NoError
                /\ GoTo(p, IF plan[p].queueKnown THEN "guard" ELSE "resolve")
                /\ UNCHANGED <<plan, txn>>
             \/ /\ SourceGet(reply) # NoError
                /\ React(p, SourceGet(reply))
     \/ /\ due = "ok"
        /\ Spend("faults")
        /\ \E error \in PayloadErrors : React(p, error)
  /\ UNCHANGED <<jobs, rows, stamp, source, items, stop, request>>

\* deliver, first part: the queue's id, asked for once per job and pass.
ResolveQueueId(p) ==
  /\ pc[p] = "resolve"
  /\ \E reply \in Replies :
       /\ Receive(reply, "ok")
       /\ \/ /\ ResolveQueue(reply) = NoError
             /\ plan' = [plan EXCEPT ![p].queueKnown = TRUE]
             /\ GoTo(p, "guard")
             /\ UNCHANGED txn
          \/ /\ ResolveQueue(reply) # NoError
             /\ React(p, ResolveQueue(reply))
  /\ UNCHANGED <<jobs, rows, stamp, source, items, stop, request>>

\* deliver, second part: is there an item with this reference already? A
\* lookup that answers at all answers truthfully, but for blind_guard.
AlreadyDelivered(p) ==
  /\ pc[p] = "guard"
  /\ LET due == IF ItemThere(p) THEN "ok" ELSE "missing" IN
     \E reply \in {due, "auth", "garbled", "client"} \cup Transient :
       /\ reply = "client" => "blind_guard" \in Quirks
       /\ Receive(reply, due)
       /\ \/ reply = "ok" /\ Settle(p, MarkDelivered(txn[p].cur))
          \/ /\ reply # "ok" /\ LookupReference(reply) = NoError
             /\ GoTo(p, "post")
             /\ UNCHANGED <<plan, txn>>
          \/ LookupReference(reply) # NoError /\ React(p, LookupReference(reply))
  /\ UNCHANGED <<jobs, rows, stamp, source, items, stop, request>>

\* What an add answered with `reply` may have done.
AddEffects(reply) ==
  CASE reply \in {"ok", "shapeless"} -> {TRUE}
    [] reply = "garbled"             -> BOOLEAN
    [] reply \in Transient           -> IF "lost_reply" \in Quirks THEN BOOLEAN ELSE {FALSE}
    [] OTHER                         -> {FALSE}

\* Mutant: no limit on the tries.
TriesAgain_Unlimited(p, reply) == reply \in Transient

TriesAgain(p, reply) == reply \in Transient /\ txn[p].tries + 1 < MaxTries

\* deliver, third part, one try of the add. A try whose reply is lost, throttled
\* or a server error is repeated without asking for the reference again.
Post(p) ==
  /\ pc[p] = "post"
  /\ \E reply \in Replies :
       /\ Receive(reply, "ok")
       /\ \E added \in AddEffects(reply) :
            items' = IF added THEN [items EXCEPT ![Reference(p)] = @ + 1] ELSE items
       /\ \/ /\ TriesAgain(p, reply)
             /\ txn' = [txn EXCEPT ![p].tries = @ + 1]
             /\ UNCHANGED <<pc, plan>>
          \/ /\ ~TriesAgain(p, reply) /\ AddItem(reply) # NoError
             /\ React(p, AddItem(reply))
          \/ AddItem(reply) = NoError /\ Settle(p, MarkDelivered(txn[p].cur))
  /\ UNCHANGED <<jobs, rows, stamp, source, stop, request>>

\* What the commit leaves in the table.
Committed(p) ==
  [rows EXCEPT ![Key(p)] =
     IF txn[p].old = NoRow THEN txn[p].cur ELSE WriteBack(@, txn[p].old, txn[p].cur)]

\* The commit. An UPDATE that finds no row is an error that ends the cycle.
Record(p) ==
  /\ pc[p] = "record"
  /\ \/ /\ txn[p].old = NoRow \/ rows[Key(p)] # NoRow
        /\ rows' = Committed(p)
        /\ txn' = [txn EXCEPT ![p] = None]
        /\ GoTo(p, "refs")
        /\ UNCHANGED plan
     \/ /\ txn[p].old # NoRow /\ rows[Key(p)] = NoRow
        /\ AbandonCycle(p)
        /\ UNCHANGED rows
  /\ UNCHANGED <<jobs, stamp, source, items, stop, request, left>>

\* The loop over the refs ran to its end, whatever the stop flag says by now.
EndPass(p) ==
  /\ pc[p] = "refs" /\ plan[p].rest = {}
  /\ GoTo(p, "mark")
  /\ UNCHANGED <<jobs, rows, stamp, source, items, plan, txn, stop, request, left>>

\* _mark_polled, whose failure is swallowed, and the gap check, which only reads.
MarkPolled(p) ==
  /\ pc[p] = "mark"
  /\ \/ /\ stamp' = [stamp EXCEPT ![plan[p].job.id] =
                       IF jobs[plan[p].job.id].state = "live" THEN plan[p].listed ELSE @]
        /\ UNCHANGED left
     \/ Spend("faults") /\ UNCHANGED stamp
  /\ AbortJob(p)
  /\ UNCHANGED <<jobs, rows, source, items, stop, request>>

-------------------------------------------------------------------------------
(* What can end a cycle, or the process, at any point.                     *)

\* The database fails a transaction: at the read, the insert or the commit,
\* whose effect may have been made durable before the connection was lost.
DatabaseFault(p) ==
  /\ pc[p] \in {"refs", "create", "record"}
  /\ pc[p] = "refs" => plan[p].rest # {}
  /\ Spend("faults")
  /\ \/ UNCHANGED rows
     \/ /\ pc[p] = "record"
        /\ txn[p].old = NoRow \/ rows[Key(p)] # NoRow
        /\ rows' = Committed(p)
  /\ AbandonCycle(p)
  /\ UNCHANGED <<jobs, stamp, source, items, stop, request>>

\* Shutdown asks the thread to stop ...
Stop(p) ==
  /\ pc[p] # "down" /\ ~stop[p]
  /\ Spend("crashes")
  /\ stop' = [stop EXCEPT ![p] = TRUE]
  /\ UNCHANGED <<jobs, rows, stamp, source, items, pc, plan, txn, request>>

\* ... which run_forever heeds between cycles, the process then ending. There is
\* nothing to wait for if the thread has died.
EndLoop(p) ==
  /\ pc[p] \in {"idle", "dead"} /\ stop[p]
  /\ GoTo(p, "down")
  /\ UNCHANGED <<jobs, rows, stamp, source, items, plan, txn, stop, request, left>>

\* The process is killed, or its shutdown gives up waiting for the thread.
Crash(p) ==
  /\ pc[p] # "down"
  /\ Spend("crashes")
  /\ pc' = [pc EXCEPT ![p] = "down"]
  /\ plan' = [plan EXCEPT ![p] = EmptyPlan]
  /\ txn' = [txn EXCEPT ![p] = None]
  /\ UNCHANGED <<jobs, rows, stamp, source, items, stop, request>>

\* lifespan starts the process again, with a fresh service and thread.
Start(p) ==
  /\ pc[p] = "down"
  /\ GoTo(p, "boot")
  /\ stop' = [stop EXCEPT ![p] = FALSE]
  /\ UNCHANGED <<jobs, rows, stamp, source, items, plan, txn, request, left>>

-------------------------------------------------------------------------------
(* OS2forms: citizens submit, retention purges.                            *)

Arrive(u) ==
  /\ source[u] = "absent"
  /\ source' = [source EXCEPT ![u] = "present"]
  /\ UNCHANGED <<jobs, rows, stamp, items, pc, plan, txn, stop, request, left>>

Purge(u) ==
  /\ source[u] = "present"
  /\ source' = [source EXCEPT ![u] = "purged"]
  /\ UNCHANGED <<jobs, rows, stamp, items, pc, plan, txn, stop, request, left>>

-------------------------------------------------------------------------------
(* The management API.                                                     *)

\* UNIQUE (owner, webformId, destination_system).
Collides(j, job) ==
  \E i \in JobIds \ {j} :
    /\ jobs[i].state = "live"
    /\ jobs[i].owner = job.owner /\ jobs[i].form = job.form /\ jobs[i].dest = job.dest

CreateJob(j) ==
  /\ jobs[j].state = "unborn"
  /\ Spend("ops")
  /\ \E job \in Job :
       /\ job.state = "live" /\ ~Collides(j, job)
       /\ jobs' = [jobs EXCEPT ![j] = job]
  /\ UNCHANGED <<rows, stamp, source, items, pc, plan, txn, stop, request>>

\* PUT or PATCH: any column of the job, but never its stamp.
UpdateJob(j) ==
  /\ jobs[j].state = "live"
  /\ Spend("ops")
  /\ \E job \in Job :
       /\ job.state = "live" /\ job # jobs[j] /\ ~Collides(j, job)
       /\ jobs' = [jobs EXCEPT ![j] = job]
  /\ UNCHANGED <<rows, stamp, source, items, pc, plan, txn, stop, request>>

\* The cascade takes the job's rows with it, and so waits for an insert under
\* way that the job's deletion would orphan.
DeleteJob(j) ==
  /\ jobs[j].state = "live"
  /\ \A p \in Pollers : ~(Inserting(p) /\ plan[p].job.id = j)
  /\ Spend("ops")
  /\ jobs' = [jobs EXCEPT ![j].state = "gone"]
  /\ rows' = [k \in Keys |-> IF k[1] = j THEN NoRow ELSE rows[k]]
  /\ stamp' = [stamp EXCEPT ![j] = None]
  /\ UNCHANGED <<source, items, pc, plan, txn, stop, request>>

\* retry_submission: the handler changes a row it has read and answers 202; the
\* session's commit follows.
RetryLoad(r) ==
  /\ request[r] = None
  /\ Spend("ops")
  /\ \E k \in Keys :
       /\ rows[k] # NoRow
       /\ request' = [request EXCEPT ![r] = [key |-> k, old |-> rows[k]]]
  /\ UNCHANGED <<jobs, rows, stamp, source, items, pc, plan, txn, stop>>

RetryCommit(r) ==
  /\ request[r] # None
  /\ LET k == request[r].key IN
     rows' = IF rows[k] = NoRow THEN rows
             ELSE [rows EXCEPT ![k] =
                     WriteBack(@, request[r].old, ResetForRetry(request[r].old))]
  /\ request' = [request EXCEPT ![r] = None]
  /\ UNCHANGED <<jobs, stamp, source, items, pc, plan, txn, stop, left>>

\* The commit fails, or the process dies before it.
RetryFail(r) ==
  /\ request[r] # None
  /\ Spend("faults")
  /\ request' = [request EXCEPT ![r] = None]
  /\ UNCHANGED <<jobs, rows, stamp, source, items, pc, plan, txn, stop>>

-------------------------------------------------------------------------------
\* What a running poll thread does of its own accord.
PollStep(p) ==
  \/ LoadActive(p) \/ ListGroup(p) \/ EndCycle(p)
  \/ NextJob(p) \/ EndGroup(p)
  \/ LeaveJob(p) \/ Lookup(p) \/ EndPass(p) \/ MarkPolled(p)
  \/ Create(p) \/ Fetch(p) \/ ResolveQueueId(p) \/ AlreadyDelivered(p)
  \/ Post(p) \/ Record(p)
  \/ Boot(p) \/ EndLoop(p)

Next ==
  \/ \E p \in Pollers : PollStep(p) \/ DatabaseFault(p) \/ Stop(p) \/ Crash(p) \/ Start(p)
  \/ \E u \in Subs : Arrive(u) \/ Purge(u)
  \/ \E j \in JobIds : CreateJob(j) \/ UpdateJob(j) \/ DeleteJob(j)
  \/ \E r \in Requests : RetryLoad(r) \/ RetryCommit(r) \/ RetryFail(r)

Spec == Init /\ [][Next]_vars

\* The thread keeps running (run_forever survives every exception), a request
\* that was answered commits or fails, and the platform restarts the process.
Fairness ==
  /\ \A p \in Pollers : WF_vars(PollStep(p)) /\ WF_vars(Start(p))
  /\ \A r \in Requests : WF_vars(RetryCommit(r))

FairSpec == Spec /\ Fairness

-------------------------------------------------------------------------------
(* Safety.                                                                 *)

\* A submission is put on a queue once: whatever fails, crashes or is retried,
\* the by-reference guard and the state table together never let a single poll
\* thread add a second item for the same reference (given that no add loses its
\* reply and the guard can see: the runs for those quirks show what happens).
AtMostOneItem == \A k \in Queues \X Subs : items[k] <= 1

\* A row that says delivered, or ever said so (delivered_at outlives a retry),
\* stands for an item that was really added under that reference: mark_delivered
\* comes after deliver, and no rollback, stale write or reset can fake it.
DeliveredIsReal ==
  \A k \in Keys :
    /\ rows[k].status = "delivered" => rows[k].deliveredAt
    /\ rows[k].deliveredAt => \E q \in Queues : items[<<q, k[2]>>] > 0

\* A job's stamp attests a full pass: every submission that pass listed has a
\* row for the job, whatever was stopped, aborted, rolled back or reset since.
StampAttestsRows ==
  \A j \in JobIds :
    stamp[j] # None => \A u \in stamp[j] : rows[<<j, u>>] # NoRow

\* A failed row still has attempts to spend, even when a retry request and a
\* poll thread (or two) write to it from stale copies: no row waits for ever
\* in a state that is neither retried in earnest nor reported as dead_letter.
FailedHasBudget ==
  \A k \in Keys : rows[k].status = "failed" => rows[k].attempts < MaxAttempts

\* A row first reaches the table with a verdict on its submission: the pending
\* insert of a job that aborts, a cycle that dies or a crash leaves nothing.
RowsBornWithVerdict ==
  [][\A k \in Keys :
       rows[k] = NoRow /\ rows'[k] # NoRow =>
         rows'[k].status \in {"delivered", "failed", "dead_letter"}]_vars

\* The poll loop never undoes delivered or dead_letter: a row leaves them only
\* for new (a retry request) or with its job.
TerminalIsFinal ==
  [][\A k \in Keys :
       rows[k].status \in {"delivered", "dead_letter"} =>
         rows'[k].status \in {rows[k].status, "new", "none"}]_vars

\* A serial once on record stays: neither a listing without serials nor a
\* write from a copy older than the backfill takes it away.
SerialIsKept ==
  [][\A k \in Keys : rows[k].serial => rows'[k] = NoRow \/ rows'[k].serial]_vars

\* The endpoint resets "a failed/dead_letter row to `new` so the next cycle
\* retries it": a failure that began before the reset must not park the row.
ResetIsHonoured ==
  [][\A p \in Pollers :
       /\ Record(p)
       /\ rows[Key(p)].status = "new"
       /\ rows'[Key(p)].status = "dead_letter"
       => txn[p].old.status \in {"new", "none"}]_vars

\* The same words say which rows: a delivered one is not reset.
DeliveredIsNotReset ==
  [][\A k \in Keys : rows[k].status = "delivered" => rows'[k].status # "new"]_vars

-------------------------------------------------------------------------------
(* Liveness, under FairSpec.                                               *)

\* The job ought to take the submission and has not settled what became of it.
Owed(j, u) ==
  /\ source[u] = "present"
  /\ jobs[j].state = "live" /\ jobs[j].active
  /\ jobs[j].form = FormOf[u] /\ jobs[j].dest \in Queues
  /\ rows[<<j, u>>].status \notin {"delivered", "dead_letter"}

\* Every submission on an active job's form is delivered or dead-lettered in the
\* end, over any finite number of failures, aborted passes, crashes and retries.
EverySubmissionSettles ==
  \A j \in JobIds, u \in Subs : Owed(j, u) ~> ~Owed(j, u)

\* A thread asked to stop does stop, whatever cycle it is in.
StopIsHeeded == \A p \in Pollers : stop[p] ~> pc[p] = "down"

\* "The loop survives transient errors; it runs until stop()": from wherever a
\* failure leaves the thread, it comes back to begin another cycle.
LoopSurvives == \A p \in Pollers : []<>(pc[p] = "idle" \/ stop[p])
===============================================================================
