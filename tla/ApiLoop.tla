-------------------------------- MODULE ApiLoop --------------------------------
(***************************************************************************)
(* The API and the poll thread at the database. The handlers of            *)
(* src/app/api/jobs_routes.py are coroutines that call the database and    *)
(* wait for it on the event loop, so a handler that waits for a row lock   *)
(* or for a connection keeps every other request of the process waiting.   *)
(* FastAPI runs the end of the session dependency (the commit of           *)
(* src/app/api/deps.py) in a worker thread after the response; it is the   *)
(* loop that hands it over, and other requests may come first.             *)
(***************************************************************************)
EXTENDS Naturals, Sequences, FiniteSets

CONSTANTS
  Requests, JobIds,
  KindsOf,       \* what each request may be ...
  TargetOf,      \* ... and the job it is about
  ReadersWait,   \* a read waits for an uncommitted write (no row versioning)
  PoolSize,      \* connections of the engine, overflow included
  Poll, None

Kinds == {"get", "list", "submissions", "create", "update", "delete", "retry"}

ASSUME ApiLoopAssumption ==
  /\ KindsOf \in [Requests -> SUBSET Kinds]
  /\ TargetOf \in [Requests -> JobIds]
  /\ ReadersWait \in BOOLEAN
  /\ PoolSize \in Nat \ {0}
  /\ Poll \notin Requests /\ None \notin Requests \cup {Poll}

Actors == Requests \cup {Poll}

\* The row of a job, and a submission of it that both sides work on.
Job(j) == <<"job", j>>
Sub(j) == <<"submission", j>>
Rows == {"job", "submission"} \X JobIds

\* A read keeps no lock and a check (of a foreign key) neither, but the check
\* waits whatever the isolation level; a write locks its rows to the commit.
Read(on)  == [mode |-> "read", on |-> on]
Check(on) == [mode |-> "check", on |-> on]
Write(on) == [mode |-> "write", on |-> on]
Statements == [mode : {"read", "check", "write"}, on : SUBSET Rows]

VARIABLES
  kind,   \* of each request
  at,     \* where each request and the poll thread is
  todo,   \* the statements of its transaction still to come
  loop,   \* the request that has the event loop
  conns,  \* who has a connection
  lock    \* who has each row

vars == <<kind, at, todo, loop, conns, lock>>

Places == {"ready", "handler", "answered", "refused", "commit", "rollback", "closed"}
PollPlaces == {"idle", "load", "loaded", "deliver", "delivered", "stamp"}

TypeOK ==
  /\ kind \in [Requests -> Kinds]
  /\ at \in [Actors -> Places \cup PollPlaces]
  /\ \A r \in Requests : at[r] \in Places
  /\ at[Poll] \in PollPlaces
  /\ todo \in [Actors -> Seq(Statements)]
  /\ loop \in Requests \cup {None}
  /\ conns \in SUBSET Actors /\ IsFiniteSet(conns) /\ Cardinality(conns) <= PoolSize
  /\ lock \in [Rows -> Actors \cup {None}]

Init ==
  /\ kind \in {f \in [Requests -> Kinds] : \A r \in Requests : f[r] \in KindsOf[r]}
  /\ at = [a \in Actors |-> IF a = Poll THEN "idle" ELSE "ready"]
  /\ todo = [a \in Actors |-> <<>>]
  /\ loop = None
  /\ conns = {}
  /\ lock = [x \in Rows |-> None]

-------------------------------------------------------------------------------
(* Transactions.                                                           *)

\* Mutant: a deletion is flushed by its handler, as an update is.
InHandler_DeleteFlushes(r) ==
  LET job == {Job(TargetOf[r])}
      sub == {Sub(TargetOf[r])}
  IN CASE kind[r] = "list"   -> <<Read({Job(j) : j \in JobIds})>>
       [] kind[r] = "create" -> <<Write(job)>>
       [] kind[r] \in {"update", "delete"} -> <<Read(job), Write(job)>>
       [] kind[r] \in {"submissions", "retry"} -> <<Read(job), Read(sub)>>
       [] kind[r] = "get" -> <<Read(job)>>

\* What a handler asks of the database itself. A create and an update flush.
InHandler(r) ==
  LET job == {Job(TargetOf[r])}
      sub == {Sub(TargetOf[r])}
  IN CASE kind[r] = "list"   -> <<Read({Job(j) : j \in JobIds})>>
       [] kind[r] = "create" -> <<Write(job)>>
       [] kind[r] = "update" -> <<Read(job), Write(job)>>
       [] kind[r] \in {"submissions", "retry"} -> <<Read(job), Read(sub)>>
       [] kind[r] \in {"get", "delete"} -> <<Read(job)>>

\* What is left to the commit: a deletion, with its cascade, and a reset.
AtExit(r) ==
  CASE kind[r] = "delete" -> <<Write({Job(TargetOf[r])}), Write({Sub(TargetOf[r])})>>
    [] kind[r] = "retry"  -> <<Write({Sub(TargetOf[r])})>>
    [] OTHER -> <<>>

\* The thread's transactions on a submission it finds new, or on record.
Deliveries(j) ==
  {<<Read({Sub(j)}), Write({Sub(j)}), Check({Job(j)})>>, <<Read({Sub(j)}), Write({Sub(j)})>>}

\* The lock that keeps actor a from its next statement is b's.
WaitsFor(a, b) ==
  /\ todo[a] # <<>> /\ a \in conns /\ b # a
  /\ \E x \in Head(todo[a]).on : lock[x] = b
  /\ Head(todo[a]).mode = "read" => ReadersWait

\* SQL Server sees a circle of locks and ends one of the two; those who hold
\* a lock and wait are the poll thread and deletions, so two make a circle.
Deadlocked(a) == \E b \in Actors : WaitsFor(a, b) /\ WaitsFor(b, a)

\* The end of a's transaction, by a commit or a rollback.
Release(a) ==
  /\ conns' = conns \ {a}
  /\ lock' = [x \in Rows |-> IF lock[x] = a THEN None ELSE lock[x]]
  /\ todo' = [todo EXCEPT ![a] = <<>>]

GoTo(a, place) == at' = [at EXCEPT ![a] = place]

\* Mutant: the pool has no limit.
Connect_Unlimited(a) ==
  /\ todo[a] # <<>> /\ a \notin conns
  /\ conns' = conns \cup {a}
  /\ UNCHANGED <<kind, at, todo, loop, lock>>

\* The first statement takes a connection from the pool.
Connect(a) ==
  /\ todo[a] # <<>> /\ a \notin conns
  /\ Cardinality(conns) < PoolSize
  /\ conns' = conns \cup {a}
  /\ UNCHANGED <<kind, at, todo, loop, lock>>

Execute(a) ==
  /\ todo[a] # <<>> /\ a \in conns
  /\ \A b \in Actors : ~WaitsFor(a, b)
  /\ LET s == Head(todo[a]) IN
     lock' = [x \in Rows |-> IF s.mode = "write" /\ x \in s.on THEN a ELSE lock[x]]
  /\ todo' = [todo EXCEPT ![a] = Tail(@)]
  /\ UNCHANGED <<kind, at, loop, conns>>

\* The pool gives up after its timeout, the database ends a deadlock.
Fails(a) ==
  \/ todo[a] # <<>> /\ a \notin conns /\ Cardinality(conns) >= PoolSize
  \/ Deadlocked(a)

-------------------------------------------------------------------------------
(* Requests.                                                               *)

\* The dependencies have been solved in worker threads and the task is queued; it
\* gets the loop sooner or later.
Begin(r) ==
  /\ at[r] = "ready" /\ loop = None
  /\ loop' = r
  /\ todo' = [todo EXCEPT ![r] = InHandler(r)]
  /\ GoTo(r, "handler")
  /\ UNCHANGED <<kind, conns, lock>>

\* A create refused for its owner or its routing never asks the database.
Reject(r) ==
  /\ at[r] = "ready" /\ loop = None
  /\ kind[r] = "create"
  /\ GoTo(r, "refused")
  /\ UNCHANGED <<kind, todo, loop, conns, lock>>

\* The handler returns and the response is sent; what was flushed is not yet
\* committed. The next thing the task does is to let others have the loop.
Answer(r) ==
  /\ at[r] = "handler" /\ todo[r] = <<>>
  /\ loop' = None
  /\ GoTo(r, "answered")
  /\ UNCHANGED <<kind, todo, conns, lock>>

\* An error: a job not found, its new routing, a duplicate (which rolls back there and
\* then), a pool or a database that failed the handler. Nothing is locked yet.
Refuse(r) ==
  /\ at[r] = "handler" /\ \A x \in Rows : lock[x] # r
  /\ Fails(r) \/ (r \in conns /\ \A b \in Actors : ~WaitsFor(r, b))
  /\ loop' = None
  /\ conns' \in {conns, conns \ {r}}
  /\ todo' = [todo EXCEPT ![r] = <<>>]
  /\ GoTo(r, "refused")
  /\ UNCHANGED <<kind, lock>>

\* The loop comes back to the task, which hands the end of the session over.
Resume(r) ==
  /\ loop = None /\ at[r] \in {"answered", "refused"}
  /\ GoTo(r, IF at[r] = "answered" THEN "commit" ELSE "rollback")
  /\ todo' = [todo EXCEPT ![r] = IF at[r] = "answered" THEN AtExit(r) ELSE <<>>]
  /\ UNCHANGED <<kind, loop, conns, lock>>

\* In a worker thread: the commit, the rollback, or a commit that fails.
Close(r) ==
  /\ at[r] \in {"commit", "rollback"}
  /\ todo[r] = <<>> \/ Fails(r)
  /\ Release(r)
  /\ GoTo(r, "closed")
  /\ UNCHANGED <<kind, loop>>

-------------------------------------------------------------------------------
(* The poll thread, which never needs the loop.                            *)

PollBegins(from, place, statements) ==
  /\ at[Poll] = from
  /\ GoTo(Poll, place)
  /\ todo' = [todo EXCEPT ![Poll] = statements]
  /\ UNCHANGED <<kind, loop, conns, lock>>

PollEnds(from, place) ==
  /\ at[Poll] = from /\ todo[Poll] = <<>>
  /\ Release(Poll)
  /\ GoTo(Poll, place)
  /\ UNCHANGED <<kind, loop>>

\* Mutant: after its stamp a job is taken up again, and no cycle ends.
PollSteps_SameCycle ==
  \/ PollBegins("idle", "load", <<Read({Job(j) : j \in JobIds})>>)
  \/ PollEnds("load", "loaded")
  \/ \E j \in JobIds : \E d \in Deliveries(j) : PollBegins("loaded", "deliver", d)
  \/ PollEnds("deliver", "delivered")
  \/ \E j \in JobIds : PollBegins("delivered", "stamp", <<Write({Job(j)})>>)
  \/ PollEnds("stamp", "loaded")

\* A submission is conversed about over HTTP before its transaction ends.
PollSteps ==
  \/ PollBegins("idle", "load", <<Read({Job(j) : j \in JobIds})>>)
  \/ PollEnds("load", "loaded")
  \/ \E j \in JobIds : \E d \in Deliveries(j) : PollBegins("loaded", "deliver", d)
  \/ PollEnds("deliver", "delivered")
  \/ \E j \in JobIds : PollBegins("delivered", "stamp", <<Write({Job(j)})>>)
  \/ PollEnds("stamp", "idle")

\* The transaction fails; the cycle is over, and the loop of the thread is not.
PollFails ==
  /\ Fails(Poll)
  /\ Release(Poll)
  /\ GoTo(Poll, "idle")
  /\ UNCHANGED <<kind, loop>>

-------------------------------------------------------------------------------
RequestStep(r) ==
  \/ Begin(r) \/ Reject(r) \/ Answer(r) \/ Refuse(r)
  \/ Resume(r) \/ Close(r) \/ Connect(r) \/ Execute(r)

PollStep == PollSteps \/ PollFails \/ Connect(Poll) \/ Execute(Poll)

Next == (\E r \in Requests : RequestStep(r)) \/ PollStep

Spec == Init /\ [][Next]_vars

\* Tasks get the loop in order, worker threads run, and a request that waits for
\* a connection or a lock gets it in its turn though others come back for it:
\* hence strong fairness. The thread comes back for ever, the requests are few.
Fairness == (\A r \in Requests : SF_vars(RequestStep(r))) /\ WF_vars(PollStep)

FairSpec == Spec /\ Fairness

-------------------------------------------------------------------------------
\* The request that has the event loop never waits, directly or through another
\* that waits, for the lock of a request whose commit only the loop can start.
\* It holds of requests that leave their writes to the commit and, where readers
\* need not wait, of edits of different jobs; AnsweredIsClosed is for the others.
LoopWaitsForOthers ==
  \A r, s \in Requests :
    at[s] = "answered" /\ loop = r =>
      /\ ~WaitsFor(r, s)
      /\ \A a \in Actors : ~(WaitsFor(r, a) /\ WaitsFor(a, s))

\* Whoever waits for whom at the database, the loop and the pool, every request
\* that came is answered or refused, and its session closed.
RequestsEnd == \A r \in Requests : at[r] = "ready" ~> at[r] = "closed"

\* No request, and no deletion that takes a submission's row from under it,
\* stops the poll thread for good.
PollerComesRound == []<>(at[Poll] = "idle")

\* "Yield a session; commit on success": what was answered is committed, or at
\* least its session closed.
AnsweredIsClosed == \A r \in Requests : at[r] = "answered" ~> at[r] = "closed"
===============================================================================
