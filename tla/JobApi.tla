-------------------------------- MODULE JobApi --------------------------------
(***************************************************************************)
(* The job registry under concurrent calls of the management API           *)
(* (src/app/api/jobs_routes.py, src/app/jobs.py): processes that serve the *)
(* API share the table, a handler works on the copy of the row its session *)
(* has loaded, and the session is committed after the answer. Who waits    *)
(* for whom within a process is the subject of ApiLoop.                    *)
(***************************************************************************)
EXTENDS Naturals, FiniteSets

CONSTANTS
  Sessions,        \* calls in progress at a time
  JobIds,          \* an identity column, never reused
  Consumers, Admins,
  Destinations,    \* source and destination_system: where a job is routed ...
  Routable,        \* ... and what the registries know
  Calls,           \* the calls that are made
  ReadersWait,     \* a read waits for an uncommitted write (no row versioning)
  Null, NoJob, Deleted

Columns == {"owner", "webformId", "destination_system", "name"}

\* "name" stands for the columns without a rule of their own.
IsRow(x) ==
  /\ DOMAIN x = Columns
  /\ x["owner"] \in Consumers
  /\ x["webformId"] # Null /\ x["name"] # Null
  /\ x["destination_system"] \in Destinations

\* A body names some columns, and null is for a PATCH only, which may name any
\* but the owner.
IsCall(c) ==
  /\ DOMAIN c = {"sub", "op", "job", "body"}
  /\ c.sub \in Consumers
  /\ c.op \in {"create", "put", "patch", "delete"}
  /\ c.job \in JobIds \/ (c.op = "create" /\ c.job = NoJob)
  /\ DOMAIN c.body \subseteq (IF c.op = "patch" THEN Columns \ {"owner"} ELSE Columns)
  /\ c.op \in {"create", "put"} => /\ Columns \ {"owner"} \subseteq DOMAIN c.body
                                  /\ \A col \in DOMAIN c.body : c.body[col] # Null
  /\ "owner" \in DOMAIN c.body => c.body["owner"] \in Consumers

ASSUME JobApiAssumption ==
  /\ Admins \subseteq Consumers
  /\ Routable \subseteq Destinations
  /\ ReadersWait \in BOOLEAN
  /\ NoJob # Deleted
  /\ \A c \in Calls : IsCall(c)

VARIABLES
  jobs,     \* the committed table
  at,       \* where each call is
  call,     \* of each session
  copy,     \* the row its session has loaded
  flushed   \* the row as its session has written it, not yet committed

vars == <<jobs, at, call, copy, flushed>>

Places == {"idle", "loaded", "answered", "conflict"}

TypeOK ==
  /\ \A j \in JobIds : jobs[j] \in {NoJob, Deleted} \/ IsRow(jobs[j])
  /\ at \in [Sessions -> Places]
  /\ \A r \in Sessions : at[r] # "idle" => IsCall(call[r])
  /\ \A r \in Sessions : flushed[r] = Null \/ IsRow(flushed[r])

Init ==
  /\ jobs = [j \in JobIds |-> NoJob]
  /\ at = [r \in Sessions |-> "idle"]
  /\ call = [r \in Sessions |-> Null]
  /\ copy = [r \in Sessions |-> Null]
  /\ flushed = [r \in Sessions |-> Null]

-------------------------------------------------------------------------------
(* Rules.                                                                  *)

IsJob(x) == x \notin {NoJob, Deleted}

CanManage(sub, owner) == sub \in Admins \/ sub = owner

\* The owner of a new job: another's only on an admin's word.
OwnerOf(c) == IF "owner" \in DOMAIN c.body THEN c.body["owner"] ELSE c.sub
MayOwn(c) == CanManage(c.sub, OwnerOf(c))

\* Mutant: only a PUT has its routing looked at.
Routed_PutOnly(c) == c.op = "put" => c.body["destination_system"] \in Routable

\* The handlers check the routing the call would leave behind.
Routed(c) == "destination_system" \in DOMAIN c.body => c.body["destination_system"] \in Routable

\* What the call sets: PUT changes the owner only for an admin.
Data(c) ==
  [col \in {k \in DOMAIN c.body : k = "owner" => c.op = "put" /\ c.sub \in Admins} |-> c.body[col]]

\* Mutant: all of the row is written back.
NetChange_Row(r) ==
  [col \in Columns |-> IF col \in DOMAIN Data(call[r]) THEN Data(call[r])[col] ELSE copy[r][col]]

\* The unit of work writes the columns that differ from what was loaded.
NetChange(r) ==
  LET data == Data(call[r])
  IN [col \in {k \in DOMAIN data : data[k] # copy[r][k]} |-> data[col]]

\* Mutant: what is not named is not kept.
Over_Only(row, change) == change

Over(row, change) ==
  [col \in Columns |-> IF col \in DOMAIN change THEN change[col] ELSE row[col]]

Key(row) == <<row["owner"], row["webformId"], row["destination_system"]>>

\* UQ_PollJob_owner_form_dest, among the committed rows.
Collides(row, j) == \E i \in JobIds \ {j} : IsJob(jobs[i]) /\ Key(jobs[i]) = Key(row)

\* Those with a row flushed and not committed; a deletion is not flushed.
Writers == {s \in Sessions : at[s] = "answered" /\ call[s].op # "delete"}

\* A write waits for the other writer of its row.
RowFree(r, j) == \A s \in Writers \ {r} : call[s].job # j

\* Mutant: the key is compared with committed rows only.
KeyFree_Committed(r, row) == TRUE

\* And for one that has its key, or is giving it up, and may yet do otherwise.
KeyFree(r, row) ==
  \A s \in Writers \ {r} :
    /\ Key(flushed[s]) # Key(row)
    /\ call[s].op # "create" => Key(jobs[call[s].job]) # Key(row)

-------------------------------------------------------------------------------
(* The handlers.                                                           *)

\* The lookup: not found and not one's own are answered alike, and end the call.
Load(r, c) ==
  /\ at[r] = "idle" /\ c.op # "create"
  /\ IsJob(jobs[c.job]) /\ CanManage(c.sub, jobs[c.job]["owner"])
  /\ ReadersWait => RowFree(r, c.job)
  /\ at' = [at EXCEPT ![r] = IF c.op = "delete" THEN "answered" ELSE "loaded"]
  /\ call' = [call EXCEPT ![r] = c]
  /\ copy' = [copy EXCEPT ![r] = jobs[c.job]]
  /\ UNCHANGED <<jobs, flushed>>

\* A session that ends, or is given back to the pool, forgets its call.
Forget(r) ==
  /\ call' = [call EXCEPT ![r] = Null]
  /\ copy' = [copy EXCEPT ![r] = Null]
  /\ flushed' = [flushed EXCEPT ![r] = Null]

\* The flush of an INSERT takes the next number, kept even if it is undone.
Create(r, c) ==
  /\ at[r] = "idle" /\ c.op = "create"
  /\ MayOwn(c) /\ Routed(c)
  /\ LET row == [col \in Columns |-> IF col = "owner" THEN OwnerOf(c) ELSE c.body[col]]
     IN \E j \in JobIds :
          /\ jobs[j] = NoJob /\ \A i \in JobIds : jobs[i] = NoJob => i >= j
          /\ KeyFree(r, row)
          /\ jobs' = [jobs EXCEPT ![j] = Deleted]
          /\ IF Collides(row, j)
             THEN at' = [at EXCEPT ![r] = "conflict"] /\ UNCHANGED flushed
             ELSE at' = [at EXCEPT ![r] = "answered"] /\ flushed' = [flushed EXCEPT ![r] = row]
          /\ call' = [call EXCEPT ![r] = [c EXCEPT !.job = j]]
          /\ copy' = [copy EXCEPT ![r] = row]

\* Mutant: an UPDATE that finds its row deleted is called a duplicate, too.
Update_GoneToo(r) ==
  /\ at[r] = "loaded" /\ ~IsJob(jobs[call[r].job])
  /\ at' = [at EXCEPT ![r] = "conflict"]
  /\ UNCHANGED <<jobs, call, copy, flushed>>

\* The flush of an UPDATE. Any IntegrityError is called a duplicate.
Update(r) ==
  /\ at[r] = "loaded"
  /\ Routed(call[r])
  /\ LET j == call[r].job
         change == NetChange(r)
         nulls == {col \in DOMAIN change : change[col] = Null}
         row == Over(jobs[j], change)
     IN /\ RowFree(r, j) /\ IsJob(jobs[j])
        /\ nulls = {} => KeyFree(r, row)
        /\ IF nulls # {} \/ Collides(row, j)
           THEN at' = [at EXCEPT ![r] = "conflict"] /\ UNCHANGED flushed
           ELSE at' = [at EXCEPT ![r] = "answered"] /\ flushed' = [flushed EXCEPT ![r] = row]
  /\ UNCHANGED <<jobs, call, copy>>

\* The end of the session, after the answer; a deletion is flushed here.
Commit(r) ==
  /\ at[r] = "answered"
  /\ LET j == call[r].job IN
     IF call[r].op = "delete"
     THEN RowFree(r, j) /\ jobs' = [jobs EXCEPT ![j] = Deleted]
     ELSE jobs' = [jobs EXCEPT ![j] = flushed[r]]
  /\ at' = [at EXCEPT ![r] = "idle"]
  /\ Forget(r)

\* A refusal (routing, a conflict, a row deleted meanwhile) or a commit that
\* fails: nothing of the session stays.
Rollback(r) ==
  /\ at[r] # "idle"
  /\ at' = [at EXCEPT ![r] = "idle"]
  /\ Forget(r)
  /\ UNCHANGED jobs

Next ==
  \E r \in Sessions :
    \/ \E c \in Calls : Load(r, c) \/ Create(r, c)
    \/ Update(r) \/ Commit(r) \/ Rollback(r)

Spec == Init /\ [][Next]_vars

-------------------------------------------------------------------------------
\* No two jobs of one owner have the same form and destination, whatever calls
\* overlap, edits that would meet halfway included.
UniqueJobs == \A j \in JobIds : IsJob(jobs[j]) => ~Collides(jobs[j], j)

\* Every job on record can be routed, so no pass ends on a job that was edited
\* into one nobody can deliver.
JobsAreRoutable == \A j \in JobIds : IsJob(jobs[j]) => jobs[j]["destination_system"] \in Routable

\* An edit changes what it names and leaves alone what overlapping edits of the
\* same job have changed; only an admin's word moves a job to another owner.
EditsKeepToTheirColumns ==
  [][\A j \in JobIds :
       IsJob(jobs[j]) /\ IsJob(jobs'[j]) =>
         \E r \in Sessions : \A col \in Columns :
           jobs'[j][col] # jobs[j][col] =>
             /\ at[r] = "answered" /\ call[r].job = j /\ col \in DOMAIN call[r].body
             /\ jobs'[j][col] = call[r].body[col]
             /\ col = "owner" => call[r].sub \in Admins]_vars

\* "A job with the same (owner, webformId, destination_system) already exists":
\* the row that a call was answered 409 for would have been the second.
ConflictIsDuplicate ==
  [][\A r \in Sessions :
       at[r] # "conflict" /\ at'[r] = "conflict" =>
         IF at[r] = "loaded" THEN /\ IsJob(jobs[call[r].job])
                                  /\ Collides(Over(jobs[call[r].job], NetChange(r)), call[r].job)
                             ELSE Collides(copy'[r], call'[r].job)]_vars

\* "Replace a job": the row that the session of an answered PUT is about to
\* commit is its body.
ReplaceIsWhole ==
  \A r \in Sessions :
    at[r] = "answered" /\ call[r].op = "put" =>
      \A col \in DOMAIN Data(call[r]) : flushed[r][col] = call[r].body[col]
===============================================================================
