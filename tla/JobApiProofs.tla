----------------------------- MODULE JobApiProofs -----------------------------
(***************************************************************************)
(* That overlapping calls never leave two jobs with one key nor a job that *)
(* cannot be routed, and change no more than they name, for any number of  *)
(* sessions, jobs and calls.                                               *)
(***************************************************************************)
EXTENDS JobApi, TLAPS

Shape ==
  /\ jobs = [j \in JobIds |-> jobs[j]]
  /\ at \in [Sessions -> Places]
  /\ call = [r \in Sessions |-> call[r]]
  /\ copy = [r \in Sessions |-> copy[r]]
  /\ flushed = [r \in Sessions |-> flushed[r]]
  /\ \A r \in Sessions : at[r] # "idle" => IsCall(call[r]) /\ call[r].job \in JobIds
  /\ \A r \in Sessions : at[r] = "loaded" => call[r].op # "create" /\ call[r].op # "delete"

\* A writer has a row of its own, which was given its number ...
RowsApart ==
  /\ \A r \in Writers : jobs[call[r].job] # NoJob
  /\ \A r, s \in Writers : r # s => call[r].job # call[s].job

\* ... and a key of its own, among the committed rows and the other writers.
KeysApart ==
  /\ \A r \in Writers : ~Collides(flushed[r], call[r].job)
  /\ \A r, s \in Writers : r # s => Key(flushed[r]) # Key(flushed[s])

Apart == RowsApart /\ KeysApart /\ UniqueJobs

LEMMA ShapeStep ==
  ASSUME Shape, [Next]_vars
  PROVE  Shape'
  <1>. USE JobApiAssumption
  <1>1. ASSUME NEW r \in Sessions, NEW c \in Calls, Load(r, c) PROVE Shape'
    <2>1. IsCall(c)
      OBVIOUS
    <2>2. c.job \in JobIds
      BY <1>1, <2>1 DEF Load, IsCall
    <2>3. c.op = "delete" \/ (c.op # "create" /\ c.op # "delete")
      BY <1>1 DEF Load
    <2>4. "answered" \in Places /\ "loaded" \in Places
      BY DEF Places
    <2>5. QED
      BY <1>1, <2>1, <2>2, <2>3, <2>4 DEF Load, Shape
  <1>2. ASSUME NEW r \in Sessions, NEW c \in Calls, Create(r, c) PROVE Shape'
    <2>1. PICK j \in JobIds :
            /\ jobs' = [jobs EXCEPT ![j] = Deleted]
            /\ at' = [at EXCEPT ![r] = "conflict"] \/ at' = [at EXCEPT ![r] = "answered"]
            /\ flushed' = flushed \/ \E row : flushed' = [flushed EXCEPT ![r] = row]
            /\ call' = [call EXCEPT ![r] = [c EXCEPT !.job = j]]
            /\ \E row : copy' = [copy EXCEPT ![r] = row]
      BY <1>2 DEF Create
    <2>2. IsCall([c EXCEPT !.job = j]) /\ [c EXCEPT !.job = j].job = j
      <3>1. IsCall(c)
        OBVIOUS
      <3>2. QED
        BY <3>1 DEF IsCall
    <2>3. "answered" \in Places /\ "conflict" \in Places
      BY DEF Places
    <2>4. QED
      BY <2>1, <2>2, <2>3 DEF Shape
  <1>3. ASSUME NEW r \in Sessions, Update(r) PROVE Shape'
    <2>1. /\ at' = [at EXCEPT ![r] = "conflict"] \/ at' = [at EXCEPT ![r] = "answered"]
          /\ flushed' = flushed \/ \E row : flushed' = [flushed EXCEPT ![r] = row]
          /\ UNCHANGED <<jobs, call, copy>>
          /\ at[r] # "idle"
      BY <1>3 DEF Update
    <2>2. "answered" \in Places /\ "conflict" \in Places
      BY DEF Places
    <2>3. QED
      BY <2>1, <2>2 DEF Shape
  <1>4. ASSUME NEW r \in Sessions, Forget(r), at' = [at EXCEPT ![r] = "idle"],
               jobs' = jobs \/ \E j \in JobIds : \E row : jobs' = [jobs EXCEPT ![j] = row]
        PROVE  Shape'
    BY <1>4 DEF Forget, Shape, Places
  <1>5. ASSUME NEW r \in Sessions, Commit(r) PROVE Shape'
    <2>1. call[r].job \in JobIds
      BY <1>5 DEF Commit, Shape
    <2>2. \E j \in JobIds : \E row : jobs' = [jobs EXCEPT ![j] = row]
      BY <1>5, <2>1 DEF Commit
    <2>3. QED
      BY <1>4, <1>5, <2>2 DEF Commit
  <1>6. ASSUME NEW r \in Sessions, Rollback(r) PROVE Shape'
    BY <1>4, <1>6 DEF Rollback
  <1>7. CASE UNCHANGED vars
    BY <1>7 DEF vars, Shape
  <1>8. QED
    BY <1>1, <1>2, <1>3, <1>5, <1>6, <1>7 DEF Next

\* No new writer, and no committed row that was not there.
LEMMA FewerApart ==
  ASSUME Apart, Writers' \subseteq Writers,
         \A s \in Writers' : call'[s] = call[s] /\ flushed'[s] = flushed[s],
         \A i \in JobIds : jobs'[i] = jobs[i] \/ jobs'[i] = Deleted,
         \A s \in Writers : call[s].job \in JobIds
  PROVE  Apart'
  <1>1. \A i \in JobIds : IsJob(jobs'[i]) => IsJob(jobs[i]) /\ jobs'[i] = jobs[i]
    BY DEF IsJob
  <1>2. RowsApart'
    BY JobApiAssumption DEF Apart, RowsApart
  <1>3. KeysApart'
    BY <1>1 DEF Apart, KeysApart, Collides
  <1>4. UniqueJobs'
    BY <1>1 DEF Apart, UniqueJobs, Collides
  <1>5. QED
    BY <1>2, <1>3, <1>4 DEF Apart

\* A flush that got past the rows and keys of the others.
LEMMA FlushApart ==
  ASSUME Apart, NEW r \in Sessions, NEW j \in JobIds, NEW row,
         Writers' = Writers \cup {r}, r \notin Writers,
         \A s \in Writers : call'[s] = call[s] /\ flushed'[s] = flushed[s],
         call'[r].job = j, flushed'[r] = row,
         \A i \in JobIds : jobs'[i] = jobs[i] \/ jobs'[i] = Deleted,
         \A s \in Writers : call[s].job \in JobIds,
         \A s \in Writers : call[s].job # j,
         \A s \in Writers : Key(flushed[s]) # Key(row),
         jobs'[j] # NoJob, ~Collides(row, j)
  PROVE  Apart'
  <1>1. \A i \in JobIds : IsJob(jobs'[i]) => IsJob(jobs[i]) /\ jobs'[i] = jobs[i]
    BY DEF IsJob
  <1>2. RowsApart'
    BY JobApiAssumption DEF Apart, RowsApart
  <1>3. KeysApart'
    <2>1. \A s \in Writers' : \A i \in JobIds \ {call'[s].job} :
            IsJob(jobs'[i]) => Key(jobs'[i]) # Key(flushed'[s])
      BY <1>1 DEF Apart, KeysApart, Collides
    <2>2. \A s, t \in Writers' : s # t => Key(flushed'[s]) # Key(flushed'[t])
      BY DEF Apart, KeysApart
    <2>3. QED
      BY <2>1, <2>2 DEF KeysApart, Collides
  <1>4. UniqueJobs'
    BY <1>1 DEF Apart, UniqueJobs, Collides
  <1>5. QED
    BY <1>2, <1>3, <1>4 DEF Apart

\* The commit of a flushed row.
LEMMA CommitApart ==
  ASSUME Apart, NEW r \in Writers, NEW j \in JobIds, call[r].job = j,
         Writers' = Writers \ {r},
         \A s \in Writers' : call'[s] = call[s] /\ flushed'[s] = flushed[s],
         jobs'[j] = flushed[r],
         \A i \in JobIds \ {j} : jobs'[i] = jobs[i],
         \A s \in Writers : call[s].job \in JobIds
  PROVE  Apart'
  <1>1. RowsApart'
    BY DEF Apart, RowsApart
  <1>2. KeysApart'
    BY DEF Apart, KeysApart, Collides
  <1>3. UniqueJobs'
    <2>. SUFFICES ASSUME NEW i \in JobIds, NEW k \in JobIds, i # k, IsJob(jobs'[i]), IsJob(jobs'[k])
                  PROVE  Key(jobs'[i]) # Key(jobs'[k])
      BY DEF UniqueJobs, Collides
    <2>1. CASE i = j
      BY <2>1 DEF Apart, KeysApart, Collides
    <2>2. CASE k = j
      BY <2>2 DEF Apart, KeysApart, Collides
    <2>3. CASE i # j /\ k # j
      BY <2>3 DEF Apart, UniqueJobs, Collides
    <2>4. QED
      BY <2>1, <2>2, <2>3
  <1>4. QED
    BY <1>1, <1>2, <1>3 DEF Apart

LEMMA ApartStep ==
  ASSUME Shape, Apart, [Next]_vars
  PROVE  Apart'
  <1>. USE JobApiAssumption
  <1>0. \A s \in Writers : call[s].job \in JobIds /\ s \in Sessions
    BY DEF Writers, Shape
  <1>1. ASSUME NEW r \in Sessions, NEW c \in Calls, Load(r, c) PROVE Apart'
    <2>1. /\ at[r] = "idle" /\ UNCHANGED <<jobs, flushed>>
          /\ \A s \in Sessions \ {r} : at'[s] = at[s] /\ call'[s] = call[s]
          /\ call'[r] = c
          /\ at'[r] = "answered" => c.op = "delete"
      BY <1>1 DEF Load, Shape
    <2>2. Writers' \subseteq Writers /\ \A s \in Writers' : call'[s] = call[s]
      BY <2>1 DEF Writers
    <2>3. QED
      BY <1>0, <2>1, <2>2, FewerApart
  <1>2. ASSUME NEW r \in Sessions, NEW c \in Calls, Create(r, c) PROVE Apart'
    <2>. DEFINE row == [col \in Columns |-> IF col = "owner" THEN OwnerOf(c) ELSE c.body[col]]
    <2>1. PICK j \in JobIds :
            /\ jobs[j] = NoJob /\ KeyFree(r, row)
            /\ jobs' = [jobs EXCEPT ![j] = Deleted]
            /\ IF Collides(row, j)
               THEN at' = [at EXCEPT ![r] = "conflict"] /\ UNCHANGED flushed
               ELSE at' = [at EXCEPT ![r] = "answered"] /\ flushed' = [flushed EXCEPT ![r] = row]
            /\ call' = [call EXCEPT ![r] = [c EXCEPT !.job = j]]
      BY <1>2 DEF Create
    <2>2. at[r] = "idle" /\ c.op = "create" /\ IsCall(c)
      BY <1>2 DEF Create
    <2>. HIDE DEF row
    <2>3. /\ jobs'[j] = Deleted /\ \A i \in JobIds : jobs'[i] = jobs[i] \/ jobs'[i] = Deleted
          /\ \A s \in Sessions \ {r} : at'[s] = at[s] /\ call'[s] = call[s]
                                       /\ flushed'[s] = flushed[s]
      BY <2>1 DEF Shape
    <2>4. call'[r].job = j /\ call'[r].op = "create"
      <3>1. [c EXCEPT !.job = j].job = j /\ [c EXCEPT !.job = j].op = "create"
        BY <2>2 DEF IsCall
      <3>2. QED
        BY <2>1, <3>1 DEF Shape
    <2>5. r \notin Writers
      BY <2>2 DEF Writers
    <2>6. CASE Collides(row, j)
      <3>1. at'[r] = "conflict"
        BY <2>1, <2>6 DEF Shape
      <3>2. Writers' \subseteq Writers /\ \A s \in Writers' : s # r
        BY <2>3, <3>1 DEF Writers
      <3>3. \A s \in Writers' : call'[s] = call[s] /\ flushed'[s] = flushed[s]
        BY <1>0, <2>3, <3>2
      <3>4. QED
        BY <1>0, <2>3, <3>2, <3>3, FewerApart
    <2>7. CASE ~Collides(row, j)
      <3>1. at'[r] = "answered" /\ flushed'[r] = row
        BY <2>1, <2>7 DEF Shape
      <3>2. Writers' = Writers \cup {r}
        BY <2>3, <2>4, <3>1 DEF Writers
      <3>3. \A s \in Writers : call[s].job # j
        BY <2>1 DEF Apart, RowsApart
      <3>4. \A s \in Writers : Key(flushed[s]) # Key(row)
        BY <2>1, <2>5 DEF KeyFree
      <3>5. \A s \in Writers : call'[s] = call[s] /\ flushed'[s] = flushed[s]
        BY <1>0, <2>3, <2>5
      <3>6. QED
        BY <1>0, <2>3, <2>4, <2>5, <2>7, <3>1, <3>2, <3>3, <3>4, <3>5, FlushApart
    <2>8. QED
      BY <2>6, <2>7
  <1>3. ASSUME NEW r \in Sessions, Update(r) PROVE Apart'
    <2>. DEFINE j == call[r].job
                nulls == {col \in DOMAIN NetChange(r) : NetChange(r)[col] = Null}
                row == Over(jobs[j], NetChange(r))
                refused == nulls # {} \/ Collides(row, j)
    <2>1. /\ at[r] = "loaded" /\ RowFree(r, j) /\ IsJob(jobs[j])
          /\ nulls = {} => KeyFree(r, row)
          /\ IF refused
             THEN at' = [at EXCEPT ![r] = "conflict"] /\ UNCHANGED flushed
             ELSE at' = [at EXCEPT ![r] = "answered"] /\ flushed' = [flushed EXCEPT ![r] = row]
          /\ UNCHANGED <<jobs, call>>
      BY <1>3 DEF Update
    <2>2. j \in JobIds /\ call[r].op # "delete" /\ r \notin Writers
      BY <2>1 DEF Shape, Writers
    <2>3. refused \/ (nulls = {} /\ ~Collides(row, j))
      OBVIOUS
    <2>. HIDE DEF j, nulls, row, refused
    <2>4. \A s \in Sessions \ {r} : at'[s] = at[s] /\ flushed'[s] = flushed[s]
      BY <2>1 DEF Shape
    <2>5. CASE refused
      <3>1. at'[r] = "conflict"
        BY <2>1, <2>5 DEF Shape
      <3>2. Writers' \subseteq Writers
        BY <2>1, <2>4, <3>1 DEF Writers
      <3>3. \A s \in Writers' : call'[s] = call[s] /\ flushed'[s] = flushed[s]
        BY <1>0, <2>1, <2>2, <2>4, <3>2
      <3>4. QED
        BY <1>0, <2>1, <3>2, <3>3, FewerApart
    <2>6. CASE ~refused
      <3>1. at'[r] = "answered" /\ flushed'[r] = row
        BY <2>1, <2>6 DEF Shape
      <3>2. Writers' = Writers \cup {r}
        BY <2>1, <2>2, <2>4, <3>1 DEF Writers
      <3>3. \A s \in Writers : call[s].job # j
        BY <2>1, <2>2 DEF RowFree
      <3>4. \A s \in Writers : Key(flushed[s]) # Key(row)
        BY <2>1, <2>2, <2>3, <2>6 DEF KeyFree
      <3>5. \A s \in Writers : call'[s] = call[s] /\ flushed'[s] = flushed[s]
        BY <1>0, <2>1, <2>2, <2>4
      <3>6. ~Collides(row, j) /\ call'[r].job = j /\ jobs'[j] # NoJob
        BY <2>1, <2>3, <2>6 DEF j, IsJob
      <3>7. QED
        BY <1>0, <2>1, <2>2, <3>1, <3>2, <3>3, <3>4, <3>5, <3>6, FlushApart
    <2>7. QED
      BY <2>5, <2>6
  <1>4. ASSUME NEW r \in Sessions, Forget(r), at' = [at EXCEPT ![r] = "idle"]
        PROVE  /\ Writers' = Writers \ {r}
               /\ \A s \in Writers' : call'[s] = call[s] /\ flushed'[s] = flushed[s]
    <2>1. /\ at'[r] = "idle"
          /\ \A s \in Sessions \ {r} : at'[s] = at[s] /\ call'[s] = call[s]
                                       /\ flushed'[s] = flushed[s]
      BY <1>4 DEF Forget, Shape
    <2>2. QED
      BY <2>1 DEF Writers
  <1>5. ASSUME NEW r \in Sessions, Commit(r) PROVE Apart'
    <2>1. call[r].job \in JobIds /\ at[r] = "answered"
      BY <1>5 DEF Commit, Shape
    <2>2. /\ Writers' = Writers \ {r}
          /\ \A s \in Writers' : call'[s] = call[s] /\ flushed'[s] = flushed[s]
      BY <1>4, <1>5 DEF Commit
    <2>3. CASE call[r].op = "delete"
      <3>1. \A i \in JobIds : jobs'[i] = jobs[i] \/ jobs'[i] = Deleted
        BY <1>5, <2>3 DEF Commit, Shape
      <3>2. QED
        BY <1>0, <2>2, <3>1, FewerApart
    <2>4. CASE call[r].op # "delete"
      <3>1. jobs' = [jobs EXCEPT ![call[r].job] = flushed[r]]
        BY <1>5, <2>4 DEF Commit
      <3>2. /\ jobs'[call[r].job] = flushed[r]
            /\ \A i \in JobIds \ {call[r].job} : jobs'[i] = jobs[i]
        BY <2>1, <3>1 DEF Shape
      <3>3. r \in Writers
        BY <2>1, <2>4 DEF Writers
      <3>4. QED
        BY <1>0, <2>1, <2>2, <3>2, <3>3, CommitApart
    <2>5. QED
      BY <2>3, <2>4
  <1>6. ASSUME NEW r \in Sessions, Rollback(r) PROVE Apart'
    BY <1>0, <1>4, <1>6, FewerApart DEF Rollback
  <1>7. CASE UNCHANGED vars
    <2>1. Writers' = Writers
      BY <1>7 DEF vars, Writers
    <2>2. QED
      BY <1>0, <1>7, <2>1, FewerApart DEF vars
  <1>8. QED
    BY <1>1, <1>2, <1>3, <1>5, <1>6, <1>7 DEF Next

-------------------------------------------------------------------------------
(* What is written is right. *)

Sound(x) == IsRow(x) /\ x["destination_system"] \in Routable

\* A session has written a row that may be committed, which differs from the
\* committed one where the call says so and nowhere else.
Written(r) ==
  /\ Sound(flushed[r])
  /\ IF call[r].op = "create"
     THEN jobs[call[r].job] = Deleted
     ELSE \A col \in Columns : flushed[r][col] # jobs[call[r].job][col] =>
            /\ col \in DOMAIN Data(call[r])
            /\ flushed[r][col] = call[r].body[col]

Kept ==
  /\ \A j \in JobIds : jobs[j] \in {NoJob, Deleted} \/ Sound(jobs[j])
  /\ \A r \in Sessions : flushed[r] = Null \/ IsRow(flushed[r])
  /\ \A r \in Writers : Written(r)

\* What a call sets it names, and only an admin sets the owner.
LEMMA DataIsOfBody ==
  ASSUME NEW c
  PROVE  /\ DOMAIN Data(c) \subseteq DOMAIN c.body
         /\ \A col \in DOMAIN Data(c) : Data(c)[col] = c.body[col]
         /\ "owner" \in DOMAIN Data(c) => c.sub \in Admins
  BY DEF Data

\* An edit that leaves no null makes a row of a row.
LEMMA EditIsSound ==
  ASSUME NEW r \in Sessions, NEW old, IsCall(call[r]), Sound(old), Routed(call[r]),
         \A col \in DOMAIN NetChange(r) : NetChange(r)[col] # Null
  PROVE  /\ Sound(Over(old, NetChange(r)))
         /\ \A col \in Columns : Over(old, NetChange(r))[col] # old[col] =>
              /\ col \in DOMAIN Data(call[r])
              /\ Over(old, NetChange(r))[col] = call[r].body[col]
  <1>. DEFINE change == NetChange(r)
              data == Data(call[r])
  <1>1. DOMAIN change \subseteq DOMAIN data /\ \A col \in DOMAIN change : change[col] = data[col]
    BY DEF NetChange
  <1>2. DOMAIN data \subseteq DOMAIN call[r].body /\ \A col \in DOMAIN data : data[col] = call[r].body[col]
    BY DataIsOfBody
  <1>. HIDE DEF change, data
  <1>3. \A col \in DOMAIN change : col \in DOMAIN call[r].body /\ change[col] = call[r].body[col]
    BY <1>1, <1>2
  <1>4. /\ DOMAIN Over(old, change) = Columns
        /\ \A col \in Columns :
             Over(old, change)[col] = IF col \in DOMAIN change THEN change[col] ELSE old[col]
    BY DEF Over
  <1>5. \A col \in DOMAIN change : change[col] # Null
    BY DEF change
  <1>6. "owner" \in DOMAIN change => change["owner"] \in Consumers
    BY <1>3 DEF IsCall
  <1>7. "destination_system" \in DOMAIN change => change["destination_system"] \in Routable
    BY <1>3 DEF Routed
  <1>8. /\ "owner" \in Columns /\ "webformId" \in Columns
        /\ "name" \in Columns /\ "destination_system" \in Columns
    BY DEF Columns
  <1>9. Sound(Over(old, change))
    BY <1>4, <1>5, <1>6, <1>7, <1>8, JobApiAssumption DEF Sound, IsRow
  <1>10. QED
    BY <1>1, <1>3, <1>4, <1>9 DEF change, data

\* What a session has written stays so while its row does.
LEMMA WrittenStays ==
  ASSUME NEW s, Written(s), call'[s] = call[s], flushed'[s] = flushed[s],
         jobs'[call[s].job] = jobs[call[s].job]
  PROVE  Written(s)'
  BY DEF Written, Sound, IsRow, Data

LEMMA KeptStep ==
  ASSUME Shape, Apart, Kept, [Next]_vars
  PROVE  Kept'
  <1>. USE JobApiAssumption
  <1>0. /\ \A s \in Writers : s \in Sessions /\ call[s].job \in JobIds /\ Written(s)
        /\ \A s \in Writers : jobs[call[s].job] # NoJob
        /\ \A s, t \in Writers : s # t => call[s].job # call[t].job
    BY DEF Writers, Shape, Kept, Apart, RowsApart
  <1>1. ASSUME NEW r \in Sessions, NEW c \in Calls, Load(r, c) PROVE Kept'
    <2>1. /\ at[r] = "idle" /\ UNCHANGED <<jobs, flushed>>
          /\ \A s \in Sessions \ {r} : at'[s] = at[s] /\ call'[s] = call[s]
          /\ call'[r] = c
          /\ at'[r] = "answered" => c.op = "delete"
      BY <1>1 DEF Load, Shape
    <2>2. \A s \in Writers' : s \in Writers /\ call'[s] = call[s]
      BY <2>1 DEF Writers
    <2>3. \A s \in Writers' : Written(s)'
      BY <1>0, <2>1, <2>2, WrittenStays
    <2>4. QED
      BY <2>1, <2>3 DEF Kept, Sound, IsRow
  <1>2. ASSUME NEW r \in Sessions, NEW c \in Calls, Create(r, c) PROVE Kept'
    <2>. DEFINE row == [col \in Columns |-> IF col = "owner" THEN OwnerOf(c) ELSE c.body[col]]
    <2>1. PICK j \in JobIds :
            /\ jobs[j] = NoJob
            /\ jobs' = [jobs EXCEPT ![j] = Deleted]
            /\ \/ at' = [at EXCEPT ![r] = "conflict"] /\ UNCHANGED flushed
               \/ at' = [at EXCEPT ![r] = "answered"] /\ flushed' = [flushed EXCEPT ![r] = row]
            /\ call' = [call EXCEPT ![r] = [c EXCEPT !.job = j]]
      BY <1>2 DEF Create
    <2>2. at[r] = "idle" /\ c.op = "create" /\ IsCall(c) /\ Routed(c)
      BY <1>2 DEF Create
    <2>3. Sound(row)
      <3>1. /\ "owner" \in Columns /\ "webformId" \in Columns
            /\ "name" \in Columns /\ "destination_system" \in Columns
        BY DEF Columns
      <3>2. /\ {"webformId", "name", "destination_system"} \subseteq DOMAIN c.body
            /\ c.body["webformId"] # Null /\ c.body["name"] # Null
        BY <2>2 DEF IsCall, Columns
      <3>3. c.body["destination_system"] \in Routable
        BY <2>2, <3>2 DEF Routed
      <3>4. OwnerOf(c) \in Consumers
        BY <2>2 DEF OwnerOf, IsCall
      <3>5. /\ row["owner"] = OwnerOf(c) /\ row["webformId"] = c.body["webformId"]
            /\ row["name"] = c.body["name"]
            /\ row["destination_system"] = c.body["destination_system"]
            /\ DOMAIN row = Columns
        BY <3>1
      <3>6. QED
        BY <3>2, <3>3, <3>4, <3>5 DEF Sound, IsRow
    <2>. HIDE DEF row
    <2>4. /\ jobs'[j] = Deleted /\ \A i \in JobIds \ {j} : jobs'[i] = jobs[i]
          /\ \A s \in Sessions \ {r} : at'[s] = at[s] /\ call'[s] = call[s]
                                       /\ flushed'[s] = flushed[s]
          /\ flushed'[r] = flushed[r] \/ flushed'[r] = row
          /\ at'[r] = "answered" => flushed'[r] = row
      BY <2>1 DEF Shape
    <2>5. call'[r].job = j /\ call'[r].op = "create"
      <3>1. [c EXCEPT !.job = j].job = j /\ [c EXCEPT !.job = j].op = "create"
        BY <2>2 DEF IsCall
      <3>2. QED
        BY <2>1, <3>1 DEF Shape
    <2>6. ASSUME NEW s \in Writers' PROVE Written(s)'
      <3>1. CASE s = r
        <4>1. flushed'[s] = row /\ call'[s].op = "create" /\ jobs'[call'[s].job] = Deleted
          BY <2>4, <2>5, <3>1 DEF Writers
        <4>2. QED
          BY <2>3, <4>1 DEF Written, Sound, IsRow
      <3>2. CASE s # r
        <4>1. s \in Writers /\ call'[s] = call[s] /\ flushed'[s] = flushed[s]
          BY <2>4, <3>2 DEF Writers
        <4>2. call[s].job # j
          BY <1>0, <2>1, <4>1
        <4>3. QED
          BY <1>0, <2>4, <4>1, <4>2, WrittenStays
      <3>3. QED
        BY <3>1, <3>2
    <2>7. \A i \in JobIds : jobs'[i] \in {NoJob, Deleted} \/ Sound(jobs'[i])
      BY <2>4 DEF Kept
    <2>8. \A s \in Sessions : flushed'[s] = Null \/ IsRow(flushed'[s])
      BY <2>3, <2>4 DEF Kept, Sound
    <2>9. QED
      BY <2>6, <2>7, <2>8 DEF Kept, Sound, IsRow
  <1>3. ASSUME NEW r \in Sessions, Update(r) PROVE Kept'
    <2>. DEFINE j == call[r].job
                row == Over(jobs[j], NetChange(r))
    <2>1. /\ at[r] = "loaded" /\ IsJob(jobs[j]) /\ Routed(call[r])
          /\ \/ at' = [at EXCEPT ![r] = "conflict"] /\ UNCHANGED flushed
             \/ /\ {col \in DOMAIN NetChange(r) : NetChange(r)[col] = Null} = {}
                /\ at' = [at EXCEPT ![r] = "answered"] /\ flushed' = [flushed EXCEPT ![r] = row]
          /\ UNCHANGED <<jobs, call>>
      BY <1>3 DEF Update
    <2>2. IsCall(call[r]) /\ j \in JobIds /\ call[r].op # "create" /\ Sound(jobs[j])
      BY <2>1 DEF Shape, Kept, IsJob
    <2>3. CASE at' = [at EXCEPT ![r] = "conflict"] /\ UNCHANGED flushed
      <3>1. \A s \in Writers' : s \in Writers
        BY <2>1, <2>3 DEF Writers, Shape
      <3>2. QED
        BY <1>0, <2>1, <2>3, <3>1, WrittenStays DEF Kept, Sound, IsRow
    <2>4. CASE /\ {col \in DOMAIN NetChange(r) : NetChange(r)[col] = Null} = {}
               /\ at' = [at EXCEPT ![r] = "answered"] /\ flushed' = [flushed EXCEPT ![r] = row]
      <3>1. /\ Sound(row)
            /\ \A col \in Columns : row[col] # jobs[j][col] =>
                 col \in DOMAIN Data(call[r]) /\ row[col] = call[r].body[col]
        BY <2>1, <2>2, <2>4, EditIsSound
      <3>. HIDE DEF row
      <3>2. flushed'[r] = row /\ \A s \in Sessions \ {r} : flushed'[s] = flushed[s]
        BY <2>4 DEF Shape
      <3>3. ASSUME NEW s \in Writers' PROVE Written(s)'
        <4>1. CASE s = r
          <5>1. flushed'[s] = row /\ call'[s] = call[r] /\ jobs'[call'[s].job] = jobs[j]
            BY <2>1, <3>2, <4>1
          <5>2. QED
            BY <2>2, <3>1, <5>1 DEF Written, Sound, IsRow, Data
        <4>2. CASE s # r
          <5>1. s \in Writers
            BY <2>1, <2>4, <4>2 DEF Writers, Shape
          <5>2. QED
            BY <1>0, <2>1, <3>2, <4>2, <5>1, WrittenStays
        <4>3. QED
          BY <4>1, <4>2
      <3>4. \A s \in Sessions : flushed'[s] = Null \/ IsRow(flushed'[s])
        BY <3>1, <3>2 DEF Kept, Sound
      <3>5. QED
        BY <2>1, <3>3, <3>4 DEF Kept, Sound, IsRow
    <2>5. QED
      BY <2>1, <2>3, <2>4
  <1>4. ASSUME NEW r \in Sessions, Forget(r), at' = [at EXCEPT ![r] = "idle"],
               \A s \in Writers \ {r} : jobs'[call[s].job] = jobs[call[s].job],
               \A i \in JobIds : jobs'[i] \in {NoJob, Deleted} \/ Sound(jobs'[i])
        PROVE  Kept'
    <2>1. /\ at'[r] = "idle" /\ flushed'[r] = Null
          /\ \A s \in Sessions \ {r} : at'[s] = at[s] /\ call'[s] = call[s]
                                       /\ flushed'[s] = flushed[s]
      BY <1>4 DEF Forget, Shape
    <2>2. \A s \in Writers' : s \in Writers \ {r}
      BY <2>1 DEF Writers
    <2>3. \A s \in Writers' : Written(s)'
      BY <1>0, <1>4, <2>1, <2>2, WrittenStays
    <2>4. \A s \in Sessions : flushed'[s] = Null \/ IsRow(flushed'[s])
      BY <2>1 DEF Kept
    <2>5. QED
      BY <1>4, <2>3, <2>4 DEF Kept, Sound, IsRow
  <1>5. ASSUME NEW r \in Sessions, Commit(r) PROVE Kept'
    <2>1. call[r].job \in JobIds /\ at[r] = "answered"
      BY <1>5 DEF Commit, Shape
    <2>2. PICK row : jobs' = [jobs EXCEPT ![call[r].job] = row] /\ (row = Deleted \/ Sound(row))
      BY <1>5, <1>0, <2>1 DEF Commit, Writers, Written
    <2>3. \A i \in JobIds : jobs'[i] \in {NoJob, Deleted} \/ Sound(jobs'[i])
      BY <2>2 DEF Kept, Shape
    <2>4. \A s \in Writers \ {r} : call[s].job # call[r].job
      <3>1. CASE call[r].op = "delete"
        BY <1>5, <3>1 DEF Commit, RowFree
      <3>2. CASE call[r].op # "delete"
        BY <1>0, <2>1, <3>2 DEF Writers
      <3>3. QED
        BY <3>1, <3>2
    <2>5. \A s \in Writers \ {r} : jobs'[call[s].job] = jobs[call[s].job]
      BY <1>0, <2>1, <2>2, <2>4 DEF Shape
    <2>6. Forget(r) /\ at' = [at EXCEPT ![r] = "idle"]
      BY <1>5 DEF Commit
    <2>7. QED
      BY <1>4, <2>3, <2>5, <2>6
  <1>6. ASSUME NEW r \in Sessions, Rollback(r) PROVE Kept'
    BY <1>0, <1>4, <1>6 DEF Rollback, Kept
  <1>7. CASE UNCHANGED vars
    <2>1. Writers' = Writers
      BY <1>7 DEF vars, Writers
    <2>2. QED
      BY <1>0, <1>7, <2>1, WrittenStays DEF vars, Kept, Sound, IsRow
  <1>8. QED
    BY <1>1, <1>2, <1>3, <1>5, <1>6, <1>7 DEF Next

LEMMA Start == Init => Shape /\ Apart /\ Kept
  <1>. SUFFICES ASSUME Init PROVE Shape /\ Apart /\ Kept
    OBVIOUS
  <1>1. Shape
    BY DEF Init, Shape, Places
  <1>2. Writers = {}
    BY DEF Init, Writers
  <1>3. \A j \in JobIds : ~IsJob(jobs[j]) /\ jobs[j] = NoJob
    BY DEF Init, IsJob
  <1>4. Apart
    BY <1>2, <1>3 DEF Apart, RowsApart, KeysApart, UniqueJobs
  <1>5. Kept
    BY <1>2, <1>3 DEF Init, Kept
  <1>6. QED
    BY <1>1, <1>4, <1>5

\* The key of a job is its own whatever calls overlap.
THEOREM JobsStayUnique == Spec => []UniqueJobs
  <1>1. Apart => UniqueJobs
    BY DEF Apart
  <1>2. QED
    BY <1>1, Start, ShapeStep, ApartStep, PTL DEF Spec

\* The rows on record and those being written keep their type.
THEOREM JobTypes == Spec => []TypeOK
  <1>1. Shape /\ Kept => TypeOK
    BY DEF Shape, Kept, TypeOK, Sound
  <1>2. QED
    BY <1>1, Start, ShapeStep, ApartStep, KeptStep, PTL DEF Spec

\* Every job that is committed was checked for its routing, or got it from a
\* row that was.
THEOREM JobsStayRoutable == Spec => []JobsAreRoutable
  <1>1. Kept => JobsAreRoutable
    BY DEF Kept, JobsAreRoutable, Sound, IsJob
  <1>2. QED
    BY <1>1, Start, ShapeStep, ApartStep, KeptStep, PTL DEF Spec

\* Overlapping edits of a job leave alone what they do not name.
THEOREM EditsDoNotOverwrite == Spec => EditsKeepToTheirColumns
  <1>. DEFINE Named(r, j) ==
         \A col \in Columns :
           jobs'[j][col] # jobs[j][col] =>
             /\ at[r] = "answered" /\ call[r].job = j /\ col \in DOMAIN call[r].body
             /\ jobs'[j][col] = call[r].body[col]
             /\ col = "owner" => call[r].sub \in Admins
  <1>1. ASSUME Shape, Kept, Next, NEW j \in JobIds, IsJob(jobs[j]), IsJob(jobs'[j])
        PROVE  \E r \in Sessions : Named(r, j)
    <2>1. ASSUME NEW r \in Sessions, jobs'[j] = jobs[j] PROVE \E s \in Sessions : Named(s, j)
      BY <2>1
    <2>2. ASSUME NEW r \in Sessions, NEW c \in Calls, Load(r, c) PROVE jobs'[j] = jobs[j]
      BY <2>2 DEF Load
    <2>3. ASSUME NEW r \in Sessions, NEW c \in Calls, Create(r, c) PROVE jobs'[j] = jobs[j]
      <3>1. PICK i \in JobIds : jobs' = [jobs EXCEPT ![i] = Deleted]
        BY <2>3 DEF Create
      <3>2. QED
        BY <1>1, <3>1 DEF Shape, IsJob
    <2>4. ASSUME NEW r \in Sessions, Update(r) \/ Rollback(r) PROVE jobs'[j] = jobs[j]
      BY <2>4 DEF Update, Rollback
    <2>5. ASSUME NEW r \in Sessions, Commit(r) PROVE \E s \in Sessions : Named(s, j)
      <3>1. at[r] = "answered" /\ call[r].job \in JobIds
        BY <1>1, <2>5 DEF Commit, Shape
      <3>2. CASE call[r].job # j
        <4>1. jobs'[j] = jobs[j]
          BY <1>1, <2>5, <3>2 DEF Commit, Shape
        <4>2. QED
          BY <2>1, <4>1
      <3>3. CASE call[r].job = j /\ call[r].op = "delete"
        BY <1>1, <2>5, <3>3 DEF Commit, IsJob, Shape
      <3>4. CASE call[r].job = j /\ call[r].op # "delete"
        <4>1. jobs'[j] = flushed[r]
          BY <1>1, <2>5, <3>4 DEF Commit, Shape
        <4>2. Written(r) /\ call[r].op # "create"
          BY <1>1, <3>1, <3>4 DEF Kept, Writers, Written, IsJob
        <4>3. \A col \in Columns : jobs'[j][col] # jobs[j][col] =>
                col \in DOMAIN Data(call[r]) /\ jobs'[j][col] = call[r].body[col]
          BY <3>4, <4>1, <4>2 DEF Written
        <4>4. /\ DOMAIN Data(call[r]) \subseteq DOMAIN call[r].body
              /\ "owner" \in DOMAIN Data(call[r]) => call[r].sub \in Admins
          BY DataIsOfBody
        <4>5. Named(r, j)
          BY <3>1, <3>4, <4>3, <4>4
        <4>6. QED
          BY <4>5
      <3>5. QED
        BY <3>2, <3>3, <3>4
    <2>. HIDE DEF Named
    <2>6. QED
      BY <1>1, <2>1, <2>2, <2>3, <2>4, <2>5 DEF Next
  <1>2. Shape /\ Kept /\ [Next]_vars =>
          [\A j \in JobIds : IsJob(jobs[j]) /\ IsJob(jobs'[j]) => \E r \in Sessions : Named(r, j)]_vars
    BY <1>1
  <1>3. QED
    BY <1>2, Start, ShapeStep, ApartStep, KeptStep, PTL DEF Spec, EditsKeepToTheirColumns

-------------------------------------------------------------------------------
\* No call in progress names a null.
NoNulls == \A r \in Sessions : at[r] # "idle" =>
             \A col \in DOMAIN call[r].body : call[r].body[col] # Null

LEMMA NoNullsStep ==
  ASSUME \A c \in Calls : \A col \in DOMAIN c.body : c.body[col] # Null,
         Shape, NoNulls, [Next]_vars
  PROVE  NoNulls'
  <1>1. ASSUME NEW r \in Sessions, NEW c \in Calls, Load(r, c) PROVE NoNulls'
    <2>1. call'[r] = c /\ \A s \in Sessions \ {r} : at'[s] = at[s] /\ call'[s] = call[s]
      BY <1>1 DEF Load, Shape
    <2>2. QED
      BY <2>1 DEF NoNulls
  <1>2. ASSUME NEW r \in Sessions, NEW c \in Calls, Create(r, c) PROVE NoNulls'
    <2>1. PICK j \in JobIds :
            /\ call' = [call EXCEPT ![r] = [c EXCEPT !.job = j]]
            /\ \E place : at' = [at EXCEPT ![r] = place]
      BY <1>2 DEF Create
    <2>2. \A s \in Sessions \ {r} : at'[s] = at[s] /\ call'[s] = call[s]
      BY <2>1 DEF Shape
    <2>3. call'[r].body = c.body
      <3>1. [c EXCEPT !.job = j].body = c.body
        BY JobApiAssumption DEF IsCall
      <3>2. QED
        BY <2>1, <3>1 DEF Shape
    <2>4. QED
      BY <2>2, <2>3 DEF NoNulls
  <1>3. ASSUME NEW r \in Sessions, Update(r) PROVE NoNulls'
    BY <1>3 DEF Update, NoNulls, Shape
  <1>4. ASSUME NEW r \in Sessions, Commit(r) \/ Rollback(r) PROVE NoNulls'
    BY <1>4 DEF Commit, Rollback, Forget, NoNulls, Shape
  <1>5. CASE UNCHANGED vars
    BY <1>5 DEF vars, NoNulls
  <1>6. QED
    BY <1>1, <1>2, <1>3, <1>4, <1>5 DEF Next

\* As long as no call names a null, a 409 is about a duplicate on record.
THEOREM ConflictsAreDuplicates ==
  ASSUME \A c \in Calls : \A col \in DOMAIN c.body : c.body[col] # Null
  PROVE  Spec => ConflictIsDuplicate
  <1>1. ASSUME Shape, NoNulls, [Next]_vars,
               NEW r \in Sessions, at[r] # "conflict", at'[r] = "conflict"
        PROVE  IF at[r] = "loaded" THEN /\ IsJob(jobs[call[r].job])
                                        /\ Collides(Over(jobs[call[r].job], NetChange(r)), call[r].job)
                                   ELSE Collides(copy'[r], call'[r].job)
    <2>1. ASSUME NEW s \in Sessions, NEW c \in Calls, Load(s, c) PROVE FALSE
      BY <1>1, <2>1 DEF Load, Shape
    <2>2. ASSUME NEW s \in Sessions, Commit(s) \/ Rollback(s) PROVE FALSE
      BY <1>1, <2>2 DEF Commit, Rollback, Shape
    <2>3. ASSUME NEW s \in Sessions, NEW c \in Calls, Create(s, c)
          PROVE  at[r] = "idle" /\ Collides(copy'[r], call'[r].job)
      <3>. DEFINE row == [col \in Columns |-> IF col = "owner" THEN OwnerOf(c) ELSE c.body[col]]
      <3>1. PICK j \in JobIds :
              /\ IF Collides(row, j)
                 THEN at' = [at EXCEPT ![s] = "conflict"]
                 ELSE at' = [at EXCEPT ![s] = "answered"]
              /\ call' = [call EXCEPT ![s] = [c EXCEPT !.job = j]]
              /\ copy' = [copy EXCEPT ![s] = row]
        BY <2>3 DEF Create
      <3>. HIDE DEF row
      <3>2. s = r /\ Collides(row, j)
        BY <1>1, <3>1 DEF Shape
      <3>3. [c EXCEPT !.job = j].job = j
        BY JobApiAssumption DEF IsCall
      <3>4. copy'[r] = row /\ call'[r].job = j
        BY <1>1, <3>1, <3>2, <3>3 DEF Shape
      <3>5. at[r] = "idle"
        BY <2>3, <3>2 DEF Create
      <3>6. QED
        BY <3>2, <3>4, <3>5
    <2>4. ASSUME NEW s \in Sessions, Update(s)
          PROVE  /\ at[r] = "loaded" /\ IsJob(jobs[call[r].job])
                 /\ Collides(Over(jobs[call[r].job], NetChange(r)), call[r].job)
      <3>1. s = r
        BY <1>1, <2>4 DEF Update, Shape
      <3>2. \A col \in DOMAIN NetChange(r) : NetChange(r)[col] # Null
        <4>1. \A col \in DOMAIN NetChange(r) :
                col \in DOMAIN Data(call[r]) /\ NetChange(r)[col] = Data(call[r])[col]
          BY DEF NetChange
        <4>2. \A col \in DOMAIN Data(call[r]) :
                col \in DOMAIN call[r].body /\ Data(call[r])[col] = call[r].body[col]
          BY DataIsOfBody
        <4>3. at[r] # "idle"
          BY <2>4, <3>1 DEF Update
        <4>4. QED
          BY <1>1, <4>1, <4>2, <4>3 DEF NoNulls
      <3>3. {col \in DOMAIN NetChange(r) : NetChange(r)[col] = Null} = {}
        BY <3>2
      <3>4. at[r] = "loaded" /\ IsJob(jobs[call[r].job])
        BY <2>4, <3>1 DEF Update
      <3>5. Collides(Over(jobs[call[r].job], NetChange(r)), call[r].job)
        BY <1>1, <2>4, <3>1, <3>3 DEF Update, Shape
      <3>6. QED
        BY <3>4, <3>5
    <2>5. CASE UNCHANGED vars
      BY <1>1, <2>5 DEF vars
    <2>6. QED
      BY <1>1, <2>1, <2>2, <2>3, <2>4, <2>5 DEF Next
  <1>2. Init => NoNulls
    BY DEF Init, NoNulls
  <1>3. Shape /\ NoNulls /\ [Next]_vars =>
          [\A r \in Sessions :
             at[r] # "conflict" /\ at'[r] = "conflict" =>
               IF at[r] = "loaded" THEN /\ IsJob(jobs[call[r].job])
                                        /\ Collides(Over(jobs[call[r].job], NetChange(r)), call[r].job)
                                   ELSE Collides(copy'[r], call'[r].job)]_vars
    BY <1>1
  <1>4. QED
    BY <1>2, <1>3, Start, ShapeStep, NoNullsStep, PTL DEF Spec, ConflictIsDuplicate
===============================================================================
