----------------------------- MODULE ApiLoopProofs -----------------------------
(***************************************************************************)
(* Proofs about ApiLoop, for any number of requests, jobs and connections. *)
(***************************************************************************)
EXTENDS ApiLoop, FiniteSetTheorems, TLAPS

LEMMA StatementTypes ==
  ASSUME NEW on \in SUBSET Rows
  PROVE  /\ Read(on) \in Statements /\ Check(on) \in Statements /\ Write(on) \in Statements
         /\ Read(on).mode = "read" /\ Check(on).mode = "check" /\ Write(on).mode = "write"
  BY DEF Read, Check, Write, Statements

LEMMA RowTypes ==
  ASSUME NEW j \in JobIds
  PROVE  /\ {Job(j)} \in SUBSET Rows /\ {Sub(j)} \in SUBSET Rows
         /\ {Job(i) : i \in JobIds} \in SUBSET Rows
  BY DEF Job, Sub, Rows

LEMMA TransactionTypes ==
  /\ \A r \in Requests : kind \in [Requests -> Kinds] =>
       InHandler(r) \in Seq(Statements) /\ AtExit(r) \in Seq(Statements)
  /\ \A j \in JobIds :
       /\ Deliveries(j) \subseteq Seq(Statements)
       /\ <<Write({Job(j)})>> \in Seq(Statements)
  /\ <<Read({Job(i) : i \in JobIds})>> \in Seq(Statements)
  <1>1. ASSUME NEW r \in Requests, kind \in [Requests -> Kinds]
        PROVE  InHandler(r) \in Seq(Statements) /\ AtExit(r) \in Seq(Statements)
    <2>1. TargetOf[r] \in JobIds /\ kind[r] \in Kinds
      BY <1>1, ApiLoopAssumption
    <2>. DEFINE job == {Job(TargetOf[r])}
                sub == {Sub(TargetOf[r])}
                all == {Job(i) : i \in JobIds}
    <2>2. /\ Read(job) \in Statements /\ Read(sub) \in Statements /\ Read(all) \in Statements
          /\ Write(job) \in Statements /\ Write(sub) \in Statements
      BY <2>1, RowTypes, StatementTypes
    <2>. HIDE DEF job, sub, all
    <2>3. /\ <<Read(all)>> \in Seq(Statements) /\ <<Write(job)>> \in Seq(Statements)
          /\ <<Read(job), Write(job)>> \in Seq(Statements)
          /\ <<Read(job), Read(sub)>> \in Seq(Statements) /\ <<Read(job)>> \in Seq(Statements)
          /\ <<Write(job), Write(sub)>> \in Seq(Statements) /\ <<Write(sub)>> \in Seq(Statements)
          /\ <<>> \in Seq(Statements)
      BY <2>2
    <2>4. InHandler(r) \in {<<Read(all)>>, <<Write(job)>>, <<Read(job), Write(job)>>,
                            <<Read(job), Read(sub)>>, <<Read(job)>>}
      BY <2>1 DEF InHandler, Kinds, job, sub, all
    <2>5. AtExit(r) \in {<<Write(job), Write(sub)>>, <<Write(sub)>>, <<>>}
      BY DEF AtExit, job, sub
    <2>6. QED
      BY <2>3, <2>4, <2>5
  <1>2. ASSUME NEW j \in JobIds
        PROVE  Deliveries(j) \subseteq Seq(Statements) /\ <<Write({Job(j)})>> \in Seq(Statements)
    <2>1. /\ Read({Sub(j)}) \in Statements /\ Write({Sub(j)}) \in Statements
          /\ Check({Job(j)}) \in Statements /\ Write({Job(j)}) \in Statements
      BY RowTypes, StatementTypes
    <2>2. QED
      BY <2>1 DEF Deliveries
  <1>3. <<Read({Job(i) : i \in JobIds})>> \in Seq(Statements)
    <2>1. {Job(i) : i \in JobIds} \in SUBSET Rows
      BY DEF Job, Rows
    <2>2. Read({Job(i) : i \in JobIds}) \in Statements
      BY <2>1, StatementTypes
    <2>3. QED
      BY <2>2
  <1>4. QED
    BY <1>1, <1>2, <1>3

LEMMA PoolTakes ==
  ASSUME TypeOK, NEW a \in Actors, a \notin conns, Cardinality(conns) < PoolSize
  PROVE  IsFiniteSet(conns \cup {a}) /\ Cardinality(conns \cup {a}) <= PoolSize
  <1>1. /\ IsFiniteSet(conns \cup {a})
        /\ Cardinality(conns) \in Nat /\ Cardinality(conns \cup {a}) = Cardinality(conns) + 1
    BY FS_AddElement, FS_CardinalityType DEF TypeOK
  <1>2. QED
    BY <1>1, ApiLoopAssumption

LEMMA PoolGivesBack ==
  ASSUME TypeOK, NEW rest \in SUBSET conns
  PROVE  rest \in SUBSET Actors /\ IsFiniteSet(rest) /\ Cardinality(rest) <= PoolSize
  <1>1. /\ IsFiniteSet(rest) /\ Cardinality(rest) <= Cardinality(conns)
        /\ Cardinality(rest) \in Nat /\ Cardinality(conns) \in Nat
    BY FS_Subset, FS_CardinalityType DEF TypeOK
  <1>2. QED
    BY <1>1, ApiLoopAssumption DEF TypeOK

LEMMA HeadAndTail ==
  ASSUME TypeOK, NEW a \in Actors, todo[a] # <<>>
  PROVE  Head(todo[a]) \in Statements /\ Tail(todo[a]) \in Seq(Statements)
  BY DEF TypeOK

LEMMA NextTypes == TypeOK /\ [Next]_vars => TypeOK'
  <1>. SUFFICES ASSUME TypeOK, [Next]_vars PROVE TypeOK'
    OBVIOUS
  <1>. Poll \in Actors /\ Requests \subseteq Actors /\ Poll \notin Requests
    BY ApiLoopAssumption DEF Actors
  <1>1. ASSUME NEW a \in Actors, Connect(a) PROVE TypeOK'
    BY <1>1, PoolTakes DEF Connect, TypeOK
  <1>2. ASSUME NEW a \in Actors, Execute(a) PROVE TypeOK'
    BY <1>2, HeadAndTail DEF Execute, TypeOK
  <1>3. ASSUME NEW a \in Actors, Release(a)
        PROVE  /\ conns' \in SUBSET Actors /\ IsFiniteSet(conns') /\ Cardinality(conns') <= PoolSize
               /\ lock' \in [Rows -> Actors \cup {None}]
               /\ todo' \in [Actors -> Seq(Statements)]
    BY <1>3, PoolGivesBack DEF Release, TypeOK
  <1>4. ASSUME NEW r \in Requests, NEW place \in Places, GoTo(r, place)
        PROVE  /\ at' \in [Actors -> Places \cup PollPlaces] /\ at'[Poll] \in PollPlaces
               /\ \A s \in Requests : at'[s] \in Places
    BY <1>4 DEF GoTo, TypeOK
  <1>5. ASSUME NEW place \in PollPlaces, GoTo(Poll, place)
        PROVE  /\ at' \in [Actors -> Places \cup PollPlaces] /\ at'[Poll] \in PollPlaces
               /\ \A s \in Requests : at'[s] \in Places
    BY <1>5 DEF GoTo, TypeOK
  <1>6. ASSUME NEW r \in Requests, RequestStep(r) PROVE TypeOK'
    <2>. {"ready", "handler", "answered", "refused", "commit", "rollback", "closed"} \subseteq Places
      BY DEF Places
    <2>1. CASE Begin(r)
      BY <1>4, <2>1, TransactionTypes DEF Begin, TypeOK
    <2>2. CASE Answer(r)
      BY <1>4, <2>2 DEF Answer, TypeOK
    <2>3. CASE Refuse(r)
      <3>1. conns' \in SUBSET conns
        BY <2>3 DEF Refuse
      <3>2. conns' \in SUBSET Actors /\ IsFiniteSet(conns') /\ Cardinality(conns') <= PoolSize
        BY <3>1, PoolGivesBack
      <3>3. QED
        BY <1>4, <2>3, <3>2 DEF Refuse, TypeOK
    <2>4. CASE Resume(r)
      <3>1. (IF at[r] = "answered" THEN AtExit(r) ELSE <<>>) \in Seq(Statements)
        BY TransactionTypes DEF TypeOK
      <3>2. todo' \in [Actors -> Seq(Statements)]
        BY <2>4, <3>1 DEF Resume, TypeOK
      <3>3. QED
        BY <1>4, <2>4, <3>2 DEF Resume, TypeOK
    <2>5. CASE Close(r)
      BY <1>3, <1>4, <2>5 DEF Close, TypeOK
    <2>6. CASE Reject(r)
      BY <1>4, <2>6 DEF Reject, TypeOK
    <2>7. QED
      BY <1>1, <1>2, <1>6, <2>1, <2>2, <2>3, <2>4, <2>5, <2>6 DEF RequestStep
  <1>7. ASSUME NEW from, NEW place \in PollPlaces, PollEnds(from, place) PROVE TypeOK'
    BY <1>3, <1>5, <1>7 DEF PollEnds, TypeOK
  <1>8. ASSUME NEW from, NEW place \in PollPlaces, NEW s \in Seq(Statements),
               PollBegins(from, place, s)
        PROVE  TypeOK'
    BY <1>5, <1>8 DEF PollBegins, TypeOK
  <1>9. CASE PollStep
    <2>. {"idle", "load", "loaded", "deliver", "delivered", "stamp"} \subseteq PollPlaces
      BY DEF PollPlaces
    <2>1. CASE PollSteps
      BY <1>7, <1>8, <2>1, TransactionTypes DEF PollSteps
    <2>2. CASE PollFails
      BY <1>3, <1>5, <2>2 DEF PollFails, TypeOK
    <2>3. QED
      BY <1>1, <1>2, <1>9, <2>1, <2>2 DEF PollStep
  <1>10. CASE UNCHANGED vars
    BY <1>10 DEF vars, TypeOK
  <1>11. QED
    BY <1>6, <1>9, <1>10 DEF Next

LEMMA InitTypes == Init => TypeOK
  <1>. SUFFICES ASSUME Init PROVE TypeOK
    OBVIOUS
  <1>1. IsFiniteSet({}) /\ Cardinality({}) <= PoolSize
    BY FS_EmptySet, ApiLoopAssumption
  <1>2. QED
    BY <1>1, ApiLoopAssumption DEF Init, TypeOK, Actors, Places, PollPlaces

\* Every variable keeps its type, the pool its limit.
THEOREM ApiTypes == Spec => []TypeOK
  BY InitTypes, NextTypes, PTL DEF Spec

-------------------------------------------------------------------------------
(* Who the request at the loop waits for. A handler that only reads keeps  *)
(* nothing and, with row versioning, waits for nobody. One that flushes    *)
(* waits for the row of its job alone, and whoever has such a row wants no *)
(* other, as every transaction takes the row of a job last, or before      *)
(* rows of submissions only.                                               *)

\* What a request may write before it is answered.
EditKinds == {"create", "update"}
MayEdit(r) == KindsOf[r] \cap EditKinds # {}

\* Nobody edits, or readers need not wait and no two edits are of one job.
EditsApart ==
  \/ \A r \in Requests : ~MayEdit(r)
  \/ /\ ~ReadersWait
     /\ \A r, s \in Requests : MayEdit(r) /\ MayEdit(s) /\ r # s => TargetOf[r] # TargetOf[s]

JobRows == {Job(j) : j \in JobIds}

WritesJob(s) == s.mode = "write" /\ s.on \cap JobRows # {}
NoJobs(statements) == \A i \in 1 .. Len(statements) : statements[i].on \cap JobRows = {}

JobsLast(statements) ==
  \A i, k \in 1 .. Len(statements) : i < k /\ WritesJob(statements[i]) =>
    statements[k].on \cap JobRows = {}

\* An actor with the row of a job wants no row of a job.
Orderly(a) ==
  /\ JobsLast(todo[a])
  /\ (\E x \in JobRows : lock[x] = a) => NoJobs(todo[a])

\* Up to its commit a request has at most the row it edits.
HandlerOK(r) ==
  \A i \in 1 .. Len(todo[r]) :
    \/ todo[r][i].mode = "read"
    \/ kind[r] \in EditKinds /\ todo[r][i].on = {Job(TargetOf[r])}

RequestOK(r) ==
  /\ kind[r] \in KindsOf[r]
  /\ loop = r <=> at[r] = "handler"
  /\ at[r] \in {"ready", "answered", "refused", "rollback", "closed"} => todo[r] = <<>>
  /\ at[r] = "handler" => HandlerOK(r)
  /\ at[r] \in {"ready", "closed"} => \A x \in Rows : lock[x] # r
  /\ at[r] # "commit" => \A x \in Rows : lock[x] = r => kind[r] \in EditKinds /\ x = Job(TargetOf[r])

PollOK ==
  at[Poll] \in {"idle", "loaded", "delivered"} =>
    todo[Poll] = <<>> /\ \A x \in Rows : lock[x] # Poll

Tidy(a) ==
  /\ Orderly(a)
  /\ a \in Requests => RequestOK(a)
  /\ a = Poll => PollOK

LEMMA ActorTypes ==
  /\ Actors = Requests \cup {Poll} /\ Poll \notin Requests /\ None \notin Actors
  /\ JobRows \subseteq Rows
  /\ \A r \in Requests : TargetOf[r] \in JobIds /\ Job(TargetOf[r]) \in JobRows
  BY ApiLoopAssumption DEF Actors, JobRows, Rows, Job

\* The transactions of both sides, by what they ask for when.
LEMMA TransactionOrder ==
  /\ \A r \in Requests : kind[r] \in Kinds =>
       /\ JobsLast(InHandler(r)) /\ JobsLast(AtExit(r))
       /\ \A i \in 1 .. Len(InHandler(r)) :
            \/ InHandler(r)[i].mode = "read"
            \/ kind[r] \in EditKinds /\ InHandler(r)[i].on = {Job(TargetOf[r])}
       /\ kind[r] \in EditKinds => AtExit(r) = <<>>
  /\ \A j \in JobIds :
       /\ \A d \in Deliveries(j) : JobsLast(d)
       /\ JobsLast(<<Write({Job(j)})>>)
  /\ JobsLast(<<Read({Job(j) : j \in JobIds})>>)
  /\ JobsLast(<<>>)
  <1>. \A j \in JobIds : {Sub(j)} \cap JobRows = {}
    BY DEF Sub, Job, JobRows
  <1>1. \A on, on2 : JobsLast(<<Read(on), Write(on2)>>) /\ JobsLast(<<Read(on), Read(on2)>>)
    BY DEF JobsLast, WritesJob, Read, Write
  <1>2. JobsLast(<<>>) /\ \A s : JobsLast(<<s>>)
    BY DEF JobsLast
  <1>3. \A j \in JobIds : JobsLast(<<Write({Job(j)}), Write({Sub(j)})>>)
    BY DEF JobsLast, WritesJob, Write
  <1>4. ASSUME NEW j \in JobIds, NEW d \in Deliveries(j) PROVE JobsLast(d)
    <2>1. ~WritesJob(Read({Sub(j)})) /\ ~WritesJob(Write({Sub(j)}))
      BY DEF WritesJob, Read, Write
    <2>2. JobsLast(<<Read({Sub(j)}), Write({Sub(j)}), Check({Job(j)})>>)
      BY <2>1 DEF JobsLast
    <2>3. QED
      BY <1>1, <1>4, <2>2 DEF Deliveries
  <1>5. ASSUME NEW r \in Requests, kind[r] \in Kinds
        PROVE  JobsLast(InHandler(r)) /\ JobsLast(AtExit(r))
    <2>1. JobsLast(InHandler(r))
      BY <1>1, <1>2, <1>5 DEF InHandler, Kinds
    <2>2. QED
      BY <1>2, <1>3, <2>1, ActorTypes DEF AtExit
  <1>6. ASSUME NEW r \in Requests, kind[r] \in Kinds, NEW i \in 1 .. Len(InHandler(r))
        PROVE  \/ InHandler(r)[i].mode = "read"
               \/ kind[r] \in EditKinds /\ InHandler(r)[i].on = {Job(TargetOf[r])}
    BY <1>6 DEF InHandler, Kinds, EditKinds, Read, Write
  <1>7. \A r \in Requests : kind[r] \in EditKinds => AtExit(r) = <<>>
    BY DEF EditKinds, AtExit
  <1>8. QED
    BY <1>2, <1>4, <1>5, <1>6, <1>7

LEMMA NextStatement ==
  ASSUME NEW s \in Seq(Statements), s # <<>>
  PROVE  /\ Head(s) = s[1] /\ 1 \in 1 .. Len(s)
         /\ Tail(s) \in Seq(Statements) /\ Len(Tail(s)) = Len(s) - 1 /\ Len(s) \in Nat
         /\ \A i \in 1 .. Len(Tail(s)) : i + 1 \in 1 .. Len(s) /\ Tail(s)[i] = s[i + 1]
  OBVIOUS

\* A statement further: what comes after the row of a job is about no job.
LEMMA JobsStayLast ==
  ASSUME NEW s \in Seq(Statements), s # <<>>, JobsLast(s)
  PROVE  /\ JobsLast(Tail(s))
         /\ WritesJob(Head(s)) => NoJobs(Tail(s))
         /\ NoJobs(s) => NoJobs(Tail(s))
  <1>. DEFINE t == Tail(s)
  <1>1. /\ Head(s) = s[1] /\ 1 \in 1 .. Len(s) /\ Len(s) \in Nat /\ Len(t) = Len(s) - 1
        /\ \A i \in 1 .. Len(t) : i + 1 \in 1 .. Len(s) /\ t[i] = s[i + 1] /\ 1 < i + 1
    BY NextStatement
  <1>. HIDE DEF t
  <1>2. JobsLast(t)
    <2>. SUFFICES ASSUME NEW i \in 1 .. Len(t), NEW k \in 1 .. Len(t), i < k, WritesJob(t[i])
                  PROVE  t[k].on \cap JobRows = {}
      BY DEF JobsLast
    <2>1. i + 1 < k + 1 /\ WritesJob(s[i + 1])
      BY <1>1
    <2>2. QED
      BY <1>1, <2>1 DEF JobsLast
  <1>3. WritesJob(Head(s)) => NoJobs(t)
    BY <1>1 DEF JobsLast, NoJobs
  <1>4. NoJobs(s) => NoJobs(t)
    BY <1>1 DEF NoJobs
  <1>5. QED
    BY <1>2, <1>3, <1>4 DEF t

\* The step is a's: of the others it takes nothing but the locks a releases.
StepOf(a) ==
  /\ UNCHANGED kind
  /\ \A b \in Actors \ {a} :
       /\ todo'[b] = todo[b] /\ at'[b] = at[b] /\ (loop' = b <=> loop = b)
       /\ \A x \in Rows : lock'[x] = b => lock[x] = b

LEMMA OthersStayTidy ==
  ASSUME NEW a \in Actors, StepOf(a), NEW b \in Actors \ {a}, Tidy(b)
  PROVE  Tidy(b)'
  <1>1. /\ todo'[b] = todo[b] /\ at'[b] = at[b] /\ (loop' = b <=> loop = b) /\ kind' = kind
        /\ \A x \in Rows : lock'[x] = b => lock[x] = b
    BY DEF StepOf
  <1>2. Orderly(b)'
    BY <1>1, ActorTypes DEF Tidy, Orderly
  <1>3. b \in Requests => RequestOK(b)'
    BY <1>1 DEF Tidy, RequestOK, HandlerOK
  <1>4. b = Poll => PollOK'
    BY <1>1 DEF Tidy, PollOK
  <1>5. QED
    BY <1>2, <1>3, <1>4 DEF Tidy

LEMMA ReleaseLeaves ==
  ASSUME TypeOK, NEW a \in Actors, Release(a)
  PROVE  /\ todo'[a] = <<>> /\ \A x \in Rows : lock'[x] # a
         /\ \A b \in Actors \ {a} : todo'[b] = todo[b] /\ \A x \in Rows : lock'[x] = b => lock[x] = b
  BY ActorTypes DEF Release, TypeOK

LEMMA ConnectTidy ==
  ASSUME NEW a \in Actors, Tidy(a), Connect(a)
  PROVE  Tidy(a)' /\ StepOf(a)
  BY DEF Connect, Tidy, Orderly, RequestOK, HandlerOK, PollOK, StepOf

LEMMA ExecuteTidy ==
  ASSUME TypeOK, NEW a \in Actors, Tidy(a), Execute(a)
  PROVE  Tidy(a)' /\ StepOf(a)
  <1>. DEFINE s == Head(todo[a])
  <1>1. /\ todo[a] # <<>> /\ todo[a] \in Seq(Statements) /\ UNCHANGED <<kind, at, loop, conns>>
        /\ todo'[a] = Tail(todo[a]) /\ \A b \in Actors \ {a} : todo'[b] = todo[b]
        /\ lock' = [x \in Rows |-> IF s.mode = "write" /\ x \in s.on THEN a ELSE lock[x]]
    BY DEF Execute, TypeOK
  <1>2. s = todo[a][1] /\ 1 \in 1 .. Len(todo[a])
        /\ \A i \in 1 .. Len(todo'[a]) : i + 1 \in 1 .. Len(todo[a]) /\ todo'[a][i] = todo[a][i + 1]
    BY <1>1, NextStatement
  <1>. HIDE DEF s
  <1>3. StepOf(a)
    BY <1>1 DEF StepOf
  <1>4. Orderly(a)'
    <2>1. JobsLast(todo'[a]) /\ (WritesJob(s) \/ NoJobs(todo[a]) => NoJobs(todo'[a]))
      BY <1>1, JobsStayLast DEF Tidy, Orderly, s
    <2>2. ASSUME NEW x \in JobRows, lock'[x] = a PROVE WritesJob(s) \/ NoJobs(todo[a])
      BY <1>1, <2>2, ActorTypes DEF Tidy, Orderly, WritesJob
    <2>3. QED
      BY <2>1, <2>2 DEF Orderly
  <1>5. ASSUME a \in Requests PROVE RequestOK(a)'
    <2>1. RequestOK(a) /\ at[a] \in {"handler", "commit"}
      BY <1>1, <1>5 DEF Tidy, RequestOK, TypeOK, Places
    <2>2. CASE at[a] = "commit"
      BY <1>1, <2>1, <2>2 DEF RequestOK
    <2>3. CASE at[a] = "handler"
      <3>1. HandlerOK(a)
        BY <2>1, <2>3 DEF RequestOK
      <3>2. HandlerOK(a)'
        BY <1>1, <1>2, <3>1 DEF HandlerOK
      <3>3. \A x \in Rows : lock'[x] = a => kind[a] \in EditKinds /\ x = Job(TargetOf[a])
        BY <1>1, <1>2, <2>1, <2>3, <3>1 DEF RequestOK, HandlerOK
      <3>4. QED
        BY <1>1, <2>1, <2>3, <3>2, <3>3 DEF RequestOK
    <2>4. QED
      BY <2>1, <2>2, <2>3
  <1>6. a = Poll => PollOK'
    BY <1>1 DEF Tidy, PollOK
  <1>7. QED
    BY <1>3, <1>4, <1>5, <1>6 DEF Tidy

\* Nothing to do and nothing locked, or something new to do with nothing locked.
LEMMA OrderlyAtRest ==
  ASSUME NEW a \in Actors, JobsLast(todo'[a]), \A x \in Rows : lock'[x] # a
  PROVE  Orderly(a)'
  BY ActorTypes DEF Orderly

LEMMA RequestTidy ==
  ASSUME TypeOK, NEW r \in Requests, Tidy(r), RequestStep(r)
  PROVE  Tidy(r)' /\ StepOf(r)
  <1>. /\ r \in Actors /\ r # Poll /\ r # None /\ \A b \in Actors : b # None
       /\ kind[r] \in Kinds /\ RequestOK(r)
    BY ActorTypes DEF Tidy, TypeOK
  <1>1. ASSUME NEW place, GoTo(r, place)
        PROVE  at'[r] = place /\ \A b \in Actors \ {r} : at'[b] = at[b]
    BY <1>1 DEF GoTo, TypeOK
  <1>2. CASE Begin(r)
    <2>1. /\ at[r] = "ready" /\ loop = None /\ loop' = r
          /\ todo'[r] = InHandler(r) /\ \A b \in Actors \ {r} : todo'[b] = todo[b]
          /\ at'[r] = "handler" /\ \A b \in Actors \ {r} : at'[b] = at[b]
          /\ UNCHANGED <<kind, conns, lock>>
      BY <1>1, <1>2 DEF Begin, TypeOK
    <2>2. \A x \in Rows : lock'[x] # r
      BY <2>1 DEF RequestOK
    <2>3. HandlerOK(r)' /\ JobsLast(todo'[r])
      BY <2>1, TransactionOrder DEF HandlerOK
    <2>4. RequestOK(r)'
      BY <2>1, <2>2, <2>3 DEF RequestOK
    <2>5. StepOf(r)
      BY <2>1 DEF StepOf
    <2>6. QED
      BY <2>2, <2>3, <2>4, <2>5, OrderlyAtRest DEF Tidy
  <1>3. CASE Reject(r)
    <2>1. /\ at[r] = "ready" /\ UNCHANGED <<kind, todo, loop, conns, lock>> /\ loop = None
          /\ at'[r] = "refused" /\ \A b \in Actors \ {r} : at'[b] = at[b]
      BY <1>1, <1>3 DEF Reject
    <2>2. QED
      BY <2>1 DEF Tidy, Orderly, RequestOK, StepOf
  <1>4. CASE Answer(r)
    <2>1. /\ at[r] = "handler" /\ todo[r] = <<>> /\ loop' = None
          /\ UNCHANGED <<kind, todo, conns, lock>>
          /\ at'[r] = "answered" /\ \A b \in Actors \ {r} : at'[b] = at[b]
      BY <1>1, <1>4 DEF Answer
    <2>2. loop = r
      BY <2>1 DEF RequestOK
    <2>3. QED
      BY <2>1, <2>2 DEF Tidy, Orderly, RequestOK, StepOf
  <1>5. CASE Refuse(r)
    <2>1. /\ at[r] = "handler" /\ loop' = None /\ UNCHANGED <<kind, lock>>
          /\ \A x \in Rows : lock[x] # r
          /\ todo'[r] = <<>> /\ \A b \in Actors \ {r} : todo'[b] = todo[b]
          /\ at'[r] = "refused" /\ \A b \in Actors \ {r} : at'[b] = at[b]
      BY <1>1, <1>5 DEF Refuse, TypeOK
    <2>2. loop = r
      BY <2>1 DEF RequestOK
    <2>3. Orderly(r)'
      BY <2>1, OrderlyAtRest, TransactionOrder
    <2>4. QED
      BY <2>1, <2>2, <2>3 DEF Tidy, RequestOK, StepOf
  <1>6. CASE Resume(r)
    <2>1. /\ at[r] \in {"answered", "refused"} /\ loop = None /\ UNCHANGED <<kind, loop, conns, lock>>
          /\ todo'[r] = (IF at[r] = "answered" THEN AtExit(r) ELSE <<>>)
          /\ \A b \in Actors \ {r} : todo'[b] = todo[b] /\ at'[b] = at[b]
          /\ at'[r] = IF at[r] = "answered" THEN "commit" ELSE "rollback"
      BY <1>1, <1>6 DEF Resume, TypeOK
    <2>2. JobsLast(todo'[r])
      BY <2>1, TransactionOrder
    <2>3. (\E x \in Rows : lock[x] = r) => todo'[r] = <<>>
      BY <2>1, TransactionOrder DEF RequestOK
    <2>4. NoJobs(<<>>)
      BY DEF NoJobs
    <2>5. Orderly(r)'
      BY <2>1, <2>2, <2>3, <2>4, ActorTypes DEF Orderly
    <2>6. QED
      BY <2>1, <2>5 DEF Tidy, RequestOK, StepOf
  <1>7. CASE Close(r)
    <2>1. /\ at[r] \in {"commit", "rollback"} /\ UNCHANGED <<kind, loop>>
          /\ todo'[r] = <<>> /\ \A x \in Rows : lock'[x] # r
          /\ \A b \in Actors \ {r} :
               todo'[b] = todo[b] /\ \A x \in Rows : lock'[x] = b => lock[x] = b
          /\ at'[r] = "closed" /\ \A b \in Actors \ {r} : at'[b] = at[b]
      BY <1>1, <1>7, ReleaseLeaves DEF Close
    <2>2. Orderly(r)'
      BY <2>1, OrderlyAtRest, TransactionOrder
    <2>3. QED
      BY <2>1, <2>2 DEF Tidy, RequestOK, StepOf
  <1>8. QED
    BY <1>2, <1>3, <1>4, <1>5, <1>6, <1>7, ConnectTidy, ExecuteTidy DEF RequestStep

LEMMA PollTidy ==
  ASSUME TypeOK, Tidy(Poll), PollStep
  PROVE  Tidy(Poll)' /\ StepOf(Poll)
  <1>. Poll \in Actors /\ Poll \notin Requests
    BY ActorTypes
  <1>1. ASSUME NEW place, GoTo(Poll, place)
        PROVE  at'[Poll] = place /\ \A b \in Actors \ {Poll} : at'[b] = at[b]
    BY <1>1 DEF GoTo, TypeOK
  <1>2. ASSUME NEW from \in {"idle", "loaded", "delivered"}, NEW place \in {"load", "deliver", "stamp"},
               NEW s, JobsLast(s), PollBegins(from, place, s)
        PROVE  Tidy(Poll)' /\ StepOf(Poll)
    <2>1. /\ at[Poll] = from /\ UNCHANGED <<kind, loop, conns, lock>>
          /\ todo'[Poll] = s /\ at'[Poll] = place
          /\ \A b \in Actors \ {Poll} : todo'[b] = todo[b] /\ at'[b] = at[b]
      BY <1>1, <1>2 DEF PollBegins, TypeOK
    <2>2. \A x \in Rows : lock'[x] # Poll
      BY <1>2, <2>1 DEF Tidy, PollOK
    <2>3. Orderly(Poll)'
      BY <1>2, <2>1, <2>2, OrderlyAtRest
    <2>4. QED
      BY <1>2, <2>1, <2>3 DEF Tidy, PollOK, StepOf
  <1>3. ASSUME NEW place, Release(Poll), GoTo(Poll, place), UNCHANGED <<kind, loop>>
        PROVE  Tidy(Poll)' /\ StepOf(Poll)
    <2>1. /\ todo'[Poll] = <<>> /\ \A x \in Rows : lock'[x] # Poll
          /\ \A b \in Actors \ {Poll} :
               /\ todo'[b] = todo[b] /\ at'[b] = at[b]
               /\ \A x \in Rows : lock'[x] = b => lock[x] = b
      BY <1>1, <1>3, ReleaseLeaves
    <2>2. Orderly(Poll)'
      BY <2>1, OrderlyAtRest, TransactionOrder
    <2>3. QED
      BY <1>3, <2>1, <2>2 DEF Tidy, PollOK, StepOf
  <1>4. CASE PollSteps
    BY <1>2, <1>3, <1>4, TransactionOrder DEF PollSteps, PollEnds
  <1>5. QED
    BY <1>3, <1>4, ConnectTidy, ExecuteTidy DEF PollStep, PollFails

AllTidy == \A a \in Actors : Tidy(a)

LEMMA TidyStep == TypeOK /\ AllTidy /\ [Next]_vars => AllTidy'
  <1>. SUFFICES ASSUME TypeOK, AllTidy, [Next]_vars PROVE AllTidy'
    OBVIOUS
  <1>1. ASSUME NEW a \in Actors, Tidy(a)', StepOf(a) PROVE AllTidy'
    BY <1>1, OthersStayTidy DEF AllTidy
  <1>2. ASSUME NEW r \in Requests, RequestStep(r) PROVE AllTidy'
    BY <1>1, <1>2, RequestTidy, ActorTypes DEF AllTidy
  <1>3. CASE PollStep
    BY <1>1, <1>3, PollTidy, ActorTypes DEF AllTidy
  <1>4. CASE UNCHANGED vars
    BY <1>4 DEF vars, AllTidy, Tidy, Orderly, RequestOK, HandlerOK, PollOK
  <1>5. QED
    BY <1>2, <1>3, <1>4 DEF Next

LEMMA TidyInit == Init => AllTidy
  <1>. SUFFICES ASSUME Init PROVE AllTidy
    OBVIOUS
  <1>1. /\ \A a \in Actors : todo[a] = <<>> /\ a # loop
        /\ \A a \in Actors, x \in Rows : lock[x] # a
        /\ \A r \in Requests : at[r] = "ready" /\ kind[r] \in KindsOf[r]
    BY ActorTypes DEF Init
  <1>2. \A a \in Actors : Orderly(a)
    BY <1>1, TransactionOrder, ActorTypes DEF Orderly
  <1>3. QED
    BY <1>1, <1>2, ActorTypes DEF AllTidy, Tidy, RequestOK, PollOK

\* What the request at the loop waits for: the row it edits, and no other.
LEMMA LoopWaits ==
  ASSUME ~ReadersWait, TypeOK, AllTidy,
         NEW r \in Requests, loop = r, NEW a \in Actors, WaitsFor(r, a)
  PROVE  kind[r] \in EditKinds /\ lock[Job(TargetOf[r])] = a
  <1>1. at[r] = "handler" /\ HandlerOK(r)
    BY ActorTypes DEF AllTidy, Tidy, RequestOK
  <1>2. Head(todo[r]) = todo[r][1] /\ 1 \in 1 .. Len(todo[r])
    BY NextStatement, ActorTypes DEF WaitsFor, TypeOK
  <1>3. QED
    BY <1>1, <1>2 DEF HandlerOK, WaitsFor

\* Whatever the request at the loop waits for can end without the loop, unless
\* two edits of one job are under way: with row versioning any number of edits,
\* each of a job of its own, among any reads, deletions and resets; without it,
\* any requests that leave their writes to the commit.
THEOREM LoopIsNeverItsOwnHostage ==
  ASSUME EditsApart
  PROVE  Spec => []LoopWaitsForOthers
  <1>1. TypeOK /\ AllTidy => LoopWaitsForOthers
    <2>. SUFFICES ASSUME TypeOK, AllTidy, NEW r \in Requests, NEW s \in Requests,
                         at[s] = "answered", loop = r
                  PROVE  /\ ~WaitsFor(r, s)
                         /\ \A a \in Actors : ~(WaitsFor(r, a) /\ WaitsFor(a, s))
      BY DEF LoopWaitsForOthers
    <2>1. /\ RequestOK(r) /\ RequestOK(s) /\ r # s /\ at[r] = "handler"
          /\ kind[r] \in EditKinds => MayEdit(r)
          /\ kind[s] \in EditKinds => MayEdit(s)
      BY ActorTypes DEF AllTidy, Tidy, RequestOK, MayEdit
    <2>2. \A x \in Rows : lock[x] = s => kind[s] \in EditKinds /\ x = Job(TargetOf[s])
      BY <2>1 DEF RequestOK
    <2>3. \A a \in Actors : todo[a] # <<>> =>
            Head(todo[a]) \in Statements /\ Head(todo[a]).on \subseteq Rows
      BY HeadAndTail DEF Statements
    <2>4. ASSUME \A q \in Requests : ~MayEdit(q), NEW a \in Actors PROVE ~WaitsFor(a, s)
      BY <2>1, <2>2, <2>3, <2>4 DEF WaitsFor
    <2>5. ASSUME ~ReadersWait,
                 \A p, q \in Requests : MayEdit(p) /\ MayEdit(q) /\ p # q => TargetOf[p] # TargetOf[q],
                 NEW a \in Actors, WaitsFor(r, a)
          PROVE  a # s /\ ~WaitsFor(a, s)
      <3>1. kind[r] \in EditKinds /\ lock[Job(TargetOf[r])] = a
        BY <2>1, <2>5, LoopWaits
      <3>2. Job(TargetOf[r]) \in JobRows /\ Orderly(a)
        BY ActorTypes DEF AllTidy, Tidy
      <3>3. NoJobs(todo[a])
        BY <3>1, <3>2 DEF Orderly
      <3>4. ~WaitsFor(a, s)
        <4>. SUFFICES ASSUME WaitsFor(a, s) PROVE FALSE
          OBVIOUS
        <4>1. todo[a] # <<>> /\ todo[a] \in Seq(Statements)
          BY DEF WaitsFor, TypeOK
        <4>2. PICK x \in Head(todo[a]).on : lock[x] = s
          BY DEF WaitsFor
        <4>3. x = Job(TargetOf[s]) /\ x \in JobRows
          BY <2>2, <2>3, <4>1, <4>2, ActorTypes
        <4>4. Head(todo[a]).on \cap JobRows = {}
          BY <3>3, <4>1, NextStatement DEF NoJobs
        <4>5. QED
          BY <4>2, <4>3, <4>4
      <3>5. a # s
        <4>. SUFFICES ASSUME a = s PROVE FALSE
          OBVIOUS
        <4>1. Job(TargetOf[r]) = Job(TargetOf[s]) /\ kind[s] \in EditKinds
          BY <2>2, <3>1, ActorTypes
        <4>2. TargetOf[r] = TargetOf[s]
          BY <4>1 DEF Job
        <4>3. QED
          BY <2>1, <2>5, <3>1, <4>1, <4>2
      <3>6. QED
        BY <3>4, <3>5
    <2>6. QED
      BY <2>4, <2>5, ActorTypes DEF EditsApart
  <1>2. QED
    BY <1>1, TidyInit, TidyStep, ApiTypes, PTL DEF Spec
===============================================================================
