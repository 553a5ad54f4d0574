----------------------------- MODULE PollerProofs -----------------------------
(***************************************************************************)
(* Proofs about Poller, for every value of its constants: any number of    *)
(* jobs, submissions, queues, poll threads and requests, and any bounds;   *)
(* that it implements SubmissionLedger, when an item is of the job whose   *)
(* row says delivered, and that its passes are those of Freshness.         *)
(***************************************************************************)
EXTENDS PollerLedger, DeliveryOrigin, PollerClock, TLAPS

-------------------------------------------------------------------------------
(* Rows.                                                                   *)

LEMMA NoRowIsNotARow == NoRow \notin Row
  BY DEF NoRow, Row, Statuses

LEMMA NewRowType == ASSUME NEW known \in BOOLEAN PROVE NewRow(known) \in Row
  BY DEF NewRow, Row, Statuses

LEMMA RowOpsType ==
  ASSUME NEW row \in Row, NEW known \in BOOLEAN
  PROVE  /\ BackfillSerial(row, known) \in Row
         /\ MarkDelivered(row) \in Row
         /\ MarkFailure(row) \in Row
         /\ MarkDeadLetter(row) \in Row
         /\ ResetForRetry(row) \in Row
  <1>1. BackfillSerial(row, known) \in Row
    <2>1. PICK b \in BOOLEAN : b = (row.serial \/ known)
      OBVIOUS
    <2>2. [row EXCEPT !.serial = b] \in Row
      BY DEF Row
    <2>3. QED
      BY <2>1, <2>2 DEF BackfillSerial
  <1>2. MarkDelivered(row) \in Row
    BY DEF MarkDelivered, Row, Statuses
  <1>3. MarkFailure(row) \in Row
    <2>1. row.attempts + 1 \in Nat
      BY DEF Row
    <2>2. PICK s \in Statuses :
            s = IF row.attempts + 1 >= MaxAttempts THEN "dead_letter" ELSE "failed"
      BY DEF Statuses
    <2>3. [row EXCEPT !.attempts = row.attempts + 1, !.status = s] \in Row
      BY <2>1 DEF Row
    <2>4. QED
      BY <2>2, <2>3 DEF MarkFailure
  <1>4. MarkDeadLetter(row) \in Row
    <2>1. PICK n \in Nat : n = row.attempts + 1
      BY DEF Row
    <2>2. [row EXCEPT !.attempts = n, !.status = "dead_letter"] \in Row
      BY DEF Row, Statuses
    <2>3. QED
      BY <2>1, <2>2 DEF MarkDeadLetter
  <1>5. ResetForRetry(row) \in Row
    BY DEF ResetForRetry, Row, Statuses
  <1>6. QED
    BY <1>1, <1>2, <1>3, <1>4, <1>5

LEMMA WriteBackType ==
  ASSUME NEW db \in Row, NEW old \in Row, NEW new \in Row
  PROVE  WriteBack(db, old, new) \in Row
  BY DEF WriteBack, Column, Row

-------------------------------------------------------------------------------
(* Types. TypeOK alone is not inductive: a thread that is at work on a job *)
(* or a row must hold one.                                                 *)

InHand ==
  \A p \in Pollers :
    /\ pc[p] \in InJob => plan[p].job \in Snapshot /\ plan[p].job.dest \in Queues
    /\ pc[p] \in InTxn => txn[p] \in Txn /\ txn[p].cur \in Row

ThreadsOK ==
  /\ pc \in [Pollers -> Locations]
  /\ plan \in [Pollers -> Plan]
  /\ txn \in [Pollers -> Txn \cup {None}]
  /\ InHand

TypeInv == TypeOK /\ InHand

LEMMA EmptyPlanType == EmptyPlan \in Plan
  BY DEF EmptyPlan, Plan

\* A thread that moves on, with what it then holds.
LEMMA MoveType ==
  ASSUME ThreadsOK, NEW p \in Pollers,
         NEW place \in Locations, NEW pl \in Plan, NEW tx \in Txn \cup {None},
         pc' = [pc EXCEPT ![p] = place],
         plan' = [plan EXCEPT ![p] = pl],
         txn' = [txn EXCEPT ![p] = tx],
         place \in InJob => pl.job \in Snapshot /\ pl.job.dest \in Queues,
         place \in InTxn => tx \in Txn /\ tx.cur \in Row
  PROVE  ThreadsOK'
  <1>1. /\ pc' \in [Pollers -> Locations]
        /\ plan' \in [Pollers -> Plan]
        /\ txn' \in [Pollers -> Txn \cup {None}]
    BY DEF ThreadsOK
  <1>2. pc'[p] = place /\ plan'[p] = pl /\ txn'[p] = tx
    BY DEF ThreadsOK
  <1>3. ASSUME NEW q \in Pollers, q # p
        PROVE  pc'[q] = pc[q] /\ plan'[q] = plan[q] /\ txn'[q] = txn[q]
    BY <1>3 DEF ThreadsOK
  <1>4. InHand'
    BY <1>2, <1>3 DEF ThreadsOK, InHand
  <1>5. QED
    BY <1>1, <1>4 DEF ThreadsOK

LEMMA GoToType ==
  ASSUME ThreadsOK, NEW p \in Pollers, NEW place \in Locations,
         GoTo(p, place), UNCHANGED <<plan, txn>>,
         place \in InJob => pc[p] \in InJob,
         place \in InTxn => pc[p] \in InTxn
  PROVE  ThreadsOK'
  <1>1. /\ pc' = [pc EXCEPT ![p] = place]
        /\ plan' = [plan EXCEPT ![p] = plan[p]] /\ txn' = [txn EXCEPT ![p] = txn[p]]
    BY DEF GoTo, ThreadsOK
  <1>2. plan[p] \in Plan /\ txn[p] \in Txn \cup {None}
    BY DEF ThreadsOK
  <1>3. /\ place \in InJob => plan[p].job \in Snapshot /\ plan[p].job.dest \in Queues
        /\ place \in InTxn => txn[p] \in Txn /\ txn[p].cur \in Row
    BY DEF ThreadsOK, InHand
  <1>. DEFINE pl == plan[p]
              tx == txn[p]
  <1>4. /\ pl \in Plan /\ tx \in Txn \cup {None}
        /\ plan' = [plan EXCEPT ![p] = pl] /\ txn' = [txn EXCEPT ![p] = tx]
        /\ place \in InJob => pl.job \in Snapshot /\ pl.job.dest \in Queues
        /\ place \in InTxn => tx \in Txn /\ tx.cur \in Row
    BY <1>1, <1>2, <1>3
  <1>. HIDE DEF pl, tx
  <1>5. QED
    BY <1>1, <1>4, MoveType

LEMMA SettleType ==
  ASSUME ThreadsOK, NEW p \in Pollers, NEW row \in Row, pc[p] \in InTxn, Settle(p, row)
  PROVE  ThreadsOK'
  <1>1. txn[p] \in Txn /\ pc[p] \in InJob
    BY DEF ThreadsOK, InHand, InJob
  <1>2. [txn[p] EXCEPT !.cur = row] \in Txn
    BY <1>1 DEF Txn, RowOrNone
  <1>3. [txn[p] EXCEPT !.cur = row].cur = row
    BY <1>1 DEF Txn
  <1>4. plan[p] \in Plan /\ plan[p].job \in Snapshot /\ plan[p].job.dest \in Queues
    BY <1>1 DEF ThreadsOK, InHand
  <1>5. /\ pc' = [pc EXCEPT ![p] = "record"]
        /\ plan' = [plan EXCEPT ![p] = plan[p]]
        /\ txn' = [txn EXCEPT ![p] = [txn[p] EXCEPT !.cur = row]]
    BY DEF Settle, GoTo, ThreadsOK
  <1>6. "record" \in Locations
    BY DEF Locations
  <1>7. QED
    BY <1>2, <1>3, <1>4, <1>5, <1>6, MoveType

LEMMA AbortJobType ==
  ASSUME ThreadsOK, NEW p \in Pollers, AbortJob(p)
  PROVE  ThreadsOK'
  <1>. DEFINE pl == [plan[p] EXCEPT !.job = None, !.rest = {}, !.queueKnown = FALSE]
  <1>1. pl \in Plan
    BY DEF ThreadsOK, Plan
  <1>2. "jobs" \in Locations /\ "jobs" \notin InJob /\ "jobs" \notin InTxn
    BY DEF Locations, InJob, InTxn, Holding
  <1>3. /\ pc' = [pc EXCEPT ![p] = "jobs"]
        /\ plan' = [plan EXCEPT ![p] = pl]
        /\ txn' = [txn EXCEPT ![p] = None]
    BY DEF AbortJob, GoTo
  <1>. HIDE DEF pl
  <1>4. QED
    BY <1>1, <1>2, <1>3, MoveType

LEMMA AbortGroupType ==
  ASSUME ThreadsOK, NEW p \in Pollers, AbortGroup(p)
  PROVE  ThreadsOK'
  <1>. DEFINE pl == [EmptyPlan EXCEPT !.todo = plan[p].todo]
  <1>1. pl \in Plan
    BY DEF ThreadsOK, Plan, EmptyPlan
  <1>2. "groups" \in Locations /\ "groups" \notin InJob /\ "groups" \notin InTxn
    BY DEF Locations, InJob, InTxn, Holding
  <1>3. /\ pc' = [pc EXCEPT ![p] = "groups"]
        /\ plan' = [plan EXCEPT ![p] = pl]
        /\ txn' = [txn EXCEPT ![p] = None]
    BY DEF AbortGroup, GoTo
  <1>. HIDE DEF pl
  <1>4. QED
    BY <1>1, <1>2, <1>3, MoveType

LEMMA AbandonCycleType ==
  ASSUME ThreadsOK, NEW p \in Pollers, AbandonCycle(p)
  PROVE  ThreadsOK'
  <1>1. "idle" \in Locations /\ "idle" \notin InJob /\ "idle" \notin InTxn
    BY DEF Locations, InJob, InTxn, Holding
  <1>2. QED
    BY <1>1, EmptyPlanType, MoveType DEF AbandonCycle, GoTo

LEMMA ReactType ==
  ASSUME ThreadsOK, NEW p \in Pollers, NEW error, pc[p] \in InTxn, React(p, error)
  PROVE  ThreadsOK'
  <1>1. txn[p].cur \in Row
    BY DEF ThreadsOK, InHand
  <1>2. MarkFailure(txn[p].cur) \in Row /\ MarkDeadLetter(txn[p].cur) \in Row
    BY <1>1, RowOpsType
  <1>3. QED
    BY <1>2, SettleType, AbortJobType, AbortGroupType DEF React

TablesOK ==
  /\ jobs \in [JobIds -> Job]
  /\ rows \in [Keys -> RowOrNone]
  /\ stamp \in [JobIds -> (SUBSET Subs) \cup {None}]
  /\ source \in [Subs -> {"absent", "present", "purged"}]
  /\ items \in [Queues \X Subs -> Nat]
  /\ stop \in [Pollers -> BOOLEAN]
  /\ request \in [Requests -> Retry \cup {None}]
  /\ left \in [{"faults", "crashes", "ops"} -> Nat]

LEMMA TypeInvParts == TypeInv <=> TablesOK /\ ThreadsOK
  BY DEF TypeInv, TypeOK, TablesOK, ThreadsOK

LEMMA HandTypes ==
  ASSUME ThreadsOK, NEW p \in Pollers
  PROVE  /\ pc[p] \in InJob => plan[p].job.id \in JobIds
         /\ pc[p] \in InTxn => /\ Key(p) \in Keys
                               /\ Reference(p) \in Queues \X Subs
  BY DEF ThreadsOK, InHand, Key, Reference, Keys, InJob, Snapshot, Txn

LEMMA SpendType ==
  ASSUME TablesOK, NEW bound \in {"faults", "crashes", "ops"}, Spend(bound)
  PROVE  left' \in [{"faults", "crashes", "ops"} -> Nat]
  BY DEF TablesOK, Spend

LEMMA ReceiveType ==
  ASSUME TablesOK, NEW reply, NEW due, Receive(reply, due)
  PROVE  left' \in [{"faults", "crashes", "ops"} -> Nat]
  BY SpendType DEF TablesOK, Receive

LEMMA CommittedType ==
  ASSUME TypeInv, NEW p \in Pollers, pc[p] = "record",
         txn[p].old = NoRow \/ rows[Key(p)] # NoRow
  PROVE  Committed(p) \in [Keys -> RowOrNone]
  <1>. TablesOK /\ ThreadsOK
    BY TypeInvParts
  <1>1. pc[p] \in InTxn
    BY DEF InTxn, Holding
  <1>2. Key(p) \in Keys /\ txn[p].cur \in Row /\ txn[p].old \in RowOrNone
    BY <1>1, HandTypes DEF ThreadsOK, InHand, Txn
  <1>3. CASE txn[p].old = NoRow
    BY <1>2, <1>3 DEF Committed, TablesOK, RowOrNone
  <1>4. CASE txn[p].old # NoRow
    <2>1. rows[Key(p)] \in Row /\ txn[p].old \in Row
      BY <1>2, <1>4 DEF TablesOK, RowOrNone
    <2>2. WriteBack(rows[Key(p)], txn[p].old, txn[p].cur) \in RowOrNone
      BY <1>2, <2>1, WriteBackType DEF RowOrNone
    <2>3. QED
      BY <1>2, <1>4, <2>2 DEF Committed, TablesOK
  <1>5. QED
    BY <1>3, <1>4

-------------------------------------------------------------------------------
(* Each action preserves TypeInv.                                          *)

LEMMA LoadActiveType ==
  ASSUME TypeInv, NEW p \in Pollers, LoadActive(p) PROVE TypeInv'
  <1>. TablesOK /\ ThreadsOK
    BY TypeInvParts
  <1>1. ActiveJobs \in SUBSET Snapshot
    BY DEF ActiveJobs, Snapshot, TablesOK, Job
  <1>2. [plan[p] EXCEPT !.todo = ActiveJobs] \in Plan
    BY <1>1 DEF ThreadsOK, Plan
  <1>3. "groups" \in Locations /\ "groups" \notin InJob /\ "groups" \notin InTxn
    BY DEF Locations, InJob, InTxn, Holding
  <1>4. /\ pc' = [pc EXCEPT ![p] = "groups"]
        /\ plan' = [plan EXCEPT ![p] = [plan[p] EXCEPT !.todo = ActiveJobs]]
        /\ txn' = [txn EXCEPT ![p] = txn[p]] /\ txn[p] \in Txn \cup {None}
    BY DEF LoadActive, GoTo, ThreadsOK
  <1>5. ThreadsOK'
    BY <1>2, <1>3, <1>4, MoveType
  <1>6. TablesOK'
    BY DEF LoadActive, TablesOK
  <1>7. QED
    BY <1>5, <1>6, TypeInvParts, PTL

LEMMA ListGroupType ==
  ASSUME TypeInv, NEW p \in Pollers, ListGroup(p) PROVE TypeInv'
  <1>. TablesOK /\ ThreadsOK
    BY TypeInvParts
  <1>1. plan[p] \in Plan /\ txn[p] \in Txn \cup {None} /\ txn' = [txn EXCEPT ![p] = txn[p]]
    BY DEF ListGroup, ThreadsOK
  <1>2. PICK s \in plan[p].todo : ListGroup(p)!2!(s)
    BY DEF ListGroup
  <1>. DEFINE group == {t \in plan[p].todo : t.form = s.form}
  <1>3. group \subseteq Snapshot /\ plan[p].todo \ group \in SUBSET Snapshot
    BY <1>1 DEF Plan
  <1>. HIDE DEF group
  <1>4. "jobs" \in Locations \ (InJob \cup InTxn) /\ "groups" \in Locations \ (InJob \cup InTxn)
    BY DEF Locations, InJob, InTxn, Holding
  <1>5. ASSUME NEW known \in ListShapes,
               plan' = [plan EXCEPT ![p] =
                 [plan[p] EXCEPT !.todo = @ \ group, !.group = group,
                           !.listed = Listing(s.form), !.known = known]],
               GoTo(p, "jobs"), UNCHANGED left
        PROVE  ThreadsOK' /\ left' \in [{"faults", "crashes", "ops"} -> Nat]
    <2>1. known \in BOOLEAN /\ Listing(s.form) \in SUBSET Subs
      BY PollerAssumption DEF Listing
    <2>. DEFINE pl == [plan[p] EXCEPT !.todo = plan[p].todo \ group, !.group = group,
                           !.listed = Listing(s.form), !.known = known]
    <2>2. pl \in Plan
      BY <1>1, <1>3, <2>1 DEF Plan
    <2>3. plan' = [plan EXCEPT ![p] = pl]
      BY <1>5
    <2>4. pc' = [pc EXCEPT ![p] = "jobs"]
      BY <1>5 DEF GoTo
    <2>. HIDE DEF pl
    <2>5. QED
      BY <1>1, <1>4, <1>5, <2>2, <2>3, <2>4, MoveType DEF TablesOK
  <1>6. ASSUME Spend("faults"), plan' = [plan EXCEPT ![p].todo = @ \ group], UNCHANGED pc
        PROVE  ThreadsOK' /\ left' \in [{"faults", "crashes", "ops"} -> Nat]
    <2>. DEFINE pl == [plan[p] EXCEPT !.todo = plan[p].todo \ group]
    <2>1. pl \in Plan
      BY <1>1, <1>3 DEF Plan
    <2>2. plan' = [plan EXCEPT ![p] = pl]
      BY <1>6
    <2>3. pc' = [pc EXCEPT ![p] = "groups"]
      BY <1>6 DEF ThreadsOK, ListGroup
    <2>. HIDE DEF pl
    <2>4. QED
      BY <1>1, <1>4, <1>6, <2>1, <2>2, <2>3, MoveType, SpendType
  <1>7. ThreadsOK' /\ left' \in [{"faults", "crashes", "ops"} -> Nat]
    BY <1>2, <1>5, <1>6 DEF group
  <1>8. TablesOK'
    BY <1>7 DEF ListGroup, TablesOK
  <1>9. QED
    BY <1>7, <1>8, TypeInvParts, PTL

LEMMA EndCycleType ==
  ASSUME TypeInv, NEW p \in Pollers, EndCycle(p) PROVE TypeInv'
  <1>. TablesOK /\ ThreadsOK
    BY TypeInvParts
  <1>1. "idle" \in Locations \ (InJob \cup InTxn)
    BY DEF Locations, InJob, InTxn, Holding
  <1>2. /\ plan' = [plan EXCEPT ![p] = plan[p]] /\ txn' = [txn EXCEPT ![p] = txn[p]]
        /\ pc' = [pc EXCEPT ![p] = "idle"]
        /\ plan[p] \in Plan /\ txn[p] \in Txn \cup {None}
    BY DEF EndCycle, GoTo, ThreadsOK
  <1>3. ThreadsOK'
    BY <1>1, <1>2, MoveType
  <1>4. TablesOK'
    BY DEF EndCycle, TablesOK
  <1>5. QED
    BY <1>3, <1>4, TypeInvParts, PTL

LEMMA NextJobType ==
  ASSUME TypeInv, NEW p \in Pollers, NextJob(p) PROVE TypeInv'
  <1>. TablesOK /\ ThreadsOK
    BY TypeInvParts
  <1>1. plan[p] \in Plan /\ txn[p] \in Txn \cup {None} /\ txn' = [txn EXCEPT ![p] = txn[p]]
    BY DEF NextJob, ThreadsOK
  <1>2. PICK s \in plan[p].group : NextJob(p)!2!(s)
    BY DEF NextJob
  <1>3. s \in Snapshot
    BY <1>1 DEF Plan
  <1>4. ASSUME NextJob(p)!2!(s)!1 PROVE ThreadsOK'
    <2>. DEFINE pl == [plan[p] EXCEPT !.group = plan[p].group \ {s}, !.job = s, !.rest = plan[p].listed]
    <2>1. pl \in Plan /\ pl.job = s
      BY <1>1, <1>3 DEF Plan
    <2>2. plan' = [plan EXCEPT ![p] = pl]
      BY <1>4
    <2>3. pc' = [pc EXCEPT ![p] = "refs"]
      BY <1>4 DEF GoTo
    <2>4. "refs" \in Locations \ InTxn
      BY DEF Locations, InTxn, Holding
    <2>. HIDE DEF pl
    <2>5. QED
      BY <1>1, <1>3, <1>4, <2>1, <2>2, <2>3, <2>4, MoveType
  <1>5. ASSUME NextJob(p)!2!(s)!2 PROVE ThreadsOK'
    <2>. DEFINE pl == [plan[p] EXCEPT !.group = plan[p].group \ {s}]
    <2>1. pl \in Plan
      BY <1>1 DEF Plan
    <2>2. plan' = [plan EXCEPT ![p] = pl]
      BY <1>5
    <2>3. pc' = [pc EXCEPT ![p] = "jobs"]
      BY <1>5 DEF ThreadsOK, NextJob
    <2>4. "jobs" \in Locations \ (InJob \cup InTxn)
      BY DEF Locations, InJob, InTxn, Holding
    <2>. HIDE DEF pl
    <2>5. QED
      BY <1>1, <2>1, <2>2, <2>3, <2>4, MoveType
  <1>6. ThreadsOK'
    BY <1>2, <1>4, <1>5
  <1>7. TablesOK'
    BY DEF NextJob, TablesOK
  <1>8. QED
    BY <1>6, <1>7, TypeInvParts, PTL

LEMMA EndGroupType ==
  ASSUME TypeInv, NEW p \in Pollers, EndGroup(p) PROVE TypeInv'
  <1>1. ThreadsOK'
    BY TypeInvParts, AbortGroupType DEF EndGroup
  <1>2. TablesOK'
    BY TypeInvParts DEF EndGroup, TablesOK
  <1>3. QED
    BY <1>1, <1>2, TypeInvParts, PTL

LEMMA LeaveJobType ==
  ASSUME TypeInv, NEW p \in Pollers, LeaveJob(p) PROVE TypeInv'
  <1>1. ThreadsOK'
    BY TypeInvParts, AbortJobType DEF LeaveJob
  <1>2. TablesOK'
    BY TypeInvParts DEF LeaveJob, TablesOK
  <1>3. QED
    BY <1>1, <1>2, TypeInvParts, PTL

LEMMA LookupType ==
  ASSUME TypeInv, NEW p \in Pollers, Lookup(p) PROVE TypeInv'
  <1>. TablesOK /\ ThreadsOK
    BY TypeInvParts
  <1>1. /\ plan[p] \in Plan /\ plan[p].known \in BOOLEAN
        /\ txn[p] \in Txn \cup {None}
        /\ plan[p].job \in Snapshot /\ plan[p].job.dest \in Queues
    BY DEF Lookup, ThreadsOK, InHand, InJob, Plan
  <1>2. PICK u \in plan[p].rest : Lookup(p)!2!(u)
    BY DEF Lookup
  <1>. DEFINE k   == <<plan[p].job.id, u>>
              row == rows[k]
              pl  == [plan[p] EXCEPT !.rest = plan[p].rest \ {u}]
  <1>3. u \in Subs /\ k \in Keys /\ row \in RowOrNone
    BY <1>1 DEF Plan, Keys, Snapshot, TablesOK
  <1>4. pl \in Plan /\ pl.job = plan[p].job
    BY <1>1 DEF Plan
  <1>5. plan' = [plan EXCEPT ![p] = pl]
    BY <1>2
  <1>6. {"refs", "create", "fetch"} \subseteq Locations /\ "refs" \notin InTxn /\ 0 \in 0..(MaxTries - 1)
    BY PollerAssumption DEF Locations, InTxn, Holding
  <1>. NoRow.status \notin TerminalStates
    BY DEF NoRow, TerminalStates
  <1>. DEFINE Typed == ThreadsOK' /\ rows' \in [Keys -> RowOrNone]
  <1>7. ASSUME row.status \in TerminalStates PROVE Typed
    <2>0. /\ rows' = [rows EXCEPT ![k] = BackfillSerial(row, plan[p].known)]
          /\ UNCHANGED <<pc, txn>>
      BY <1>2, <1>7
    <2>1. row \in Row
      BY <1>3, <1>7 DEF RowOrNone, NoRow, TerminalStates
    <2>2. BackfillSerial(row, plan[p].known) \in RowOrNone
      BY <1>1, <2>1, RowOpsType DEF RowOrNone
    <2>3. rows' \in [Keys -> RowOrNone]
      BY <1>3, <2>0, <2>2 DEF TablesOK
    <2>4. pc' = [pc EXCEPT ![p] = "refs"] /\ txn' = [txn EXCEPT ![p] = txn[p]]
      BY <2>0 DEF Lookup, ThreadsOK
    <2>. HIDE DEF pl
    <2>5. QED
      BY <1>1, <1>4, <1>5, <1>6, <2>3, <2>4, MoveType
  <1>8. ASSUME row = NoRow PROVE Typed
    <2>. DEFINE tx == [sub |-> u, old |-> NoRow, cur |-> NewRow(plan[p].known), tries |-> 0]
    <2>1. NewRow(plan[p].known) \in Row
      BY <1>1, NewRowType
    <2>2. tx \in Txn /\ tx.cur \in Row
      BY <1>3, <1>6, <2>1 DEF Txn, RowOrNone
    <2>3. pc' = [pc EXCEPT ![p] = "create"] /\ txn' = [txn EXCEPT ![p] = tx]
      BY <1>2, <1>8 DEF GoTo
    <2>4. rows' \in [Keys -> RowOrNone]
      BY <1>2, <1>8 DEF TablesOK
    <2>. HIDE DEF pl, tx
    <2>5. QED
      BY <1>1, <1>4, <1>5, <1>6, <2>2, <2>3, <2>4, MoveType
  <1>9. ASSUME row # NoRow, row.status \notin TerminalStates PROVE Typed
    <2>. DEFINE tx == [sub |-> u, old |-> row, cur |-> BackfillSerial(row, plan[p].known), tries |-> 0]
    <2>1. row \in Row
      BY <1>3, <1>9 DEF RowOrNone
    <2>2. BackfillSerial(row, plan[p].known) \in Row
      BY <1>1, <2>1, RowOpsType
    <2>3. tx \in Txn /\ tx.cur \in Row
      BY <1>3, <1>6, <2>2 DEF Txn, RowOrNone
    <2>4. pc' = [pc EXCEPT ![p] = "fetch"] /\ txn' = [txn EXCEPT ![p] = tx]
      BY <1>2, <1>9 DEF GoTo
    <2>5. rows' \in [Keys -> RowOrNone]
      BY <1>2, <1>9 DEF TablesOK
    <2>. HIDE DEF pl, tx
    <2>6. QED
      BY <1>1, <1>4, <1>5, <1>6, <2>3, <2>4, <2>5, MoveType
  <1>10. Typed
    BY <1>7, <1>8, <1>9
  <1>11. TablesOK'
    BY <1>10 DEF Lookup, TablesOK
  <1>12. QED
    BY <1>10, <1>11, TypeInvParts, PTL

\* The control points a pass goes through.
LEMMA Places ==
  /\ Holding \subseteq InTxn /\ InTxn \subseteq InJob /\ InJob \subseteq Locations
  /\ "refs" \in InJob /\ "mark" \in InJob /\ "create" \in InTxn
  /\ "fetch" \in Holding /\ "resolve" \in Holding /\ "guard" \in Holding
  /\ "post" \in Holding /\ "record" \in Holding
  /\ "refs" \notin InTxn /\ "mark" \notin InTxn
  /\ {"down", "boot", "dead", "idle", "groups", "jobs"} \subseteq Locations \ InJob
  BY DEF Holding, InTxn, InJob, Locations

LEMMA CreateType ==
  ASSUME TypeInv, NEW p \in Pollers, Create(p) PROVE TypeInv'
  <1>. TablesOK /\ ThreadsOK
    BY TypeInvParts
  <1>1. pc[p] = "create"
    BY DEF Create
  <1>2. CASE GoTo(p, "fetch") /\ UNCHANGED <<plan, txn>>
    <2>1. ThreadsOK'
      BY <1>1, <1>2, Places, GoToType
    <2>2. TablesOK'
      BY DEF Create, TablesOK
    <2>3. QED
      BY <2>1, <2>2, TypeInvParts, PTL
  <1>3. CASE AbandonCycle(p)
    <2>1. ThreadsOK'
      BY <1>3, AbandonCycleType
    <2>2. TablesOK'
      BY DEF Create, TablesOK
    <2>3. QED
      BY <2>1, <2>2, TypeInvParts, PTL
  <1>4. QED
    BY <1>2, <1>3 DEF Create

LEMMA FetchType ==
  ASSUME TypeInv, NEW p \in Pollers, Fetch(p) PROVE TypeInv'
  <1>. TablesOK /\ ThreadsOK
    BY TypeInvParts
  <1>1. pc[p] \in InTxn
    BY Places DEF Fetch
  <1>2. left' \in [{"faults", "crashes", "ops"} -> Nat]
    BY SpendType, ReceiveType DEF Fetch
  <1>3. \/ GoTo(p, IF plan[p].queueKnown THEN "guard" ELSE "resolve") /\ UNCHANGED <<plan, txn>>
        \/ \E error : React(p, error)
    BY DEF Fetch
  <1>4. ASSUME GoTo(p, IF plan[p].queueKnown THEN "guard" ELSE "resolve"), UNCHANGED <<plan, txn>>
        PROVE  ThreadsOK'
    <2>1. (IF plan[p].queueKnown THEN "guard" ELSE "resolve") \in Holding
      BY Places
    <2>2. QED
      BY <1>1, <1>4, <2>1, Places, GoToType
  <1>5. ThreadsOK'
    BY <1>1, <1>3, <1>4, ReactType
  <1>6. TablesOK'
    BY <1>2 DEF Fetch, TablesOK
  <1>7. QED
    BY <1>5, <1>6, TypeInvParts, PTL

LEMMA ResolveQueueIdType ==
  ASSUME TypeInv, NEW p \in Pollers, ResolveQueueId(p) PROVE TypeInv'
  <1>. TablesOK /\ ThreadsOK
    BY TypeInvParts
  <1>1. pc[p] \in InTxn
    BY Places DEF ResolveQueueId
  <1>2. left' \in [{"faults", "crashes", "ops"} -> Nat]
    BY ReceiveType DEF ResolveQueueId
  <1>3. ASSUME plan' = [plan EXCEPT ![p].queueKnown = TRUE], GoTo(p, "guard"), UNCHANGED txn
        PROVE  ThreadsOK'
    <2>. DEFINE pl == [plan[p] EXCEPT !.queueKnown = TRUE]
    <2>1. pl \in Plan /\ pl.job = plan[p].job
      BY DEF ThreadsOK, Plan
    <2>2. plan' = [plan EXCEPT ![p] = pl]
      BY <1>3
    <2>3. pc' = [pc EXCEPT ![p] = "guard"] /\ txn' = [txn EXCEPT ![p] = txn[p]]
      BY <1>3 DEF GoTo, ThreadsOK
    <2>4. /\ txn[p] \in Txn /\ txn[p].cur \in Row
          /\ plan[p].job \in Snapshot /\ plan[p].job.dest \in Queues
      BY <1>1, Places DEF ThreadsOK, InHand
    <2>. HIDE DEF pl
    <2>5. QED
      BY <2>1, <2>2, <2>3, <2>4, Places, MoveType
  <1>4. ThreadsOK'
    BY <1>1, <1>3, ReactType DEF ResolveQueueId
  <1>5. TablesOK'
    BY <1>2 DEF ResolveQueueId, TablesOK
  <1>6. QED
    BY <1>4, <1>5, TypeInvParts, PTL

LEMMA AlreadyDeliveredType ==
  ASSUME TypeInv, NEW p \in Pollers, AlreadyDelivered(p) PROVE TypeInv'
  <1>. TablesOK /\ ThreadsOK
    BY TypeInvParts
  <1>1. pc[p] \in InTxn /\ txn[p].cur \in Row
    BY Places DEF AlreadyDelivered, ThreadsOK, InHand
  <1>2. left' \in [{"faults", "crashes", "ops"} -> Nat]
    BY ReceiveType DEF AlreadyDelivered
  <1>3. \/ Settle(p, MarkDelivered(txn[p].cur))
        \/ GoTo(p, "post") /\ UNCHANGED <<plan, txn>>
        \/ \E error : React(p, error)
    BY DEF AlreadyDelivered
  <1>4. MarkDelivered(txn[p].cur) \in Row
    BY <1>1, RowOpsType
  <1>5. ThreadsOK'
    BY <1>1, <1>3, <1>4, Places, SettleType, GoToType, ReactType
  <1>6. TablesOK'
    BY <1>2 DEF AlreadyDelivered, TablesOK
  <1>7. QED
    BY <1>5, <1>6, TypeInvParts, PTL

LEMMA PostType ==
  ASSUME TypeInv, NEW p \in Pollers, Post(p) PROVE TypeInv'
  <1>. TablesOK /\ ThreadsOK
    BY TypeInvParts
  <1>1. /\ pc[p] = "post" /\ pc[p] \in InTxn /\ pc[p] \in InJob
        /\ txn[p] \in Txn /\ txn[p].cur \in Row /\ Reference(p) \in Queues \X Subs
    BY Places, HandTypes DEF Post, ThreadsOK, InHand
  <1>2. PICK reply \in Replies : Post(p)!2!(reply)
    BY DEF Post
  <1>3. left' \in [{"faults", "crashes", "ops"} -> Nat]
    BY <1>2, ReceiveType
  <1>4. items' \in [Queues \X Subs -> Nat]
    <2>1. items[Reference(p)] + 1 \in Nat
      BY <1>1 DEF TablesOK
    <2>2. [items EXCEPT ![Reference(p)] = items[Reference(p)] + 1] \in [Queues \X Subs -> Nat]
      BY <2>1 DEF TablesOK
    <2>3. items' = [items EXCEPT ![Reference(p)] = items[Reference(p)] + 1] \/ items' = items
      BY <1>2
    <2>4. QED
      BY <2>2, <2>3 DEF TablesOK
  <1>5. ASSUME TriesAgain(p, reply), txn' = [txn EXCEPT ![p].tries = @ + 1], UNCHANGED <<pc, plan>>
        PROVE  ThreadsOK'
    <2>. DEFINE tx == [txn[p] EXCEPT !.tries = txn[p].tries + 1]
    <2>1. txn[p].tries + 1 \in 0..(MaxTries - 1)
      BY <1>1, <1>5, PollerAssumption DEF TriesAgain, Txn
    <2>2. tx \in Txn /\ tx.cur = txn[p].cur
      BY <1>1, <2>1 DEF Txn
    <2>3. txn' = [txn EXCEPT ![p] = tx]
      BY <1>5
    <2>4. pc' = [pc EXCEPT ![p] = "post"] /\ plan' = [plan EXCEPT ![p] = plan[p]]
      BY <1>1, <1>5 DEF ThreadsOK
    <2>5. plan[p] \in Plan /\ plan[p].job \in Snapshot /\ plan[p].job.dest \in Queues
      BY <1>1 DEF ThreadsOK, InHand
    <2>. HIDE DEF tx
    <2>6. QED
      BY <1>1, <2>2, <2>3, <2>4, <2>5, Places, MoveType
  <1>6. MarkDelivered(txn[p].cur) \in Row
    BY <1>1, RowOpsType
  <1>7. ThreadsOK'
    BY <1>1, <1>2, <1>5, <1>6, SettleType, ReactType
  <1>8. TablesOK'
    BY <1>3, <1>4 DEF Post, TablesOK
  <1>9. QED
    BY <1>7, <1>8, TypeInvParts, PTL

LEMMA RecordType ==
  ASSUME TypeInv, NEW p \in Pollers, Record(p) PROVE TypeInv'
  <1>. TablesOK /\ ThreadsOK
    BY TypeInvParts
  <1>1. pc[p] = "record" /\ pc[p] \in InJob
    BY Places DEF Record
  <1>2. rows' \in [Keys -> RowOrNone]
    BY <1>1, CommittedType DEF Record, TablesOK
  <1>3. ASSUME txn' = [txn EXCEPT ![p] = None], GoTo(p, "refs"), UNCHANGED plan
        PROVE  ThreadsOK'
    <2>. DEFINE pl == plan[p]
    <2>1. pl \in Plan /\ pl.job \in Snapshot /\ pl.job.dest \in Queues
      BY <1>1 DEF ThreadsOK, InHand
    <2>2. pc' = [pc EXCEPT ![p] = "refs"] /\ plan' = [plan EXCEPT ![p] = pl]
      BY <1>3 DEF GoTo, ThreadsOK
    <2>. HIDE DEF pl
    <2>3. QED
      BY <1>3, <2>1, <2>2, Places, MoveType
  <1>4. ThreadsOK'
    BY <1>3, AbandonCycleType DEF Record
  <1>5. TablesOK'
    BY <1>2 DEF Record, TablesOK
  <1>6. QED
    BY <1>4, <1>5, TypeInvParts, PTL

LEMMA EndPassType ==
  ASSUME TypeInv, NEW p \in Pollers, EndPass(p) PROVE TypeInv'
  <1>. TablesOK /\ ThreadsOK
    BY TypeInvParts
  <1>1. ThreadsOK'
    BY Places, GoToType DEF EndPass
  <1>2. TablesOK'
    BY DEF EndPass, TablesOK
  <1>3. QED
    BY <1>1, <1>2, TypeInvParts, PTL

LEMMA MarkPolledType ==
  ASSUME TypeInv, NEW p \in Pollers, MarkPolled(p) PROVE TypeInv'
  <1>. TablesOK /\ ThreadsOK
    BY TypeInvParts
  <1>1. ThreadsOK'
    BY AbortJobType DEF MarkPolled
  <1>2. plan[p].listed \in SUBSET Subs
    BY DEF ThreadsOK, Plan
  <1>3. stamp' \in [JobIds -> (SUBSET Subs) \cup {None}]
    BY <1>2 DEF MarkPolled, TablesOK
  <1>4. left' \in [{"faults", "crashes", "ops"} -> Nat]
    BY SpendType DEF MarkPolled, TablesOK
  <1>5. TablesOK'
    BY <1>3, <1>4 DEF MarkPolled, TablesOK
  <1>6. QED
    BY <1>1, <1>5, TypeInvParts, PTL

LEMMA DatabaseFaultType ==
  ASSUME TypeInv, NEW p \in Pollers, DatabaseFault(p) PROVE TypeInv'
  <1>. TablesOK /\ ThreadsOK
    BY TypeInvParts
  <1>1. ThreadsOK'
    BY AbandonCycleType DEF DatabaseFault
  <1>2. rows' \in [Keys -> RowOrNone]
    BY CommittedType DEF DatabaseFault, TablesOK
  <1>3. left' \in [{"faults", "crashes", "ops"} -> Nat]
    BY SpendType DEF DatabaseFault
  <1>4. TablesOK'
    BY <1>2, <1>3 DEF DatabaseFault, TablesOK
  <1>5. QED
    BY <1>1, <1>4, TypeInvParts, PTL

LEMMA StopType ==
  ASSUME TypeInv, NEW p \in Pollers, Stop(p) PROVE TypeInv'
  <1>. TablesOK /\ ThreadsOK
    BY TypeInvParts
  <1>1. ThreadsOK'
    BY DEF Stop, ThreadsOK, InHand
  <1>2. TablesOK'
    BY SpendType DEF Stop, TablesOK
  <1>3. QED
    BY <1>1, <1>2, TypeInvParts, PTL

LEMMA EndLoopType ==
  ASSUME TypeInv, NEW p \in Pollers, EndLoop(p) PROVE TypeInv'
  <1>. TablesOK /\ ThreadsOK
    BY TypeInvParts
  <1>1. ThreadsOK'
    BY Places, GoToType DEF EndLoop
  <1>2. TablesOK'
    BY DEF EndLoop, TablesOK
  <1>3. QED
    BY <1>1, <1>2, TypeInvParts, PTL

LEMMA BootType ==
  ASSUME TypeInv, NEW p \in Pollers, Boot(p) PROVE TypeInv'
  <1>. TablesOK /\ ThreadsOK
    BY TypeInvParts
  <1>1. ThreadsOK'
    BY Places, GoToType DEF Boot
  <1>2. left' \in [{"faults", "crashes", "ops"} -> Nat]
    BY SpendType DEF Boot, TablesOK
  <1>3. TablesOK'
    BY <1>2 DEF Boot, TablesOK
  <1>4. QED
    BY <1>1, <1>3, TypeInvParts, PTL

LEMMA CrashType ==
  ASSUME TypeInv, NEW p \in Pollers, Crash(p) PROVE TypeInv'
  <1>. TablesOK /\ ThreadsOK
    BY TypeInvParts
  <1>1. ThreadsOK'
    BY Places, EmptyPlanType, MoveType DEF Crash
  <1>2. TablesOK'
    BY SpendType DEF Crash, TablesOK
  <1>3. QED
    BY <1>1, <1>2, TypeInvParts, PTL

LEMMA StartType ==
  ASSUME TypeInv, NEW p \in Pollers, Start(p) PROVE TypeInv'
  <1>. TablesOK /\ ThreadsOK
    BY TypeInvParts
  <1>1. ThreadsOK'
    BY Places, GoToType DEF Start
  <1>2. TablesOK'
    BY DEF Start, TablesOK
  <1>3. QED
    BY <1>1, <1>2, TypeInvParts, PTL

LEMMA ArriveType ==
  ASSUME TypeInv, NEW u \in Subs, Arrive(u) PROVE TypeInv'
  <1>. TablesOK /\ ThreadsOK
    BY TypeInvParts
  <1>1. ThreadsOK'
    BY DEF Arrive, ThreadsOK, InHand
  <1>2. TablesOK'
    BY DEF Arrive, TablesOK
  <1>3. QED
    BY <1>1, <1>2, TypeInvParts, PTL

LEMMA PurgeType ==
  ASSUME TypeInv, NEW u \in Subs, Purge(u) PROVE TypeInv'
  <1>. TablesOK /\ ThreadsOK
    BY TypeInvParts
  <1>1. ThreadsOK'
    BY DEF Purge, ThreadsOK, InHand
  <1>2. TablesOK'
    BY DEF Purge, TablesOK
  <1>3. QED
    BY <1>1, <1>2, TypeInvParts, PTL

LEMMA CreateJobType ==
  ASSUME TypeInv, NEW j \in JobIds, CreateJob(j) PROVE TypeInv'
  <1>. TablesOK /\ ThreadsOK
    BY TypeInvParts
  <1>1. ThreadsOK'
    BY DEF CreateJob, ThreadsOK, InHand
  <1>2. TablesOK'
    BY SpendType DEF CreateJob, TablesOK
  <1>3. QED
    BY <1>1, <1>2, TypeInvParts, PTL

LEMMA UpdateJobType ==
  ASSUME TypeInv, NEW j \in JobIds, UpdateJob(j) PROVE TypeInv'
  <1>. TablesOK /\ ThreadsOK
    BY TypeInvParts
  <1>1. ThreadsOK'
    BY DEF UpdateJob, ThreadsOK, InHand
  <1>2. TablesOK'
    BY SpendType DEF UpdateJob, TablesOK
  <1>3. QED
    BY <1>1, <1>2, TypeInvParts, PTL

LEMMA DeleteJobType ==
  ASSUME TypeInv, NEW j \in JobIds, DeleteJob(j) PROVE TypeInv'
  <1>. TablesOK /\ ThreadsOK
    BY TypeInvParts
  <1>1. ThreadsOK'
    BY DEF DeleteJob, ThreadsOK, InHand
  <1>2. jobs' \in [JobIds -> Job]
    BY DEF DeleteJob, TablesOK, Job
  <1>3. rows' \in [Keys -> RowOrNone]
    BY DEF DeleteJob, TablesOK, RowOrNone
  <1>4. stamp' \in [JobIds -> (SUBSET Subs) \cup {None}]
    BY DEF DeleteJob, TablesOK
  <1>5. TablesOK'
    BY <1>2, <1>3, <1>4, SpendType DEF DeleteJob, TablesOK
  <1>6. QED
    BY <1>1, <1>5, TypeInvParts, PTL

LEMMA RetryLoadType ==
  ASSUME TypeInv, NEW r \in Requests, RetryLoad(r) PROVE TypeInv'
  <1>. TablesOK /\ ThreadsOK
    BY TypeInvParts
  <1>1. ThreadsOK'
    BY DEF RetryLoad, ThreadsOK, InHand
  <1>2. PICK k \in Keys : rows[k] # NoRow /\ request' = [request EXCEPT ![r] = [key |-> k, old |-> rows[k]]]
    BY DEF RetryLoad
  <1>3. rows[k] \in Row
    BY <1>2 DEF TablesOK, RowOrNone
  <1>4. request' \in [Requests -> Retry \cup {None}]
    BY <1>2, <1>3 DEF Retry, TablesOK
  <1>5. TablesOK'
    BY <1>4, SpendType DEF RetryLoad, TablesOK
  <1>6. QED
    BY <1>1, <1>5, TypeInvParts, PTL

LEMMA RetryCommitType ==
  ASSUME TypeInv, NEW r \in Requests, RetryCommit(r) PROVE TypeInv'
  <1>. TablesOK /\ ThreadsOK
    BY TypeInvParts
  <1>. DEFINE k == request[r].key
              old == request[r].old
  <1>1. ThreadsOK'
    BY DEF RetryCommit, ThreadsOK, InHand
  <1>2. k \in Keys /\ old \in Row
    BY DEF RetryCommit, TablesOK, Retry
  <1>3. ResetForRetry(old) \in Row
    BY <1>2, RowOpsType
  <1>4. rows' \in [Keys -> RowOrNone]
    <2>1. CASE rows[k] = NoRow
      BY <2>1 DEF RetryCommit, TablesOK
    <2>2. CASE rows[k] # NoRow
      <3>1. rows[k] \in Row
        BY <1>2, <2>2 DEF TablesOK, RowOrNone
      <3>2. WriteBack(rows[k], old, ResetForRetry(old)) \in RowOrNone
        BY <1>2, <1>3, <3>1, WriteBackType DEF RowOrNone
      <3>3. rows' = [rows EXCEPT ![k] = WriteBack(rows[k], old, ResetForRetry(old))]
        BY <2>2 DEF RetryCommit
      <3>4. QED
        BY <3>2, <3>3 DEF TablesOK
    <2>3. QED
      BY <2>1, <2>2
  <1>5. TablesOK'
    BY <1>4 DEF RetryCommit, TablesOK
  <1>6. QED
    BY <1>1, <1>5, TypeInvParts, PTL

LEMMA RetryFailType ==
  ASSUME TypeInv, NEW r \in Requests, RetryFail(r) PROVE TypeInv'
  <1>. TablesOK /\ ThreadsOK
    BY TypeInvParts
  <1>1. ThreadsOK'
    BY DEF RetryFail, ThreadsOK, InHand
  <1>2. TablesOK'
    BY SpendType DEF RetryFail, TablesOK
  <1>3. QED
    BY <1>1, <1>2, TypeInvParts, PTL

LEMMA InitType == Init => TypeInv
  <1>. SUFFICES ASSUME Init PROVE TypeInv
    OBVIOUS
  <1>1. TablesOK
    BY PollerAssumption DEF Init, TablesOK, RowOrNone
  <1>2. ThreadsOK
    BY EmptyPlanType, Places DEF Init, ThreadsOK, InHand
  <1>3. QED
    BY <1>1, <1>2, TypeInvParts

LEMMA StutterType == TypeInv /\ UNCHANGED vars => TypeInv'
  BY DEF TypeInv, TypeOK, InHand, vars

LEMMA NextType == TypeInv /\ [Next]_vars => TypeInv'
  <1>. SUFFICES ASSUME TypeInv, [Next]_vars PROVE TypeInv'
    OBVIOUS
  <1>1. ASSUME NEW p \in Pollers, PollStep(p) PROVE TypeInv'
    BY <1>1, LoadActiveType, ListGroupType, EndCycleType, NextJobType, EndGroupType,
       LeaveJobType, LookupType, EndPassType, MarkPolledType, CreateType, FetchType,
       ResolveQueueIdType, AlreadyDeliveredType, PostType, RecordType, BootType, EndLoopType
    DEF PollStep
  <1>2. ASSUME NEW p \in Pollers, DatabaseFault(p) \/ Stop(p) \/ Crash(p) \/ Start(p)
        PROVE  TypeInv'
    BY <1>2, DatabaseFaultType, StopType, CrashType, StartType
  <1>3. ASSUME NEW u \in Subs, Arrive(u) \/ Purge(u) PROVE TypeInv'
    BY <1>3, ArriveType, PurgeType
  <1>4. ASSUME NEW j \in JobIds, CreateJob(j) \/ UpdateJob(j) \/ DeleteJob(j) PROVE TypeInv'
    BY <1>4, CreateJobType, UpdateJobType, DeleteJobType
  <1>5. ASSUME NEW r \in Requests, RetryLoad(r) \/ RetryCommit(r) \/ RetryFail(r) PROVE TypeInv'
    BY <1>5, RetryLoadType, RetryCommitType, RetryFailType
  <1>6. QED
    BY <1>1, <1>2, <1>3, <1>4, <1>5, StutterType DEF Next

\* Every variable keeps its type, and a thread at work holds what it works on.
THEOREM TypeInvariant == Spec => []TypeInv
  BY InitType, NextType, PTL DEF Spec

\* The type invariant the runs check, for every instance of the service.
THEOREM TypeCorrect == Spec => []TypeOK
  <1>1. TypeInv => TypeOK
    BY DEF TypeInv
  <1>2. QED
    BY <1>1, TypeInvariant, PTL

-------------------------------------------------------------------------------
(* What a transaction holds at each point of its course: until it is       *)
(* decided, the row as read (or the row it inserted); then, a verdict.     *)

Verdicts == {"delivered", "failed", "dead_letter"}

WorkOK(place, tx) ==
  /\ place \in InTxn =>
       /\ tx.old.status \notin TerminalStates
       /\ tx.old.serial => tx.cur.serial
  /\ place \in InTxn \ {"record"} =>
       /\ tx.cur.attempts = tx.old.attempts
       /\ tx.cur.status = IF tx.old = NoRow THEN "new" ELSE tx.old.status
       /\ tx.cur.deliveredAt = tx.old.deliveredAt
  /\ place = "record" =>
       /\ tx.cur.status \in Verdicts
       /\ tx.cur.status = "failed" =>
            tx.cur.attempts = tx.old.attempts + 1 /\ tx.cur.attempts < MaxAttempts
       /\ tx.cur.status = "delivered" => tx.cur.deliveredAt
       /\ tx.cur.deliveredAt => tx.cur.status = "delivered" \/ tx.old.deliveredAt

WorkInv == \A p \in Pollers : WorkOK(pc[p], txn[p])

LEMMA WorkMove ==
  ASSUME ThreadsOK, WorkInv, NEW p \in Pollers, NEW place, NEW tx,
         pc' = [pc EXCEPT ![p] = place], txn' = [txn EXCEPT ![p] = tx],
         WorkOK(place, tx)
  PROVE  WorkInv'
  <1>1. pc'[p] = place /\ txn'[p] = tx
    BY DEF ThreadsOK
  <1>2. ASSUME NEW q \in Pollers, q # p PROVE pc'[q] = pc[q] /\ txn'[q] = txn[q]
    BY <1>2 DEF ThreadsOK
  <1>3. ASSUME NEW q \in Pollers PROVE WorkOK(pc'[q], txn'[q])
    BY <1>1, <1>2 DEF WorkInv
  <1>4. QED
    BY <1>3 DEF WorkInv, WorkOK

\* Outside a transaction there is nothing to say of it.
LEMMA WorkElsewhere ==
  ASSUME NEW place, place \notin InTxn, NEW tx PROVE WorkOK(place, tx)
  BY Places DEF WorkOK

\* What the two ways to fail write.
LEMMA FailureValues ==
  ASSUME NEW row \in Row, NEW new \in {MarkFailure(row), MarkDeadLetter(row)}
  PROVE  /\ new.status \in {"failed", "dead_letter"}
         /\ new.status = "failed" =>
              new.attempts = row.attempts + 1 /\ new.attempts < MaxAttempts
         /\ new.serial = row.serial /\ new.deliveredAt = row.deliveredAt
  <1>1. CASE new = MarkDeadLetter(row)
    BY <1>1 DEF MarkDeadLetter, Row
  <1>2. CASE new = MarkFailure(row)
    <2>1. PICK n : n = row.attempts + 1
      OBVIOUS
    <2>2. PICK s : s = IF n >= MaxAttempts THEN "dead_letter" ELSE "failed"
      OBVIOUS
    <2>3. new = [row EXCEPT !.attempts = n, !.status = s]
      BY <1>2, <2>1, <2>2 DEF MarkFailure
    <2>4. /\ new.status = s /\ new.attempts = n
          /\ new.serial = row.serial /\ new.deliveredAt = row.deliveredAt
      BY <2>3 DEF Row
    <2>5. n \in Nat
      BY <2>1 DEF Row
    <2>6. s \in {"failed", "dead_letter"} /\ (s = "failed" => n < MaxAttempts)
      BY <2>2, <2>5, MaxAttemptsAssumption
    <2>7. QED
      BY <2>1, <2>4, <2>6
  <1>3. QED
    BY <1>1, <1>2

LEMMA WorkReact ==
  ASSUME ThreadsOK, WorkInv, NEW p \in Pollers, NEW error,
         pc[p] \in Holding \ {"record"}, React(p, error)
  PROVE  WorkInv'
  <1>1. txn[p] \in Txn /\ txn[p].cur \in Row /\ WorkOK(pc[p], txn[p]) /\ pc[p] \in InTxn
    BY Places DEF ThreadsOK, InHand, WorkInv
  <1>2. ASSUME NEW row \in Row, Settle(p, row),
               row \in {MarkFailure(txn[p].cur), MarkDeadLetter(txn[p].cur)}
        PROVE  WorkInv'
    <2>. DEFINE tx == [txn[p] EXCEPT !.cur = row]
    <2>1. tx.cur = row /\ tx.old = txn[p].old
      BY <1>1 DEF Txn
    <2>2. /\ row.status \in {"failed", "dead_letter"}
          /\ row.status = "failed" =>
               row.attempts = txn[p].cur.attempts + 1 /\ row.attempts < MaxAttempts
          /\ row.serial = txn[p].cur.serial /\ row.deliveredAt = txn[p].cur.deliveredAt
      BY <1>1, <1>2, FailureValues
    <2>3. WorkOK("record", tx)
      BY <1>1, <2>1, <2>2, Places DEF WorkOK, Verdicts
    <2>4. pc' = [pc EXCEPT ![p] = "record"] /\ txn' = [txn EXCEPT ![p] = tx]
      BY <1>2 DEF Settle, GoTo
    <2>. HIDE DEF tx
    <2>5. QED
      BY <2>3, <2>4, WorkMove
  <1>3. MarkFailure(txn[p].cur) \in Row /\ MarkDeadLetter(txn[p].cur) \in Row
    BY <1>1, RowOpsType
  <1>4. ASSUME AbortJob(p) \/ AbortGroup(p) PROVE WorkInv'
    BY <1>4, Places, WorkElsewhere, WorkMove DEF AbortJob, AbortGroup, GoTo
  <1>5. QED
    BY <1>2, <1>3, <1>4 DEF React

LEMMA WorkDeliver ==
  ASSUME ThreadsOK, WorkInv, NEW p \in Pollers,
         pc[p] \in Holding \ {"record"}, Settle(p, MarkDelivered(txn[p].cur))
  PROVE  WorkInv'
  <1>1. txn[p] \in Txn /\ txn[p].cur \in Row /\ WorkOK(pc[p], txn[p]) /\ pc[p] \in InTxn
    BY Places DEF ThreadsOK, InHand, WorkInv
  <1>. DEFINE row == MarkDelivered(txn[p].cur)
              tx  == [txn[p] EXCEPT !.cur = row]
  <1>2. tx.cur = row /\ tx.old = txn[p].old
    BY <1>1 DEF Txn
  <1>3. row.status = "delivered" /\ row.deliveredAt /\ row.serial = txn[p].cur.serial
    BY <1>1 DEF MarkDelivered, Row
  <1>4. WorkOK("record", tx)
    BY <1>1, <1>2, <1>3, Places DEF WorkOK, Verdicts
  <1>5. pc' = [pc EXCEPT ![p] = "record"] /\ txn' = [txn EXCEPT ![p] = tx]
    BY DEF Settle, GoTo
  <1>. HIDE DEF tx
  <1>6. QED
    BY <1>4, <1>5, WorkMove

\* A move within the undecided part of a transaction.
LEMMA WorkGoTo ==
  ASSUME ThreadsOK, WorkInv, NEW p \in Pollers, NEW place \in InTxn \ {"record"},
         pc[p] \in InTxn \ {"record"}, GoTo(p, place), UNCHANGED txn
  PROVE  WorkInv'
  <1>. DEFINE tx == txn[p]
  <1>1. WorkOK(place, tx)
    BY DEF WorkInv, WorkOK
  <1>2. pc' = [pc EXCEPT ![p] = place] /\ txn' = [txn EXCEPT ![p] = tx]
    BY DEF GoTo, ThreadsOK
  <1>. HIDE DEF tx
  <1>3. QED
    BY <1>1, <1>2, WorkMove

\* A move to a place outside transactions.
LEMMA WorkLeave ==
  ASSUME ThreadsOK, WorkInv, NEW p \in Pollers, NEW place, place \notin InTxn, GoTo(p, place),
         UNCHANGED txn \/ txn' = [txn EXCEPT ![p] = None]
  PROVE  WorkInv'
  <1>1. PICK tx : txn' = [txn EXCEPT ![p] = tx]
    <2>1. CASE UNCHANGED txn
      <3>1. txn' = [txn EXCEPT ![p] = txn[p]]
        BY <2>1 DEF ThreadsOK
      <3>2. QED
        BY <3>1
    <2>2. CASE txn' = [txn EXCEPT ![p] = None]
      BY <2>2
    <2>3. QED
      BY <2>1, <2>2
  <1>2. QED
    BY <1>1, WorkElsewhere, WorkMove DEF GoTo

LEMMA WorkLookup ==
  ASSUME TypeInv, WorkInv, NEW p \in Pollers, Lookup(p) PROVE WorkInv'
  <1>. TablesOK /\ ThreadsOK
    BY TypeInvParts
  <1>1. plan[p] \in Plan /\ plan[p].known \in BOOLEAN /\ plan[p].job \in Snapshot
    BY Places DEF Lookup, ThreadsOK, InHand, Plan
  <1>2. PICK u \in plan[p].rest : Lookup(p)!2!(u)
    BY DEF Lookup
  <1>. DEFINE row == rows[<<plan[p].job.id, u>>]
  <1>3. row \in RowOrNone /\ u \in Subs
    BY <1>1 DEF Plan, Keys, Snapshot, TablesOK
  <1>4. CASE UNCHANGED <<pc, txn>>
    BY <1>4 DEF WorkInv, WorkOK
  <1>5. CASE /\ row = NoRow /\ GoTo(p, "create")
             /\ txn' = [txn EXCEPT ![p] =
                  [sub |-> u, old |-> NoRow, cur |-> NewRow(plan[p].known), tries |-> 0]]
    <2>1. WorkOK("create", [sub |-> u, old |-> NoRow, cur |-> NewRow(plan[p].known), tries |-> 0])
      BY Places DEF WorkOK, NoRow, NewRow, TerminalStates
    <2>2. QED
      BY <1>5, <2>1, WorkMove DEF GoTo
  <1>6. CASE /\ row # NoRow /\ row.status \notin TerminalStates /\ GoTo(p, "fetch")
             /\ txn' = [txn EXCEPT ![p] =
                  [sub |-> u, old |-> row, cur |-> BackfillSerial(row, plan[p].known), tries |-> 0]]
    <2>. DEFINE cur == BackfillSerial(row, plan[p].known)
                tx  == [sub |-> u, old |-> row, cur |-> cur, tries |-> 0]
    <2>1. row \in Row
      BY <1>3, <1>6 DEF RowOrNone
    <2>2. /\ cur.status = row.status /\ cur.attempts = row.attempts
          /\ cur.deliveredAt = row.deliveredAt
          /\ row.serial => cur.serial
      BY <2>1 DEF BackfillSerial, Row
    <2>3. WorkOK("fetch", tx)
      BY <1>6, <2>2, Places DEF WorkOK
    <2>. HIDE DEF tx
    <2>4. QED
      BY <1>6, <2>3, WorkMove DEF GoTo, tx
  <1>7. QED
    BY <1>2, <1>4, <1>5, <1>6

LEMMA WorkStep ==
  ASSUME TypeInv, WorkInv, [Next]_vars PROVE WorkInv'
  <1>. TablesOK /\ ThreadsOK
    BY TypeInvParts
  <1>1. CASE UNCHANGED <<pc, txn>>
    BY <1>1 DEF WorkInv, WorkOK
  <1>2. ASSUME NEW p \in Pollers,
               \/ Boot(p) \/ LoadActive(p) \/ EndCycle(p) \/ EndPass(p) \/ EndLoop(p)
               \/ Start(p) \/ Crash(p)
        PROVE  WorkInv'
    BY <1>2, Places, WorkLeave
    DEF LoadActive, EndCycle, EndPass, EndLoop, Boot, Start, Crash, GoTo
  <1>3. ASSUME NEW p \in Pollers, ListGroup(p) \/ NextJob(p) PROVE WorkInv'
    BY <1>1, <1>3, Places, WorkLeave DEF ListGroup, NextJob
  <1>4. ASSUME NEW p \in Pollers,
               EndGroup(p) \/ LeaveJob(p) \/ MarkPolled(p) \/ DatabaseFault(p)
        PROVE  WorkInv'
    BY <1>4, Places, WorkLeave
    DEF EndGroup, LeaveJob, MarkPolled, DatabaseFault, AbortJob, AbortGroup, AbandonCycle
  <1>5. ASSUME NEW p \in Pollers, Create(p) PROVE WorkInv'
    BY <1>5, Places, WorkGoTo, WorkLeave DEF Create, AbandonCycle
  <1>6. ASSUME NEW p \in Pollers, Fetch(p) \/ ResolveQueueId(p) \/ AlreadyDelivered(p)
        PROVE  WorkInv'
    <2>1. pc[p] \in Holding \ {"record"} /\ pc[p] \in InTxn \ {"record"}
      BY <1>6, Places DEF Fetch, ResolveQueueId, AlreadyDelivered
    <2>2. CASE \E error : React(p, error)
      BY <2>1, <2>2, WorkReact
    <2>3. CASE \E place \in {"resolve", "guard", "post"} : GoTo(p, place) /\ UNCHANGED txn
      BY <2>1, <2>3, Places, WorkGoTo
    <2>4. CASE Settle(p, MarkDelivered(txn[p].cur))
      BY <2>1, <2>4, WorkDeliver
    <2>5. QED
      BY <1>6, <2>2, <2>3, <2>4 DEF Fetch, ResolveQueueId, AlreadyDelivered
  <1>7. ASSUME NEW p \in Pollers, Post(p) PROVE WorkInv'
    <2>1. pc[p] = "post" /\ pc[p] \in Holding \ {"record"} /\ txn[p] \in Txn /\ WorkOK(pc[p], txn[p])
      BY <1>7, Places DEF Post, ThreadsOK, InHand, WorkInv
    <2>2. ASSUME txn' = [txn EXCEPT ![p].tries = @ + 1], UNCHANGED <<pc, plan>>
          PROVE  WorkInv'
      <3>. DEFINE tx == [txn[p] EXCEPT !.tries = txn[p].tries + 1]
      <3>1. tx.old = txn[p].old /\ tx.cur = txn[p].cur
        BY <2>1 DEF Txn
      <3>2. WorkOK("post", tx)
        BY <2>1, <3>1 DEF WorkOK
      <3>3. pc' = [pc EXCEPT ![p] = "post"] /\ txn' = [txn EXCEPT ![p] = tx]
        BY <2>1, <2>2 DEF ThreadsOK
      <3>. HIDE DEF tx
      <3>4. QED
        BY <3>2, <3>3, WorkMove
    <2>3. QED
      BY <1>7, <2>1, <2>2, WorkReact, WorkDeliver DEF Post
  <1>8. ASSUME NEW p \in Pollers, Record(p) PROVE WorkInv'
    BY <1>8, Places, WorkLeave DEF Record, AbandonCycle
  <1>9. QED
    BY <1>1, <1>2, <1>3, <1>4, <1>5, <1>6, <1>7, <1>8, WorkLookup
    DEF Next, PollStep, vars, Stop, Arrive, Purge, CreateJob, UpdateJob, DeleteJob,
        RetryLoad, RetryCommit, RetryFail

LEMMA WorkInvariant == Spec => []WorkInv
  <1>1. Init => WorkInv
    BY Places, WorkElsewhere DEF Init, WorkInv
  <1>2. TypeInv /\ WorkInv /\ [Next]_vars => WorkInv'
    BY WorkStep
  <1>3. QED
    BY <1>1, <1>2, TypeInvariant, PTL DEF Spec

-------------------------------------------------------------------------------
(* The steps that write to the table of submissions.                       *)

\* A terminal row is skipped, its serial filled in.
SkipsRow(k, known) ==
  /\ rows[k].status \in TerminalStates
  /\ rows' = [rows EXCEPT ![k] = BackfillSerial(rows[k], known)]

CommitsRow(p) ==
  /\ pc[p] = "record"
  /\ txn[p].old = NoRow \/ rows[Key(p)] # NoRow
  /\ rows' = Committed(p)
  /\ pc'[p] \notin Holding

ResetsRow(r) ==
  /\ request[r] # None /\ rows[request[r].key] # NoRow
  /\ rows' = [rows EXCEPT ![request[r].key] =
                WriteBack(@, request[r].old, ResetForRetry(request[r].old))]

LEMMA RowSteps ==
  ASSUME TypeInv, [Next]_vars
  PROVE  \/ UNCHANGED rows
         \/ \E k \in Keys, known \in BOOLEAN : SkipsRow(k, known)
         \/ \E p \in Pollers : CommitsRow(p)
         \/ \E r \in Requests : ResetsRow(r)
         \/ \E j \in JobIds : DeleteJob(j)
  <1>. TablesOK /\ ThreadsOK
    BY TypeInvParts
  <1>1. ASSUME NEW p \in Pollers, Lookup(p)
        PROVE  UNCHANGED rows \/ \E k \in Keys, known \in BOOLEAN : SkipsRow(k, known)
    <2>1. plan[p] \in Plan /\ plan[p].known \in BOOLEAN /\ plan[p].job \in Snapshot
      BY <1>1, Places DEF Lookup, ThreadsOK, InHand, Plan
    <2>2. PICK u \in plan[p].rest : Lookup(p)!2!(u)
      BY <1>1 DEF Lookup
    <2>3. <<plan[p].job.id, u>> \in Keys
      BY <2>1 DEF Plan, Keys, Snapshot
    <2>4. QED
      BY <2>1, <2>2, <2>3 DEF SkipsRow
  <1>2. ASSUME NEW p \in Pollers, Record(p) \/ DatabaseFault(p)
        PROVE  UNCHANGED rows \/ CommitsRow(p)
    BY <1>2 DEF Record, DatabaseFault, CommitsRow, AbandonCycle, GoTo, ThreadsOK, Holding
  <1>3. ASSUME NEW r \in Requests, RetryCommit(r)
        PROVE  UNCHANGED rows \/ ResetsRow(r)
    BY <1>3 DEF RetryCommit, ResetsRow
  <1>4. QED
    BY <1>1, <1>2, <1>3
    DEF Next, PollStep, vars, LoadActive, ListGroup, EndCycle, NextJob, EndGroup, LeaveJob,
        EndPass, MarkPolled, Create, Fetch, ResolveQueueId, AlreadyDelivered, Post, EndLoop, Boot,
        Stop, Crash, Start, Arrive, Purge, CreateJob, UpdateJob, RetryLoad, RetryFail

\* One key at a time: what a step makes of the row at k.
LEMMA RowValues ==
  ASSUME TypeInv, [Next]_vars, NEW k \in Keys
  PROVE  \/ rows'[k] = rows[k]
         \/ DeleteJob(k[1]) /\ rows'[k] = NoRow
         \/ /\ rows[k] \in Row /\ rows[k].status \in TerminalStates
            /\ \E known \in BOOLEAN : rows'[k] = BackfillSerial(rows[k], known)
         \/ \E p \in Pollers :
              /\ pc[p] = "record" /\ k = Key(p) /\ txn[p].cur \in Row /\ pc'[p] \notin Holding
              /\ \/ txn[p].old = NoRow /\ rows'[k] = txn[p].cur
                 \/ /\ txn[p].old \in Row /\ rows[k] \in Row
                    /\ rows'[k] = WriteBack(rows[k], txn[p].old, txn[p].cur)
         \/ \E r \in Requests :
              /\ request[r] \in Retry /\ rows[k] \in Row /\ k = request[r].key
              /\ rows'[k] = WriteBack(rows[k], request[r].old, ResetForRetry(request[r].old))
  <1>. TablesOK /\ ThreadsOK
    BY TypeInvParts
  <1>1. rows \in [Keys -> RowOrNone] /\ rows[k] \in RowOrNone
    BY DEF TablesOK
  <1>2. ASSUME NEW i \in Keys, NEW known \in BOOLEAN, SkipsRow(i, known)
        PROVE  \/ rows'[k] = rows[k]
               \/ /\ rows[k] \in Row /\ rows[k].status \in TerminalStates
                  /\ \E b \in BOOLEAN : rows'[k] = BackfillSerial(rows[k], b)
    <2>1. CASE i # k
      BY <1>1, <1>2, <2>1 DEF SkipsRow
    <2>2. CASE i = k
      <3>1. rows'[k] = BackfillSerial(rows[k], known)
        BY <1>1, <1>2, <2>2 DEF SkipsRow
      <3>2. rows[k] # NoRow /\ rows[k].status \in TerminalStates
        BY <1>2, <2>2 DEF SkipsRow, NoRow, TerminalStates
      <3>3. QED
        BY <1>1, <3>1, <3>2 DEF RowOrNone
    <2>3. QED
      BY <2>1, <2>2
  <1>3. ASSUME NEW p \in Pollers, CommitsRow(p)
        PROVE  \/ rows'[k] = rows[k]
               \/ /\ pc[p] = "record" /\ k = Key(p) /\ txn[p].cur \in Row /\ pc'[p] \notin Holding
                  /\ \/ txn[p].old = NoRow /\ rows'[k] = txn[p].cur
                     \/ /\ txn[p].old \in Row /\ rows[k] \in Row
                        /\ rows'[k] = WriteBack(rows[k], txn[p].old, txn[p].cur)
    <2>1. /\ pc[p] = "record" /\ pc'[p] \notin Holding
          /\ txn[p] \in Txn /\ txn[p].cur \in Row /\ txn[p].old \in RowOrNone
      BY <1>3, Places DEF CommitsRow, ThreadsOK, InHand, Txn
    <2>2. CASE k # Key(p)
      BY <1>1, <1>3, <2>2 DEF CommitsRow, Committed
    <2>3. CASE k = Key(p)
      <3>1. rows'[k] = IF txn[p].old = NoRow THEN txn[p].cur
                       ELSE WriteBack(rows[k], txn[p].old, txn[p].cur)
        BY <1>1, <1>3, <2>3 DEF CommitsRow, Committed
      <3>2. txn[p].old # NoRow => txn[p].old \in Row /\ rows[k] \in Row
        BY <1>1, <1>3, <2>1, <2>3 DEF CommitsRow, RowOrNone
      <3>3. QED
        BY <2>1, <2>3, <3>1, <3>2
    <2>4. QED
      BY <2>2, <2>3
  <1>4. ASSUME NEW r \in Requests, ResetsRow(r)
        PROVE  \/ rows'[k] = rows[k]
               \/ /\ request[r] \in Retry /\ rows[k] \in Row /\ k = request[r].key
                  /\ rows'[k] = WriteBack(rows[k], request[r].old, ResetForRetry(request[r].old))
    BY <1>1, <1>4 DEF ResetsRow, TablesOK, RowOrNone
  <1>5. ASSUME NEW j \in JobIds, DeleteJob(j)
        PROVE  rows'[k] = rows[k] \/ (DeleteJob(k[1]) /\ rows'[k] = NoRow)
    BY <1>5 DEF DeleteJob
  <1>6. QED
    BY <1>2, <1>3, <1>4, <1>5, RowSteps

\* No row is born "new": the first write a transaction commits is its verdict.
THEOREM BirthWithVerdict == Spec => RowsBornWithVerdict
  <1>1. ASSUME TypeInv, WorkInv, [Next]_vars, NEW k \in Keys,
               rows[k] = NoRow, rows'[k] # NoRow
        PROVE  rows'[k].status \in Verdicts
    <2>1. rows[k] \notin Row
      BY <1>1, NoRowIsNotARow
    <2>2. PICK p \in Pollers : pc[p] = "record" /\ rows'[k] = txn[p].cur
      BY <1>1, <2>1, RowValues
    <2>3. QED
      BY <1>1, <2>2 DEF WorkInv, WorkOK
  <1>2. TypeInv /\ WorkInv /\ [Next]_vars =>
          [\A k \in Keys :
             rows[k] = NoRow /\ rows'[k] # NoRow =>
               rows'[k].status \in {"delivered", "failed", "dead_letter"}]_vars
    BY <1>1 DEF Verdicts
  <1>3. QED
    BY <1>2, TypeInvariant, WorkInvariant, PTL DEF Spec, RowsBornWithVerdict

\* A row that counts as failed has attempts left, however many threads and
\* requests write to it.
THEOREM BudgetHolds == Spec => []FailedHasBudget
  <1>1. Init => FailedHasBudget
    BY DEF Init, FailedHasBudget, NoRow
  <1>2. ASSUME TypeInv, WorkInv, FailedHasBudget, [Next]_vars, NEW k \in Keys,
               rows'[k].status = "failed"
        PROVE  rows'[k].attempts < MaxAttempts
    <2>1. rows[k].status = "failed" => rows[k].attempts < MaxAttempts
      BY <1>2 DEF FailedHasBudget
    <2>2. CASE rows'[k] = rows[k]
      BY <1>2, <2>1, <2>2
    <2>3. CASE rows'[k] = NoRow
      BY <1>2, <2>3 DEF NoRow
    <2>4. CASE /\ rows[k] \in Row /\ rows[k].status \in TerminalStates
               /\ \E known \in BOOLEAN : rows'[k] = BackfillSerial(rows[k], known)
      BY <1>2, <2>4 DEF BackfillSerial, Row, TerminalStates
    <2>5. ASSUME NEW p \in Pollers, pc[p] = "record", txn[p].cur \in Row,
                 \/ txn[p].old = NoRow /\ rows'[k] = txn[p].cur
                 \/ /\ txn[p].old \in Row /\ rows[k] \in Row
                    /\ rows'[k] = WriteBack(rows[k], txn[p].old, txn[p].cur)
          PROVE  rows'[k].attempts < MaxAttempts
      <3>1. txn[p].cur.status = "failed" =>
              txn[p].cur.attempts = txn[p].old.attempts + 1 /\ txn[p].cur.attempts < MaxAttempts
        BY <1>2, <2>5 DEF WorkInv, WorkOK
      <3>2. CASE txn[p].old = NoRow
        BY <1>2, <2>5, <3>1, <3>2, NoRowIsNotARow
      <3>3. CASE txn[p].old \in Row /\ rows[k] \in Row
                 /\ rows'[k] = WriteBack(rows[k], txn[p].old, txn[p].cur)
        <4>1. txn[p].old.attempts \in Nat /\ txn[p].cur.attempts \in Nat /\ rows[k].attempts \in Nat
          BY <2>5, <3>3 DEF Row
        <4>2. /\ rows'[k].status = Column(rows[k].status, txn[p].old.status, txn[p].cur.status)
              /\ rows'[k].attempts = Column(rows[k].attempts, txn[p].old.attempts, txn[p].cur.attempts)
          BY <3>3 DEF WriteBack
        <4>3. txn[p].cur.status \in Verdicts /\ txn[p].old.status \notin TerminalStates
          BY <1>2, <2>5, Places DEF WorkInv, WorkOK
        <4>4. CASE txn[p].cur.status = "failed"
          BY <3>1, <4>1, <4>2, <4>4 DEF Column
        <4>5. CASE txn[p].cur.status # "failed"
          BY <1>2, <4>2, <4>3, <4>5 DEF Column, Verdicts, TerminalStates
        <4>6. QED
          BY <4>4, <4>5
      <3>4. QED
        BY <2>5, <3>2, <3>3
    <2>6. ASSUME NEW r \in Requests, request[r] \in Retry, rows[k] \in Row,
                 rows'[k] = WriteBack(rows[k], request[r].old, ResetForRetry(request[r].old))
          PROVE  rows'[k].attempts < MaxAttempts
      <3>1. request[r].old \in Row
        BY <2>6 DEF Retry
      <3>2. ResetForRetry(request[r].old).status = "new" /\ ResetForRetry(request[r].old).attempts = 0
        BY <3>1 DEF ResetForRetry, Row
      <3>3. /\ rows'[k].status \in {rows[k].status, "new"}
            /\ rows'[k].attempts \in {rows[k].attempts, 0}
        BY <2>6, <3>2 DEF WriteBack, Column
      <3>4. rows[k].attempts < MaxAttempts /\ rows[k].attempts \in Nat
        BY <1>2, <2>1, <2>6, <3>3 DEF Row
      <3>5. QED
        BY <3>3, <3>4, MaxAttemptsAssumption
    <2>7. QED
      BY <1>2, <2>2, <2>3, <2>4, <2>5, <2>6, RowValues
  <1>3. TypeInv /\ WorkInv /\ FailedHasBudget /\ [Next]_vars => FailedHasBudget'
    BY <1>2 DEF FailedHasBudget
  <1>4. QED
    BY <1>1, <1>3, TypeInvariant, WorkInvariant, PTL DEF Spec

-------------------------------------------------------------------------------
(* One thread at a time.                                                   *)

ThreadStep(p) == PollStep(p) \/ DatabaseFault(p) \/ Stop(p) \/ Crash(p) \/ Start(p)

SameThread(p) == pc'[p] = pc[p] /\ plan'[p] = plan[p] /\ txn'[p] = txn[p]

\* A step is taken by one thread, or by none.
LEMMA OneThread ==
  ASSUME TypeInv, [Next]_vars
  PROVE  \/ UNCHANGED <<pc, plan, txn>>
         \/ \E p \in Pollers :
              ThreadStep(p) /\ \A q \in Pollers \ {p} : SameThread(q)
  <1>. ThreadsOK
    BY TypeInvParts
  <1>1. ASSUME NEW p \in Pollers, ThreadStep(p), NEW q \in Pollers \ {p} PROVE SameThread(q)
    <2>1. pc \in [Pollers -> Locations] /\ plan \in [Pollers -> Plan]
          /\ txn \in [Pollers -> Txn \cup {None}]
      BY DEF ThreadsOK
    <2>2. ASSUME NEW error, React(p, error) PROVE SameThread(q)
      BY <2>1, <2>2 DEF React, Settle, AbortJob, AbortGroup, GoTo, SameThread
    <2>3. CASE LoadActive(p) \/ ListGroup(p) \/ EndCycle(p) \/ NextJob(p) \/ EndGroup(p)
      BY <2>1, <2>3
      DEF LoadActive, ListGroup, EndCycle, NextJob, EndGroup, AbortGroup, GoTo, SameThread
    <2>4. CASE LeaveJob(p) \/ EndPass(p) \/ MarkPolled(p)
      BY <2>1, <2>4 DEF LeaveJob, EndPass, MarkPolled, AbortJob, GoTo, SameThread
    <2>5. CASE Lookup(p)
      <3>1. /\ \E pl : plan' = [plan EXCEPT ![p] = pl]
            /\ UNCHANGED pc \/ \E place : pc' = [pc EXCEPT ![p] = place]
            /\ UNCHANGED txn \/ \E tx : txn' = [txn EXCEPT ![p] = tx]
        BY <2>5 DEF Lookup, GoTo
      <3>2. QED
        BY <2>1, <3>1 DEF SameThread
    <2>6. CASE Create(p) \/ Record(p) \/ DatabaseFault(p)
      BY <2>1, <2>6 DEF Create, Record, DatabaseFault, AbandonCycle, GoTo, SameThread
    <2>7. CASE Fetch(p) \/ ResolveQueueId(p) \/ AlreadyDelivered(p) \/ Post(p)
      BY <2>1, <2>2, <2>7
      DEF Fetch, ResolveQueueId, AlreadyDelivered, Post, Settle, GoTo, SameThread
    <2>8. CASE EndLoop(p) \/ Boot(p) \/ Stop(p) \/ Crash(p) \/ Start(p)
      BY <2>1, <2>8 DEF EndLoop, Boot, Stop, Crash, Start, GoTo, SameThread
    <2>9. QED
      BY <1>1, <2>3, <2>4, <2>5, <2>6, <2>7, <2>8 DEF ThreadStep, PollStep
  <1>2. QED
    BY <1>1
    DEF Next, vars, ThreadStep, Arrive, Purge, CreateJob, UpdateJob, DeleteJob,
        RetryLoad, RetryCommit, RetryFail

-------------------------------------------------------------------------------
(* How a thread comes by its group, and what it still has of it.           *)

\* Where a thread has a listing to work off.
Working == InJob \cup {"jobs"}

\* A listing was made for the jobs of one form.
BeginsGroup(p) ==
  /\ pc[p] = "groups" /\ pc'[p] = "jobs"
  /\ plan'[p].todo \subseteq plan[p].todo
  /\ \E s \in plan[p].todo :
       /\ plan'[p].group = {t \in plan[p].todo : t.form = s.form}
       /\ plan'[p].listed = Listing(s.form)

TakesJob(p) ==
  /\ pc[p] = "jobs" /\ pc'[p] = "refs"
  /\ plan'[p].todo = plan[p].todo
  /\ plan'[p].listed = plan[p].listed /\ plan'[p].rest = plan[p].listed
  /\ \E s \in plan[p].group : plan'[p].group = plan[p].group \ {s} /\ plan'[p].job = s

\* A job is done with, or passed over, or nothing has been listed yet.
BetweenJobs(p) ==
  /\ pc'[p] \notin InJob
  /\ pc[p] \in Working <=> pc'[p] \in Working
  /\ plan'[p].todo \subseteq plan[p].todo \/ (plan'[p].todo = ActiveJobs /\ pc[p] \notin Working)
  /\ plan'[p].group \subseteq plan[p].group /\ plan'[p].listed = plan[p].listed

\* What is left of the group is given up.
EndsGroup(p) ==
  /\ pc'[p] \notin Working
  /\ plan'[p].todo \subseteq plan[p].todo /\ plan'[p].group = {}

WorksOn(p) ==
  /\ pc[p] \in InJob /\ pc'[p] \in InJob
  /\ plan'[p].todo = plan[p].todo /\ plan'[p].group = plan[p].group
  /\ plan'[p].listed = plan[p].listed /\ plan'[p].job = plan[p].job
  /\ plan'[p].rest \subseteq plan[p].rest
  /\ pc'[p] \in InTxn => \/ pc[p] \in InTxn /\ txn'[p].sub = txn[p].sub
                         \/ txn'[p].sub \in plan[p].rest

LEMMA GroupMoves ==
  ASSUME TypeInv, NEW p \in Pollers, ThreadStep(p)
  PROVE  \/ BeginsGroup(p) \/ TakesJob(p) \/ BetweenJobs(p) \/ EndsGroup(p) \/ WorksOn(p)
         \/ SameThread(p)
  <1>. ThreadsOK
    BY TypeInvParts
  <1>1. /\ pc \in [Pollers -> Locations] /\ plan \in [Pollers -> Plan] /\ plan[p] \in Plan
        /\ txn \in [Pollers -> Txn \cup {None}]
        /\ pc[p] \in InTxn => txn[p] \in Txn
    BY DEF ThreadsOK, InHand
  <1>5. ASSUME AbortJob(p), pc[p] \in InJob PROVE BetweenJobs(p)
    <2>1. plan'[p] = [plan[p] EXCEPT !.job = None, !.rest = {}, !.queueKnown = FALSE]
      BY <1>1, <1>5 DEF AbortJob
    <2>2. /\ plan'[p].listed = plan[p].listed /\ plan'[p].group = plan[p].group
          /\ plan'[p].todo = plan[p].todo
      BY <1>1, <2>1 DEF Plan
    <2>3. pc'[p] = "jobs"
      BY <1>1, <1>5 DEF AbortJob, GoTo
    <2>4. QED
      BY <1>5, <2>2, <2>3, Places DEF BetweenJobs, Working
  <1>6. ASSUME AbortGroup(p) \/ AbandonCycle(p) \/ Crash(p) PROVE EndsGroup(p)
    <2>1. pc'[p] \notin Working
      BY <1>1, <1>6, Places DEF AbortGroup, AbandonCycle, Crash, GoTo, Working
    <2>2. \/ plan'[p] = [EmptyPlan EXCEPT !.todo = plan[p].todo]
          \/ plan'[p] = EmptyPlan
      BY <1>1, <1>6 DEF AbortGroup, AbandonCycle, Crash
    <2>3. plan'[p].group = {} /\ plan'[p].todo \subseteq plan[p].todo
      BY <2>2 DEF EmptyPlan
    <2>4. QED
      BY <2>1, <2>3 DEF EndsGroup
  <1>7. CASE LoadActive(p)
    <2>1. plan'[p] = [plan[p] EXCEPT !.todo = ActiveJobs]
      BY <1>1, <1>7 DEF LoadActive
    <2>2. /\ plan'[p].group = plan[p].group /\ plan'[p].listed = plan[p].listed
          /\ plan'[p].todo = ActiveJobs
      BY <1>1, <2>1 DEF Plan
    <2>3. pc[p] = "idle" /\ pc'[p] = "groups"
      BY <1>1, <1>7 DEF LoadActive, GoTo
    <2>4. QED
      BY <2>2, <2>3, Places DEF BetweenJobs, Working
  <1>8. CASE ListGroup(p)
    <2>1. PICK s \in plan[p].todo : ListGroup(p)!2!(s)
      BY <1>8 DEF ListGroup
    <2>. DEFINE group == {t \in plan[p].todo : t.form = s.form}
    <2>3. ASSUME NEW known, GoTo(p, "jobs"),
                 plan' = [plan EXCEPT ![p] =
                   [plan[p] EXCEPT !.todo = plan[p].todo \ group, !.group = group,
                             !.listed = Listing(s.form), !.known = known]]
          PROVE  BeginsGroup(p)
      <3>1. plan'[p] = [plan[p] EXCEPT !.todo = plan[p].todo \ group, !.group = group,
                             !.listed = Listing(s.form), !.known = known]
        BY <1>1, <2>3
      <3>2. /\ plan'[p].group = group /\ plan'[p].listed = Listing(s.form)
            /\ plan'[p].todo \subseteq plan[p].todo
        <4>. HIDE DEF group
        <4>1. QED
          BY <1>1, <3>1 DEF Plan
      <3>3. pc[p] = "groups" /\ pc'[p] = "jobs"
        BY <1>1, <1>8, <2>3 DEF ListGroup, GoTo
      <3>4. QED
        BY <3>2, <3>3 DEF BeginsGroup
    <2>4. ASSUME plan' = [plan EXCEPT ![p] = [plan[p] EXCEPT !.todo = plan[p].todo \ group]],
                 UNCHANGED pc
          PROVE  BetweenJobs(p)
      <3>1. plan'[p] = [plan[p] EXCEPT !.todo = plan[p].todo \ group]
        BY <1>1, <2>4
      <3>. HIDE DEF group
      <3>2. /\ plan'[p].group = plan[p].group /\ plan'[p].listed = plan[p].listed
            /\ plan'[p].todo \subseteq plan[p].todo
        BY <1>1, <3>1 DEF Plan
      <3>3. QED
        BY <1>8, <2>4, <3>2, Places DEF BetweenJobs, ListGroup, Working
    <2>5. QED
      BY <2>1, <2>3, <2>4
  <1>9. CASE NextJob(p)
    <2>1. PICK s \in plan[p].group : NextJob(p)!2!(s)
      BY <1>9 DEF NextJob
    <2>2. CASE /\ plan' = [plan EXCEPT ![p] =
                    [plan[p] EXCEPT !.group = plan[p].group \ {s}, !.job = s, !.rest = plan[p].listed]]
               /\ GoTo(p, "refs")
      <3>1. plan'[p] = [plan[p] EXCEPT !.group = plan[p].group \ {s}, !.job = s, !.rest = plan[p].listed]
        BY <1>1, <2>2
      <3>2. /\ plan'[p].group = plan[p].group \ {s} /\ plan'[p].listed = plan[p].listed
            /\ plan'[p].job = s /\ plan'[p].rest = plan[p].listed /\ plan'[p].todo = plan[p].todo
        BY <1>1, <3>1 DEF Plan
      <3>3. pc[p] = "jobs" /\ pc'[p] = "refs"
        BY <1>1, <1>9, <2>2 DEF NextJob, GoTo
      <3>4. QED
        BY <3>2, <3>3 DEF TakesJob
    <2>3. CASE /\ plan' = [plan EXCEPT ![p] = [plan[p] EXCEPT !.group = plan[p].group \ {s}]]
               /\ UNCHANGED pc
      <3>1. plan'[p] = [plan[p] EXCEPT !.group = plan[p].group \ {s}] /\ pc'[p] = pc[p]
            /\ pc[p] = "jobs"
        BY <1>1, <1>9, <2>3 DEF NextJob
      <3>2. /\ plan'[p].group \subseteq plan[p].group /\ plan'[p].listed = plan[p].listed
            /\ plan'[p].todo = plan[p].todo
        BY <1>1, <3>1 DEF Plan
      <3>3. QED
        BY <3>1, <3>2, Places DEF BetweenJobs
    <2>4. QED
      BY <2>1, <2>2, <2>3
  <1>10. CASE Lookup(p)
    <2>1. PICK u \in plan[p].rest : Lookup(p)!2!(u)
      BY <1>10 DEF Lookup
    <2>2. plan'[p] = [plan[p] EXCEPT !.rest = plan[p].rest \ {u}] /\ pc[p] = "refs"
      BY <1>1, <1>10, <2>1 DEF Lookup
    <2>3. /\ plan'[p].group = plan[p].group /\ plan'[p].listed = plan[p].listed
          /\ plan'[p].job = plan[p].job /\ plan'[p].rest \subseteq plan[p].rest
          /\ plan'[p].todo = plan[p].todo
      BY <1>1, <2>2 DEF Plan
    <2>4. pc'[p] \in InTxn => txn'[p].sub = u
      <3>1. ASSUME NEW old, NEW cur,
                   txn' = [txn EXCEPT ![p] = [sub |-> u, old |-> old, cur |-> cur, tries |-> 0]]
            PROVE  txn'[p].sub = u
        BY <1>1, <3>1
      <3>2. UNCHANGED pc => pc'[p] \notin InTxn
        BY <2>2, Places
      <3>3. QED
        BY <2>1, <3>1, <3>2
    <2>5. pc'[p] \in {"refs", "create", "fetch"}
      BY <1>1, <2>1, <2>2 DEF GoTo
    <2>6. QED
      BY <2>2, <2>3, <2>4, <2>5, Places DEF WorksOn
  <1>11. CASE Create(p) \/ Fetch(p) \/ ResolveQueueId(p) \/ AlreadyDelivered(p) \/ Post(p)
    <2>. DEFINE Kept == /\ plan'[p].group = plan[p].group /\ plan'[p].listed = plan[p].listed
                        /\ plan'[p].job = plan[p].job /\ plan'[p].rest = plan[p].rest
                        /\ plan'[p].todo = plan[p].todo
                        /\ txn'[p].sub = txn[p].sub
                        /\ pc'[p] \in InJob
    <2>1. pc[p] \in InTxn /\ pc[p] \in InJob /\ txn[p] \in Txn
      BY <1>1, <1>11, Places DEF Create, Fetch, ResolveQueueId, AlreadyDelivered, Post
    <2>2. ASSUME NEW row, Settle(p, row) PROVE Kept
      <3>1. plan' = plan /\ txn'[p] = [txn[p] EXCEPT !.cur = row] /\ pc'[p] = "record"
        BY <1>1, <2>2 DEF Settle, GoTo
      <3>2. QED
        BY <2>1, <3>1, Places DEF Txn
    <2>3. ASSUME plan' = [plan EXCEPT ![p].queueKnown = TRUE], UNCHANGED txn, GoTo(p, "guard") PROVE Kept
      <3>1. plan'[p] = [plan[p] EXCEPT !.queueKnown = TRUE] /\ pc'[p] = "guard"
        BY <1>1, <2>3 DEF GoTo
      <3>2. QED
        BY <1>1, <2>3, <3>1, Places DEF Plan
    <2>4. ASSUME txn' = [txn EXCEPT ![p].tries = @ + 1], UNCHANGED <<pc, plan>> PROVE Kept
      <3>1. txn'[p] = [txn[p] EXCEPT !.tries = txn[p].tries + 1]
        BY <1>1, <2>4
      <3>2. QED
        BY <2>1, <2>4, <3>1 DEF Txn
    <2>5. ASSUME NEW place \in {"fetch", "resolve", "guard", "post"}, GoTo(p, place),
                 UNCHANGED <<plan, txn>>
          PROVE  Kept
      BY <1>1, <2>5, Places DEF GoTo
    <2>6. Kept \/ AbortJob(p) \/ AbortGroup(p) \/ AbandonCycle(p)
      <3>. HIDE DEF Kept
      <3>1. ASSUME NEW error, React(p, error) PROVE Kept \/ AbortJob(p) \/ AbortGroup(p)
        BY <2>2, <3>1 DEF React
      <3>2. QED
        BY <1>11, <2>2, <2>3, <2>4, <2>5, <3>1
        DEF Create, Fetch, ResolveQueueId, AlreadyDelivered, Post
    <2>7. Kept => WorksOn(p)
      BY <2>1 DEF WorksOn
    <2>. HIDE DEF Kept
    <2>8. QED
      BY <1>5, <1>6, <2>1, <2>6, <2>7
  <1>12. CASE Record(p) \/ EndPass(p)
    <2>1. CASE UNCHANGED plan /\ pc[p] \in InJob /\ pc'[p] \in InJob /\ pc'[p] \notin InTxn
      BY <2>1 DEF WorksOn
    <2>2. \/ AbandonCycle(p)
          \/ UNCHANGED plan /\ pc[p] \in InJob /\ pc'[p] \in InJob /\ pc'[p] \notin InTxn
      BY <1>1, <1>12, Places DEF Record, EndPass, GoTo
    <2>3. QED
      BY <1>6, <2>1, <2>2
  <1>14. CASE EndCycle(p) \/ EndLoop(p) \/ Boot(p) \/ Start(p)
    <2>1. UNCHANGED plan /\ pc[p] \notin Working /\ pc'[p] \notin Working
      BY <1>1, <1>14, Places DEF EndCycle, EndLoop, Boot, Start, GoTo, Working
    <2>2. QED
      BY <2>1 DEF BetweenJobs, Working
  <1>15. CASE Stop(p)
    BY <1>15 DEF Stop, SameThread
  <1>16. CASE LeaveJob(p) \/ MarkPolled(p)
    BY <1>5, <1>16, Places DEF LeaveJob, MarkPolled
  <1>18. CASE EndGroup(p) \/ DatabaseFault(p) \/ Crash(p)
    BY <1>6, <1>18 DEF EndGroup, DatabaseFault
  <1>17. QED
    BY <1>7, <1>8, <1>9, <1>10, <1>11, <1>12, <1>14, <1>15, <1>16, <1>18
    DEF ThreadStep, PollStep

-------------------------------------------------------------------------------
(* What is on the queues.                                                  *)

\* Nothing is ever taken off a queue.
LEMMA ItemsGrow ==
  ASSUME TypeInv, [Next]_vars, NEW k \in Queues \X Subs
  PROVE  items[k] \in Nat /\ items'[k] \in Nat /\ items'[k] >= items[k]
  <1>. TablesOK /\ ThreadsOK
    BY TypeInvParts
  <1>1. items \in [Queues \X Subs -> Nat] /\ items[k] \in Nat
    BY DEF TablesOK
  <1>2. ASSUME NEW p \in Pollers, Post(p)
        PROVE  UNCHANGED items \/ items' = [items EXCEPT ![Reference(p)] = @ + 1]
    BY <1>2 DEF Post
  <1>3. CASE UNCHANGED items
    BY <1>1, <1>3
  <1>4. CASE \E p \in Pollers : items' = [items EXCEPT ![Reference(p)] = @ + 1]
    BY <1>1, <1>4
  <1>5. QED
    BY <1>2, <1>3, <1>4
    DEF Next, PollStep, vars, LoadActive, ListGroup, EndCycle, NextJob, EndGroup, LeaveJob,
        Lookup, EndPass, MarkPolled, Create, Fetch, ResolveQueueId, AlreadyDelivered, Record,
        EndLoop, Boot, DatabaseFault, Stop, Crash, Start, Arrive, Purge, CreateJob, UpdateJob,
        DeleteJob, RetryLoad, RetryCommit, RetryFail

\* How a thread comes to commit: with a failure, or with an item on the queue.
LEMMA VerdictReached ==
  ASSUME TypeInv, NEW p \in Pollers, ThreadStep(p), pc'[p] = "record", pc[p] # "record"
  PROVE  /\ pc[p] \in InTxn
         /\ plan'[p] = plan[p] /\ txn'[p].sub = txn[p].sub
         /\ \/ txn'[p].cur.status # "delivered"
            \/ items'[Reference(p)] > 0
  <1>. TablesOK /\ ThreadsOK
    BY TypeInvParts
  <1>1. pc \in [Pollers -> Locations] /\ plan \in [Pollers -> Plan]
        /\ txn \in [Pollers -> Txn \cup {None}]
    BY DEF ThreadsOK
  <1>2. ASSUME NEW row, Settle(p, row), pc[p] \in InTxn
        PROVE  plan'[p] = plan[p] /\ txn'[p].sub = txn[p].sub /\ txn'[p].cur = row
    <2>1. txn[p] \in Txn
      BY <1>2 DEF ThreadsOK, InHand
    <2>2. plan' = plan /\ txn' = [txn EXCEPT ![p] = [txn[p] EXCEPT !.cur = row]]
      BY <1>2 DEF Settle
    <2>3. txn'[p] = [txn[p] EXCEPT !.cur = row]
      BY <1>1, <2>2
    <2>4. QED
      BY <2>1, <2>2, <2>3 DEF Txn
  <1>3. ASSUME NEW error, React(p, error), pc[p] \in InTxn
        PROVE  plan'[p] = plan[p] /\ txn'[p].sub = txn[p].sub /\ txn'[p].cur.status # "delivered"
    <2>1. txn[p].cur \in Row
      BY <1>3 DEF ThreadsOK, InHand
    <2>2. PICK row \in {MarkFailure(txn[p].cur), MarkDeadLetter(txn[p].cur)} : Settle(p, row)
      BY <1>1, <1>3 DEF React, AbortJob, AbortGroup, GoTo
    <2>3. row.status # "delivered"
      BY <2>1, <2>2, FailureValues
    <2>4. QED
      BY <1>2, <1>3, <2>2, <2>3
  <1>4. CASE Fetch(p) \/ ResolveQueueId(p)
    <2>1. pc[p] \in InTxn
      BY <1>4, Places DEF Fetch, ResolveQueueId
    <2>2. \E error : React(p, error)
      BY <1>1, <1>4 DEF Fetch, ResolveQueueId, GoTo
    <2>3. QED
      BY <1>3, <2>1, <2>2
  <1>5. CASE AlreadyDelivered(p)
    <2>1. pc[p] \in InTxn
      BY <1>5, Places DEF AlreadyDelivered
    <2>2. CASE \E error : React(p, error)
      BY <1>3, <2>1, <2>2
    <2>3. CASE ItemThere(p) /\ UNCHANGED items /\ Settle(p, MarkDelivered(txn[p].cur))
      BY <1>2, <2>1, <2>3 DEF ItemThere
    <2>4. QED
      BY <1>1, <1>5, <2>2, <2>3 DEF AlreadyDelivered, GoTo, Transient
  <1>6. CASE Post(p)
    <2>1. pc[p] \in InTxn
      BY <1>6, Places DEF Post
    <2>2. Reference(p) \in Queues \X Subs
      BY <2>1, HandTypes
    <2>3. CASE \E error : React(p, error)
      BY <1>3, <2>1, <2>3
    <2>4. ASSUME NEW reply \in Replies, AddItem(reply) = NoError,
                 NEW added \in AddEffects(reply),
                 items' = IF added THEN [items EXCEPT ![Reference(p)] = @ + 1] ELSE items
          PROVE  items'[Reference(p)] > 0
      <3>1. AddEffects(reply) = {TRUE}
        BY <2>4 DEF AddItem, Request, NoError, Replies, AddEffects, Transient
      <3>2. items' = [items EXCEPT ![Reference(p)] = @ + 1]
        BY <2>4, <3>1
      <3>3. QED
        BY <2>2, <3>2 DEF TablesOK
    <2>5. CASE items'[Reference(p)] > 0 /\ Settle(p, MarkDelivered(txn[p].cur))
      BY <1>2, <2>1, <2>5
    <2>6. QED
      BY <1>6, <2>3, <2>4, <2>5 DEF Post
  <1>7. QED
    BY <1>1, <1>4, <1>5, <1>6
    DEF ThreadStep, PollStep, LoadActive, ListGroup, EndCycle, NextJob, EndGroup, LeaveJob,
        Lookup, EndPass, MarkPolled, Create, Record, EndLoop, Boot, DatabaseFault, Stop, Crash,
        Start, AbortJob, AbortGroup, AbandonCycle, GoTo

-------------------------------------------------------------------------------
(* Delivered means delivered. While a thread commits, the item it vouches  *)
(* for is on the queue; what it inserts has no other claim to delivered_at.*)

RealOK(p) ==
  pc[p] = "record" /\ txn[p].cur.status = "delivered" => items[Reference(p)] > 0

RealInv == DeliveredIsReal /\ \A p \in Pollers : RealOK(p)

LEMMA RealThreads ==
  ASSUME TypeInv, RealInv, [Next]_vars, NEW p \in Pollers
  PROVE  RealOK(p)'
  <1>. SUFFICES ASSUME pc'[p] = "record", txn'[p].cur.status = "delivered"
                PROVE  items'[Reference(p)'] > 0
    BY DEF RealOK
  <1>. ThreadsOK
    BY TypeInvParts
  <1>1. CASE SameThread(p)
    <2>1. pc[p] = "record" /\ txn[p].cur.status = "delivered" /\ Reference(p)' = Reference(p)
      BY <1>1 DEF SameThread, Reference
    <2>2. items[Reference(p)] > 0 /\ Reference(p) \in Queues \X Subs
      BY <2>1, Places, HandTypes DEF RealInv, RealOK
    <2>3. QED
      BY <2>1, <2>2, ItemsGrow
  <1>2. CASE ThreadStep(p)
    <2>1. CASE pc[p] # "record"
      <3>1. Reference(p)' = Reference(p)
        BY <1>2, <2>1, VerdictReached DEF Reference
      <3>2. QED
        BY <1>2, <2>1, <3>1, VerdictReached
    <2>2. CASE pc[p] = "record"
      <3>1. SameThread(p)
        BY <1>2, <2>2 DEF ThreadStep, PollStep, LoadActive, ListGroup, EndCycle, NextJob,
          EndGroup, LeaveJob, Lookup, EndPass, MarkPolled, Create, Fetch, ResolveQueueId,
          AlreadyDelivered, Post, Record, EndLoop, Boot, DatabaseFault, Stop, Crash, Start,
          AbandonCycle, GoTo, ThreadsOK, SameThread
      <3>2. QED
        BY <1>1, <3>1
    <2>3. QED
      BY <2>1, <2>2
  <1>3. SameThread(p) \/ ThreadStep(p)
    BY OneThread DEF SameThread
  <1>4. QED
    BY <1>1, <1>2, <1>3

LEMMA WriteBackColumns ==
  ASSUME NEW db, NEW old, NEW new
  PROVE  WriteBack(db, old, new).deliveredAt = (db.deliveredAt \/ new.status = "delivered")
  BY Zenon DEF WriteBack

LEMMA RealRows ==
  ASSUME TypeInv, WorkInv, RealInv, [Next]_vars, NEW k \in Keys
  PROVE  /\ rows'[k].status = "delivered" => rows'[k].deliveredAt
         /\ rows'[k].deliveredAt => \E q \in Queues : items'[<<q, k[2]>>] > 0
  <1>. TablesOK /\ ThreadsOK
    BY TypeInvParts
  <1>1. (\E q \in Queues : items[<<q, k[2]>>] > 0) => \E q \in Queues : items'[<<q, k[2]>>] > 0
    <2>1. SUFFICES ASSUME NEW q \in Queues, items[<<q, k[2]>>] > 0 PROVE items'[<<q, k[2]>>] > 0
      OBVIOUS
    <2>2. <<q, k[2]>> \in Queues \X Subs
      BY DEF Keys
    <2>3. QED
      BY <2>1, <2>2, ItemsGrow
  <1>2. /\ rows[k].status = "delivered" => rows[k].deliveredAt
        /\ rows[k].deliveredAt => \E q \in Queues : items'[<<q, k[2]>>] > 0
    BY <1>1 DEF RealInv, DeliveredIsReal
  <1>3. CASE rows'[k] = rows[k]
    BY <1>2, <1>3
  <1>4. CASE rows'[k] = NoRow
    BY <1>4 DEF NoRow
  <1>5. ASSUME NEW known \in BOOLEAN, rows[k] \in Row, rows'[k] = BackfillSerial(rows[k], known)
        PROVE  rows'[k].status = rows[k].status /\ rows'[k].deliveredAt = rows[k].deliveredAt
    BY <1>5 DEF BackfillSerial, Row
  <1>6. ASSUME NEW p \in Pollers, pc[p] = "record", k = Key(p), txn[p].cur \in Row
        PROVE  /\ txn[p].cur.status \in Verdicts /\ txn[p].old.status \notin TerminalStates
               /\ txn[p].cur.status = "delivered" => txn[p].cur.deliveredAt
               /\ txn[p].cur.deliveredAt => txn[p].cur.status = "delivered" \/ txn[p].old.deliveredAt
               /\ txn[p].cur.status = "delivered" => \E q \in Queues : items'[<<q, k[2]>>] > 0
    <2>1. /\ txn[p].cur.status \in Verdicts /\ txn[p].old.status \notin TerminalStates
          /\ txn[p].cur.status = "delivered" => txn[p].cur.deliveredAt
          /\ txn[p].cur.deliveredAt => txn[p].cur.status = "delivered" \/ txn[p].old.deliveredAt
      BY <1>6, Places DEF WorkInv, WorkOK
    <2>2. Reference(p) \in Queues \X Subs /\ k[2] = txn[p].sub
      BY <1>6, Places, HandTypes DEF Key
    <2>3. txn[p].cur.status = "delivered" => items[<<plan[p].job.dest, k[2]>>] > 0
      BY <1>6, <2>2 DEF RealInv, RealOK, Reference
    <2>4. plan[p].job.dest \in Queues
      BY <1>6, Places DEF ThreadsOK, InHand
    <2>5. QED
      BY <1>1, <2>1, <2>3, <2>4
  <1>7. ASSUME NEW p \in Pollers, pc[p] = "record", k = Key(p), txn[p].cur \in Row,
               txn[p].old = NoRow, rows'[k] = txn[p].cur
        PROVE  /\ rows'[k].status = "delivered" => rows'[k].deliveredAt
               /\ rows'[k].deliveredAt => \E q \in Queues : items'[<<q, k[2]>>] > 0
    BY <1>6, <1>7 DEF NoRow
  <1>8. ASSUME NEW p \in Pollers, pc[p] = "record", k = Key(p), txn[p].cur \in Row,
               rows'[k] = WriteBack(rows[k], txn[p].old, txn[p].cur)
        PROVE  /\ rows'[k].status = "delivered" => rows'[k].deliveredAt
               /\ rows'[k].deliveredAt => \E q \in Queues : items'[<<q, k[2]>>] > 0
    <2>1. rows'[k].deliveredAt = (rows[k].deliveredAt \/ txn[p].cur.status = "delivered")
      BY <1>8, WriteBackColumns
    <2>. rows'[k].status = Column(rows[k].status, txn[p].old.status, txn[p].cur.status)
      BY <1>8 DEF WriteBack
    <2>2. rows'[k].status = "delivered" =>
            rows[k].status = "delivered" \/ txn[p].cur.status = "delivered"
      BY <2>1 DEF Column
    <2>3. txn[p].cur.status = "delivered" => \E q \in Queues : items'[<<q, k[2]>>] > 0
      BY <1>6, <1>8
    <2>4. QED
      BY <1>2, <2>1, <2>2, <2>3
  <1>9. ASSUME NEW r \in Requests, request[r] \in Retry, rows[k] \in Row,
               rows'[k] = WriteBack(rows[k], request[r].old, ResetForRetry(request[r].old))
        PROVE  /\ rows'[k].status = "delivered" => rows'[k].deliveredAt
               /\ rows'[k].deliveredAt => \E q \in Queues : items'[<<q, k[2]>>] > 0
    <2>1. ResetForRetry(request[r].old).status = "new"
      BY <1>9 DEF ResetForRetry, Retry, Row
    <2>2. rows'[k].deliveredAt = rows[k].deliveredAt
      <3>1. rows'[k].deliveredAt = (rows[k].deliveredAt \/ ResetForRetry(request[r].old).status = "delivered")
        BY <1>9, WriteBackColumns
      <3>2. rows[k].deliveredAt \in BOOLEAN
        BY <1>9 DEF Row
      <3>3. QED
        BY <2>1, <3>1, <3>2
    <2>. rows'[k].status \in {rows[k].status, "new"}
      BY <1>9, <2>1 DEF WriteBack, Column
    <2>3. QED
      BY <1>2, <2>2
  <1>10. QED
    BY <1>2, <1>3, <1>4, <1>5, <1>7, <1>8, <1>9, RowValues

\* A row that says delivered, or ever said so, stands for an item that was
\* really added, with any number of threads, requests and lost replies.
THEOREM DeliveredRowsAreReal == Spec => []DeliveredIsReal
  <1>1. Init => RealInv
    BY DEF Init, RealInv, RealOK, DeliveredIsReal, NoRow
  <1>2. TypeInv /\ WorkInv /\ RealInv /\ [Next]_vars => RealInv'
    BY RealThreads, RealRows DEF RealInv, DeliveredIsReal
  <1>3. RealInv => DeliveredIsReal
    BY DEF RealInv
  <1>4. QED
    BY <1>1, <1>2, <1>3, TypeInvariant, WorkInvariant, PTL DEF Spec

-------------------------------------------------------------------------------
(* One item per reference. Between the guard's answer and the add, nobody  *)
(* else may add: hence one poll thread, a guard that sees, and adds that   *)
(* are answered.                                                           *)

SinglePoller == \A p, q \in Pollers : p = q

OneItemInv ==
  /\ AtMostOneItem
  /\ \A p \in Pollers : pc[p] = "post" => items[Reference(p)] = 0

LEMMA OneItemPost ==
  ASSUME Quirks = {}, TypeInv, OneItemInv, NEW p \in Pollers, Post(p)
  PROVE  /\ AtMostOneItem'
         /\ pc'[p] = "post" => items' = items /\ Reference(p)' = Reference(p)
  <1>. TablesOK /\ ThreadsOK
    BY TypeInvParts
  <1>1. /\ pc[p] = "post" /\ Reference(p) \in Queues \X Subs /\ txn[p] \in Txn
        /\ items \in [Queues \X Subs -> Nat] /\ items[Reference(p)] = 0
    BY Places, HandTypes DEF Post, OneItemInv, TablesOK, ThreadsOK, InHand
  <1>2. UNCHANGED items \/ items' = [items EXCEPT ![Reference(p)] = @ + 1]
    BY DEF Post
  <1>3. AtMostOneItem'
    BY <1>1, <1>2 DEF AtMostOneItem, OneItemInv
  <1>4. ASSUME pc'[p] = "post" PROVE items' = items /\ Reference(p)' = Reference(p)
    <2>1. PICK reply \in Replies : Post(p)!2!(reply)
      BY DEF Post
    <2>2. pc \in [Pollers -> Locations]
      BY DEF ThreadsOK
    <2>3. /\ TriesAgain(p, reply) /\ UNCHANGED plan
          /\ txn' = [txn EXCEPT ![p] = [txn[p] EXCEPT !.tries = txn[p].tries + 1]]
      BY <1>4, <2>1, <2>2 DEF React, Settle, AbortJob, AbortGroup, GoTo
    <2>4. AddEffects(reply) = {FALSE}
      BY <2>3 DEF TriesAgain, AddEffects, Transient
    <2>5. items' = items
      BY <2>1, <2>4
    <2>6. txn'[p] = [txn[p] EXCEPT !.tries = txn[p].tries + 1]
      BY <2>3 DEF ThreadsOK
    <2>7. txn'[p].sub = txn[p].sub
      BY <1>1, <2>6 DEF Txn
    <2>8. QED
      BY <2>3, <2>5, <2>7 DEF Reference
  <1>5. QED
    BY <1>3, <1>4

LEMMA OneItemStep ==
  ASSUME SinglePoller, Quirks = {}, TypeInv, OneItemInv, [Next]_vars
  PROVE  OneItemInv'
  <1>. TablesOK /\ ThreadsOK
    BY TypeInvParts
  <1>1. ASSUME NEW p \in Pollers, Post(p) PROVE OneItemInv'
    <2>1. ASSUME NEW q \in Pollers, pc'[q] = "post" PROVE items'[Reference(q)'] = 0
      <3>1. q = p
        BY DEF SinglePoller
      <3>2. items' = items /\ Reference(q)' = Reference(q) /\ pc[q] = "post"
        BY <1>1, <2>1, <3>1, OneItemPost DEF Post
      <3>3. QED
        BY <3>2 DEF OneItemInv
    <2>2. QED
      BY <1>1, <2>1, OneItemPost DEF OneItemInv
  <1>2. CASE UNCHANGED <<pc, plan, txn, items>>
    BY <1>2 DEF OneItemInv, AtMostOneItem, Reference
  <1>3. ASSUME NEW p \in Pollers, ThreadStep(p), UNCHANGED items,
               pc'[p] = "post" => /\ items[Reference(p)] = 0
                                  /\ Reference(p)' = Reference(p)
        PROVE  OneItemInv'
    BY <1>3 DEF OneItemInv, AtMostOneItem, SinglePoller
  <1>4. ASSUME NEW p \in Pollers, AlreadyDelivered(p) PROVE OneItemInv'
    <2>1. pc[p] \in InTxn /\ Reference(p) \in Queues \X Subs /\ pc \in [Pollers -> Locations]
      BY <1>4, Places, HandTypes DEF AlreadyDelivered, ThreadsOK
    <2>2. ASSUME pc'[p] = "post"
          PROVE  items[Reference(p)] = 0 /\ UNCHANGED <<plan, txn>>
      <3>1. ~ItemThere(p) /\ UNCHANGED <<plan, txn>>
        BY <1>4, <2>1, <2>2
        DEF AlreadyDelivered, React, Settle, AbortJob, AbortGroup, GoTo,
            LookupReference, Request, NoError, Transient
      <3>2. items[Reference(p)] \in Nat
        BY <2>1 DEF TablesOK
      <3>3. QED
        BY <3>1, <3>2 DEF ItemThere
    <2>3. UNCHANGED items /\ ThreadStep(p)
      BY <1>4 DEF AlreadyDelivered, ThreadStep, PollStep
    <2>4. QED
      BY <1>3, <2>2, <2>3 DEF Reference
  <1>5. ASSUME NEW p \in Pollers, ThreadStep(p), ~Post(p), ~AlreadyDelivered(p)
        PROVE  /\ UNCHANGED items
               /\ pc'[p] = "post" => pc[p] = "post" /\ UNCHANGED <<plan, txn>>
    <2>. pc \in [Pollers -> Locations]
      BY DEF ThreadsOK
    <2>1. UNCHANGED items
      BY <1>5
      DEF ThreadStep, PollStep, LoadActive, ListGroup, EndCycle, NextJob, EndGroup, LeaveJob,
          Lookup, EndPass, MarkPolled, Create, Fetch, ResolveQueueId, Record, EndLoop, Boot,
          DatabaseFault, Stop, Crash, Start
    <2>2. CASE Fetch(p) \/ ResolveQueueId(p)
      BY <2>1, <2>2 DEF Fetch, ResolveQueueId, React, Settle, AbortJob, AbortGroup, GoTo
    <2>3. CASE ~(Fetch(p) \/ ResolveQueueId(p))
      BY <1>5, <2>1, <2>3
      DEF ThreadStep, PollStep, LoadActive, ListGroup, EndCycle, NextJob, EndGroup, LeaveJob,
          Lookup, EndPass, MarkPolled, Create, Record, EndLoop, Boot, DatabaseFault, Stop, Crash,
          Start, AbortJob, AbortGroup, AbandonCycle, GoTo
    <2>4. QED
      BY <2>2, <2>3
  <1>6. ASSUME NEW p \in Pollers, ThreadStep(p) PROVE OneItemInv'
    <2>1. CASE ~Post(p) /\ ~AlreadyDelivered(p)
      <3>1. UNCHANGED items /\ (pc'[p] = "post" => pc[p] = "post" /\ UNCHANGED <<plan, txn>>)
        BY <1>5, <1>6, <2>1
      <3>2. pc'[p] = "post" => items[Reference(p)] = 0 /\ Reference(p)' = Reference(p)
        BY <3>1 DEF OneItemInv, Reference
      <3>3. QED
        BY <1>3, <1>6, <3>1, <3>2
    <2>2. QED
      BY <1>1, <1>4, <2>1
  <1>7. QED
    BY <1>2, <1>6
    DEF Next, vars, ThreadStep, Arrive, Purge, CreateJob, UpdateJob, DeleteJob,
        RetryLoad, RetryCommit, RetryFail

\* With one poll thread, a guard that sees and no lost reply, no submission is
\* put on a queue twice, whatever else fails, crashes or is retried.
THEOREM OneItemPerReference ==
  ASSUME SinglePoller, Quirks = {}
  PROVE  Spec => []AtMostOneItem
  <1>1. Init => OneItemInv
    BY DEF Init, OneItemInv, AtMostOneItem
  <1>2. TypeInv /\ OneItemInv /\ [Next]_vars => OneItemInv'
    BY OneItemStep
  <1>3. OneItemInv => AtMostOneItem
    BY DEF OneItemInv
  <1>4. QED
    BY <1>1, <1>2, <1>3, TypeInvariant, PTL DEF Spec

-------------------------------------------------------------------------------
(* The key an uncommitted insert holds: no row is there, and nobody else   *)
(* inserts one.                                                            *)

LockInv ==
  \A p \in Pollers :
    Inserting(p) =>
      /\ rows[Key(p)] = NoRow
      /\ \A q \in Pollers \ {p} : Inserting(q) => Key(q) # Key(p)

\* A thread that holds a row held it before, has just inserted it, or has just
\* read it.
LEMMA HoldBegins ==
  ASSUME TypeInv, NEW p \in Pollers, ThreadStep(p), pc'[p] \in Holding
  PROVE  \/ /\ pc[p] \in Holding /\ Key(p)' = Key(p)
            /\ txn'[p].sub = txn[p].sub /\ txn'[p].old = txn[p].old
            /\ plan'[p].job = plan[p].job
            /\ plan'[p].rest = plan[p].rest /\ plan'[p].listed = plan[p].listed
         \/ /\ Create(p) /\ UNCHANGED <<plan, txn, rows>> /\ rows[Key(p)] = NoRow
            /\ \A q \in Pollers : ~(Inserting(q) /\ Key(q) = Key(p))
         \/ /\ Lookup(p) /\ UNCHANGED rows
            /\ txn'[p].old # NoRow /\ rows[Key(p)'] = txn'[p].old
  <1>. TablesOK /\ ThreadsOK
    BY TypeInvParts
  <1>1. /\ pc \in [Pollers -> Locations] /\ plan \in [Pollers -> Plan]
        /\ txn \in [Pollers -> Txn \cup {None}]
        /\ pc[p] \in InTxn => txn[p] \in Txn
    BY DEF ThreadsOK, InHand
  <1>2. CASE Create(p)
    BY <1>1, <1>2, Places DEF Create, AbandonCycle, GoTo, Holding
  <1>3. CASE Fetch(p) \/ ResolveQueueId(p) \/ AlreadyDelivered(p) \/ Post(p)
    <2>. DEFINE Kept == /\ plan'[p].job = plan[p].job
                        /\ plan'[p].rest = plan[p].rest /\ plan'[p].listed = plan[p].listed
                        /\ txn'[p].sub = txn[p].sub /\ txn'[p].old = txn[p].old
    <2>1. pc[p] \in Holding /\ txn[p] \in Txn
      BY <1>1, <1>3, Places DEF Fetch, ResolveQueueId, AlreadyDelivered, Post
    <2>2. ASSUME NEW row, Settle(p, row) PROVE Kept
      <3>1. plan' = plan /\ txn' = [txn EXCEPT ![p] = [txn[p] EXCEPT !.cur = row]]
        BY <2>2 DEF Settle
      <3>2. txn'[p] = [txn[p] EXCEPT !.cur = row]
        BY <1>1, <3>1
      <3>3. QED
        BY <2>1, <3>1, <3>2 DEF Txn
    <2>3. ASSUME NEW error, React(p, error) PROVE Kept
      <3>1. PICK row : Settle(p, row)
        BY <1>1, <2>3 DEF React, AbortJob, AbortGroup, GoTo, Holding
      <3>2. QED
        BY <2>2, <3>1
    <2>4. ASSUME plan' = [plan EXCEPT ![p].queueKnown = TRUE], UNCHANGED txn PROVE Kept
      <3>1. plan'[p] = [plan[p] EXCEPT !.queueKnown = TRUE] /\ plan[p] \in Plan
        BY <1>1, <2>4
      <3>2. QED
        BY <2>4, <3>1 DEF Plan
    <2>5. ASSUME txn' = [txn EXCEPT ![p].tries = @ + 1], UNCHANGED plan PROVE Kept
      <3>1. txn'[p] = [txn[p] EXCEPT !.tries = txn[p].tries + 1]
        BY <1>1, <2>5
      <3>2. QED
        BY <2>1, <2>5, <3>1 DEF Txn
    <2>6. ASSUME UNCHANGED <<plan, txn>> PROVE Kept
      BY <2>6
    <2>7. Kept
      <3>. HIDE DEF Kept
      <3>1. QED
        BY <1>3, <2>2, <2>3, <2>4, <2>5, <2>6 DEF Fetch, ResolveQueueId, AlreadyDelivered, Post
    <2>8. QED
      BY <2>1, <2>7 DEF Key
  <1>4. CASE Stop(p)
    BY <1>4 DEF Stop, Key
  <1>5. CASE Lookup(p)
    <2>1. pc[p] = "refs" /\ plan[p] \in Plan
      BY <1>1, <1>5 DEF Lookup
    <2>2. PICK u \in plan[p].rest : Lookup(p)!2!(u)
      BY <1>5 DEF Lookup
    <2>. DEFINE row == rows[<<plan[p].job.id, u>>]
                tx  == [sub |-> u, old |-> row,
                        cur |-> BackfillSerial(row, plan[p].known), tries |-> 0]
    <2>3. /\ row # NoRow /\ UNCHANGED rows /\ txn' = [txn EXCEPT ![p] = tx]
          /\ plan' = [plan EXCEPT ![p] = [plan[p] EXCEPT !.rest = plan[p].rest \ {u}]]
      BY <1>1, <2>1, <2>2 DEF GoTo, Holding
    <2>4. txn'[p].sub = u /\ txn'[p].old = row
      BY <1>1, <2>3
    <2>5. plan'[p].job = plan[p].job
      BY <1>1, <2>1, <2>3 DEF Plan
    <2>6. QED
      BY <1>5, <2>3, <2>4, <2>5 DEF Key
  <1>6. CASE \/ LoadActive(p) \/ ListGroup(p) \/ EndCycle(p) \/ NextJob(p) \/ EndGroup(p)
             \/ LeaveJob(p) \/ EndPass(p) \/ MarkPolled(p) \/ Record(p) \/ EndLoop(p) \/ Boot(p)
             \/ DatabaseFault(p) \/ Crash(p) \/ Start(p)
    <2>1. pc'[p] \notin Holding
      BY <1>1, <1>6
      DEF LoadActive, ListGroup, EndCycle, NextJob, EndGroup, LeaveJob, EndPass, MarkPolled,
          Record, EndLoop, Boot, DatabaseFault, Crash, Start, AbortJob, AbortGroup, AbandonCycle,
          GoTo, Holding
    <2>2. QED
      BY <2>1
  <1>7. QED
    BY <1>2, <1>3, <1>4, <1>5, <1>6 DEF ThreadStep, PollStep

LEMMA InsertBegins ==
  ASSUME TypeInv, NEW p \in Pollers, ThreadStep(p), Inserting(p)'
  PROVE  /\ Key(p)' = Key(p)
         /\ \/ Inserting(p)
            \/ /\ UNCHANGED rows /\ rows[Key(p)] = NoRow
               /\ \A q \in Pollers : Inserting(q) => Key(q) # Key(p)
  <1>1. pc'[p] \in Holding /\ txn'[p].old = NoRow
    BY DEF Inserting
  <1>2. UNCHANGED <<plan, txn>> => Key(p)' = Key(p)
    BY DEF Key
  <1>3. QED
    BY <1>1, <1>2, HoldBegins DEF Inserting

LEMMA LockStep ==
  ASSUME TypeInv, LockInv, [Next]_vars PROVE LockInv'
  <1>1. ASSUME NEW p \in Pollers, SameThread(p)
        PROVE  Key(p)' = Key(p) /\ (Inserting(p)' <=> Inserting(p))
    BY <1>1 DEF SameThread, Key, Inserting
  \* Rows come only from the thread that inserts them, and it moves on.
  <1>2. ASSUME NEW k \in Keys, rows[k] = NoRow, rows'[k] # NoRow
        PROVE  \E p \in Pollers : Inserting(p) /\ Key(p) = k /\ ~Inserting(p)'
    <2>1. rows[k] \notin Row
      BY <1>2, NoRowIsNotARow
    <2>2. PICK p \in Pollers :
            pc[p] = "record" /\ k = Key(p) /\ txn[p].old = NoRow /\ pc'[p] \notin Holding
      BY <1>2, <2>1, RowValues
    <2>3. QED
      BY <2>2, Places DEF Inserting
  <1>3. ASSUME NEW p \in Pollers, Inserting(p)'
        PROVE  /\ Key(p)' = Key(p)
               /\ \/ Inserting(p)
                  \/ /\ UNCHANGED rows /\ rows[Key(p)] = NoRow
                     /\ \A q \in Pollers : Inserting(q) => Key(q) # Key(p)
    <2>1. SameThread(p) \/ ThreadStep(p)
      BY OneThread DEF SameThread
    <2>2. QED
      BY <1>1, <1>3, <2>1, InsertBegins
  <1>4. ASSUME NEW p \in Pollers, Inserting(p)' PROVE rows'[Key(p)'] = NoRow
    <2>1. CASE Inserting(p)
      <3>1. rows[Key(p)] = NoRow /\ Key(p) \in Keys
        BY <2>1, TypeInvParts, Places, HandTypes DEF LockInv, Inserting
      <3>2. \A q \in Pollers : Inserting(q) /\ Key(q) = Key(p) => q = p
        BY <2>1 DEF LockInv
      <3>3. rows'[Key(p)] = NoRow
        BY <1>2, <1>4, <3>1, <3>2
      <3>4. QED
        BY <1>3, <1>4, <3>3
    <2>2. CASE ~Inserting(p)
      BY <1>3, <1>4, <2>2
    <2>3. QED
      BY <2>1, <2>2
  <1>5. ASSUME NEW p \in Pollers, Inserting(p)', NEW q \in Pollers \ {p}, Inserting(q)'
        PROVE  Key(q)' # Key(p)'
    <2>1. Key(p)' = Key(p) /\ Key(q)' = Key(q)
      BY <1>3, <1>5
    <2>2. CASE Inserting(p) /\ Inserting(q)
      BY <2>1, <2>2 DEF LockInv
    <2>3. CASE ~Inserting(p) /\ Inserting(q)
      BY <1>3, <1>5, <2>1, <2>3
    <2>4. CASE Inserting(p) /\ ~Inserting(q)
      BY <1>3, <1>5, <2>1, <2>4
    <2>5. Inserting(p) \/ Inserting(q)
      <3>1. SameThread(p) \/ SameThread(q)
        BY <1>5, OneThread DEF SameThread
      <3>2. QED
        BY <1>1, <1>5, <3>1
    <2>6. QED
      BY <2>2, <2>3, <2>4, <2>5
  <1>6. QED
    BY <1>4, <1>5 DEF LockInv

LEMMA LockInvariant == Spec => []LockInv
  <1>1. Init => LockInv
    BY DEF Init, LockInv, Inserting, Holding
  <1>2. TypeInv /\ LockInv /\ [Next]_vars => LockInv'
    BY LockStep
  <1>3. QED
    BY <1>1, <1>2, TypeInvariant, PTL DEF Spec

\* A serial once on record stays, whoever writes the row and from how old a copy.
THEOREM SerialsAreKept == Spec => SerialIsKept
  <1>1. ASSUME TypeInv, WorkInv, LockInv, [Next]_vars, NEW k \in Keys, rows[k].serial
        PROVE  rows'[k] = NoRow \/ rows'[k].serial
    <2>1. CASE rows'[k] = rows[k] \/ rows'[k] = NoRow
      BY <1>1, <2>1
    <2>2. ASSUME NEW known \in BOOLEAN, rows[k] \in Row, rows'[k] = BackfillSerial(rows[k], known)
          PROVE  rows'[k].serial
      BY <1>1, <2>2 DEF BackfillSerial, Row
    <2>3. ASSUME NEW p \in Pollers, pc[p] = "record", k = Key(p), txn[p].old = NoRow
          PROVE  FALSE
      <3>1. rows[k] = NoRow
        BY <1>1, <2>3, Places DEF Inserting, LockInv
      <3>2. QED
        BY <1>1, <3>1 DEF NoRow
    <2>4. ASSUME NEW p \in Pollers, pc[p] = "record", txn[p].cur \in Row, txn[p].old \in Row,
                 rows'[k] = WriteBack(rows[k], txn[p].old, txn[p].cur)
          PROVE  rows'[k].serial
      <3>1. txn[p].old.serial => txn[p].cur.serial
        BY <1>1, <2>4, Places DEF WorkInv, WorkOK
      <3>2. rows'[k].serial = Column(rows[k].serial, txn[p].old.serial, txn[p].cur.serial)
        BY <2>4 DEF WriteBack
      <3>3. txn[p].cur.serial \in BOOLEAN /\ txn[p].old.serial \in BOOLEAN
        BY <2>4 DEF Row
      <3>4. QED
        BY <1>1, <3>1, <3>2, <3>3 DEF Column
    <2>5. ASSUME NEW r \in Requests, request[r] \in Retry,
                 rows'[k] = WriteBack(rows[k], request[r].old, ResetForRetry(request[r].old))
          PROVE  rows'[k].serial
      <3>1. ResetForRetry(request[r].old).serial = request[r].old.serial
        BY <2>5 DEF ResetForRetry, Retry, Row
      <3>2. rows'[k].serial = rows[k].serial
        BY <2>5, <3>1 DEF WriteBack, Column
      <3>3. QED
        BY <1>1, <3>2
    <2>6. QED
      BY <1>1, <2>1, <2>2, <2>3, <2>4, <2>5, RowValues
  <1>2. TypeInv /\ WorkInv /\ LockInv /\ [Next]_vars =>
          [\A k \in Keys : rows[k].serial => rows'[k] = NoRow \/ rows'[k].serial]_vars
    BY <1>1
  <1>3. QED
    BY <1>2, TypeInvariant, WorkInvariant, LockInvariant, PTL DEF Spec, SerialIsKept

-------------------------------------------------------------------------------
(* Terminal states. With one poll thread, only a reset or a deletion comes *)
(* between the read of a row and the commit of what the thread made of it. *)

HeldInv ==
  \A p \in Pollers :
    pc[p] \in Holding /\ txn[p].old # NoRow =>
      rows[Key(p)].status \in {txn[p].old.status, "new", "none"}

LEMMA ResetValues ==
  ASSUME NEW db, NEW r \in Requests, request[r] \in Retry
  PROVE  WriteBack(db, request[r].old, ResetForRetry(request[r].old)).status \in {db.status, "new"}
  <1>1. ResetForRetry(request[r].old).status = "new"
    BY DEF ResetForRetry, Retry, Row
  <1>2. QED
    BY <1>1 DEF WriteBack, Column

LEMMA HeldStep ==
  ASSUME SinglePoller, TypeInv, WorkInv, HeldInv, [Next]_vars PROVE HeldInv'
  <1>. SUFFICES ASSUME NEW p \in Pollers, pc'[p] \in Holding, txn'[p].old # NoRow
                PROVE  rows'[Key(p)'].status \in {txn'[p].old.status, "new", "none"}
    BY DEF HeldInv
  <1>. TablesOK /\ ThreadsOK
    BY TypeInvParts
  <1>1. CASE pc[p] \in Holding /\ Key(p)' = Key(p) /\ txn'[p].old = txn[p].old
    <2>. DEFINE k == Key(p)
    <2>1. /\ rows[k].status \in {txn[p].old.status, "new", "none"} /\ k \in Keys
          /\ txn[p].old.status \notin TerminalStates
      BY <1>1, Places, HandTypes DEF HeldInv, WorkInv, WorkOK
    <2>2. rows[k].status \notin TerminalStates
      BY <2>1 DEF TerminalStates
    <2>3. rows'[k].status \in {rows[k].status, "new", "none"}
      <3>. HIDE DEF k
      <3>1. ASSUME NEW q \in Pollers PROVE pc'[q] \in Holding
        BY DEF SinglePoller
      <3>2. CASE rows'[k] = rows[k] \/ rows'[k] = NoRow
        BY <3>2 DEF NoRow
      <3>3. ASSUME NEW r \in Requests, request[r] \in Retry,
                   rows'[k] = WriteBack(rows[k], request[r].old, ResetForRetry(request[r].old))
            PROVE  rows'[k].status \in {rows[k].status, "new", "none"}
        BY <3>3, ResetValues
      <3>4. QED
        BY <2>1, <2>2, <3>1, <3>2, <3>3, RowValues
    <2>4. QED
      BY <1>1, <2>1, <2>3
  <1>2. CASE Create(p) /\ UNCHANGED <<plan, txn, rows>> /\ rows[Key(p)] = NoRow
    BY <1>2 DEF Key, NoRow
  <1>3. CASE UNCHANGED rows /\ rows[Key(p)'] = txn'[p].old
    BY <1>3
  <1>4. SameThread(p) \/ ThreadStep(p)
    BY OneThread DEF SameThread
  <1>5. CASE SameThread(p)
    BY <1>1, <1>5 DEF SameThread, Key
  <1>6. QED
    BY <1>1, <1>2, <1>3, <1>4, <1>5, HoldBegins

\* With one poll thread a delivered or dead-lettered row changes its status
\* only by a reset, or goes with its job.
THEOREM TerminalStatesAreFinal ==
  ASSUME SinglePoller
  PROVE  Spec => TerminalIsFinal
  <1>1. Init => HeldInv
    BY DEF Init, HeldInv, Holding
  <1>2. TypeInv /\ WorkInv /\ HeldInv /\ [Next]_vars => HeldInv'
    BY HeldStep
  <1>3. ASSUME TypeInv, WorkInv, LockInv, HeldInv, [Next]_vars, NEW k \in Keys,
               rows[k].status \in {"delivered", "dead_letter"}
        PROVE  rows'[k].status \in {rows[k].status, "new", "none"}
    <2>1. CASE rows'[k] = rows[k] \/ rows'[k] = NoRow
      BY <2>1 DEF NoRow
    <2>2. ASSUME NEW known \in BOOLEAN, rows[k] \in Row, rows'[k] = BackfillSerial(rows[k], known)
          PROVE  rows'[k].status = rows[k].status
      BY <2>2 DEF BackfillSerial, Row
    <2>3. ASSUME NEW p \in Pollers, pc[p] = "record", k = Key(p) PROVE FALSE
      <3>1. txn[p].old.status \notin TerminalStates /\ pc[p] \in Holding
        BY <1>3, <2>3, Places DEF WorkInv, WorkOK
      <3>2. CASE txn[p].old = NoRow
        BY <1>3, <2>3, <3>1, <3>2 DEF LockInv, Inserting, NoRow
      <3>3. CASE txn[p].old # NoRow
        BY <1>3, <2>3, <3>1, <3>3 DEF HeldInv, TerminalStates
      <3>4. QED
        BY <3>2, <3>3
    <2>4. ASSUME NEW r \in Requests, request[r] \in Retry,
                 rows'[k] = WriteBack(rows[k], request[r].old, ResetForRetry(request[r].old))
          PROVE  rows'[k].status \in {rows[k].status, "new"}
      BY <2>4, ResetValues
    <2>5. QED
      BY <1>3, <2>1, <2>2, <2>3, <2>4, RowValues
  <1>4. TypeInv /\ WorkInv /\ LockInv /\ HeldInv /\ [Next]_vars =>
          [\A k \in Keys :
             rows[k].status \in {"delivered", "dead_letter"} =>
               rows'[k].status \in {rows[k].status, "new", "none"}]_vars
    BY <1>3
  <1>5. QED
    BY <1>1, <1>2, <1>4, TypeInvariant, WorkInvariant, LockInvariant, PTL
    DEF Spec, TerminalIsFinal

-------------------------------------------------------------------------------
(* A stamp attests a full pass. During a pass, every submission listed is  *)
(* still to come, in hand, or on record, unless the job has been deleted;  *)
(* and a deleted job never comes back, its id being spent.                 *)

Accounted(p, u) ==
  \/ u \in plan[p].rest
  \/ pc[p] \in InTxn /\ txn[p].sub = u
  \/ rows[<<plan[p].job.id, u>>] # NoRow

Begun(j) == jobs[j].state # "unborn"

PassOK(p) ==
  /\ \A s \in plan[p].todo \cup plan[p].group : Begun(s.id)
  /\ pc[p] \in InJob => Begun(plan[p].job.id)
  /\ pc[p] \in InJob /\ jobs[plan[p].job.id].state = "live" =>
       \A u \in plan[p].listed : Accounted(p, u)
  /\ pc[p] = "mark" => plan[p].rest = {}

PassInv == StampAttestsRows /\ \A p \in Pollers : PassOK(p)

LEMMA JobsLive ==
  ASSUME TypeInv, [Next]_vars, NEW j \in JobIds, Begun(j)
  PROVE  Begun(j)' /\ (jobs'[j].state = "live" => jobs[j].state = "live")
  <1>. TablesOK
    BY TypeInvParts
  <1>1. jobs \in [JobIds -> Job] /\ \A i \in JobIds : jobs[i] \in Job
    BY DEF TablesOK
  <1>2. ASSUME NEW i \in JobIds, CreateJob(i) \/ UpdateJob(i)
        PROVE  Begun(j)' /\ (jobs'[j].state = "live" => jobs[j].state = "live")
    BY <1>1, <1>2 DEF CreateJob, UpdateJob, Begun
  <1>3. ASSUME NEW i \in JobIds, DeleteJob(i)
        PROVE  Begun(j)' /\ (jobs'[j].state = "live" => jobs[j].state = "live")
    <2>1. jobs' = [jobs EXCEPT ![i] = [jobs[i] EXCEPT !.state = "gone"]]
      BY <1>3 DEF DeleteJob
    <2>2. [jobs[i] EXCEPT !.state = "gone"].state = "gone"
      BY <1>1 DEF Job
    <2>3. QED
      BY <1>1, <2>1, <2>2 DEF Begun
  <1>4. CASE UNCHANGED jobs
    BY <1>4 DEF Begun
  <1>5. QED
    BY <1>2, <1>3, <1>4
    DEF Next, PollStep, vars, LoadActive, ListGroup, EndCycle, NextJob, EndGroup, LeaveJob,
        Lookup, EndPass, MarkPolled, Create, Fetch, ResolveQueueId, AlreadyDelivered, Post,
        Record, EndLoop, Boot, DatabaseFault, Stop, Crash, Start, Arrive, Purge,
        RetryLoad, RetryCommit, RetryFail

\* A row goes only with its job.
LEMMA RowsStay ==
  ASSUME TypeInv, [Next]_vars, NEW k \in Keys, rows[k] # NoRow, rows'[k] = NoRow
  PROVE  DeleteJob(k[1]) /\ jobs'[k[1]].state = "gone" /\ stamp'[k[1]] = None
  <1>. TablesOK /\ ThreadsOK
    BY TypeInvParts
  <1>1. rows'[k] \notin Row
    BY NoRowIsNotARow
  <1>2. ASSUME NEW known \in BOOLEAN, rows[k] \in Row PROVE BackfillSerial(rows[k], known) \in Row
    BY <1>2, RowOpsType
  <1>3. ASSUME NEW old \in Row, NEW new \in Row, rows[k] \in Row
        PROVE  WriteBack(rows[k], old, new) \in Row
    BY <1>3, WriteBackType
  <1>4. ASSUME NEW r \in Requests, request[r] \in Retry
        PROVE  request[r].old \in Row /\ ResetForRetry(request[r].old) \in Row
    BY <1>4, RowOpsType DEF Retry
  <1>5. DeleteJob(k[1])
    BY <1>1, <1>2, <1>3, <1>4, RowValues
  <1>6. k[1] \in JobIds /\ jobs[k[1]] \in Job
    BY DEF Keys, TablesOK
  <1>7. jobs' = [jobs EXCEPT ![k[1]] = [jobs[k[1]] EXCEPT !.state = "gone"]]
    BY <1>5 DEF DeleteJob
  <1>8. [jobs[k[1]] EXCEPT !.state = "gone"].state = "gone"
    BY <1>6 DEF Job
  <1>9. QED
    BY <1>5, <1>6, <1>7, <1>8 DEF DeleteJob, TablesOK

\* Where the jobs of a cycle come from.
LEMMA PlanSteps ==
  ASSUME TypeInv, NEW p \in Pollers, ThreadStep(p)
  PROVE  /\ plan'[p].todo \cup plan'[p].group
              \subseteq plan[p].todo \cup plan[p].group \cup ActiveJobs
         /\ pc'[p] \in InJob =>
              \/ plan'[p].job \in plan[p].group
              \/ pc[p] \in InJob /\ plan'[p].job = plan[p].job
  <1>1. CASE BeginsGroup(p) \/ BetweenJobs(p) \/ EndsGroup(p)
    BY <1>1, Places DEF BeginsGroup, BetweenJobs, EndsGroup, Working
  <1>2. CASE TakesJob(p) \/ WorksOn(p) \/ SameThread(p)
    BY <1>2 DEF TakesJob, WorksOn, SameThread
  <1>3. QED
    BY <1>1, <1>2, GroupMoves

\* What a thread's own step does to the account of its pass.
LEMMA PassOwnStep ==
  ASSUME TypeInv, [Next]_vars, NEW p \in Pollers, PassOK(p), ThreadStep(p), pc'[p] \in InJob,
         jobs'[plan'[p].job.id].state = "live", NEW u \in plan'[p].listed
  PROVE  Accounted(p, u)' /\ (pc'[p] = "mark" => plan'[p].rest = {})
  <1>. TablesOK /\ ThreadsOK
    BY TypeInvParts
  <1>1. /\ pc \in [Pollers -> Locations] /\ plan \in [Pollers -> Plan] /\ plan[p] \in Plan
        /\ plan'[p] \in Plan /\ txn \in [Pollers -> Txn \cup {None}]
        /\ rows \in [Keys -> RowOrNone]
        /\ pc[p] \in InJob => plan[p].job \in Snapshot
        /\ pc[p] \in InTxn => txn[p] \in Txn
    <2>1. ThreadsOK'
      BY TypeInvParts, NextType, PTL
    <2>2. QED
      BY <2>1 DEF TablesOK, ThreadsOK, InHand
  <1>. DEFINE k == <<plan[p].job.id, u>>
              SameJob == /\ pc[p] \in InJob
                         /\ plan'[p].job = plan[p].job /\ plan'[p].listed = plan[p].listed
  <1>2. ASSUME SameJob
        PROVE  /\ Accounted(p, u) /\ (pc[p] = "mark" => plan[p].rest = {})
               /\ rows[k] # NoRow => rows'[k] # NoRow
    <2>1. plan[p].job.id \in JobIds /\ k \in Keys
      BY <1>1, <1>2 DEF Snapshot, Keys, Plan
    <2>2. Begun(plan[p].job.id) /\ jobs[plan[p].job.id].state = "live"
      BY <1>2, <2>1, JobsLive DEF PassOK
    <2>3. ASSUME rows[k] # NoRow, rows'[k] = NoRow PROVE FALSE
      <3>1. jobs'[k[1]].state = "gone"
        BY <2>1, <2>3, RowsStay
      <3>2. QED
        BY <1>2, <3>1
    <2>4. QED
      BY <1>2, <2>2, <2>3 DEF PassOK
  <1>3. CASE NextJob(p)
    <2>1. PICK s \in plan[p].group : NextJob(p)!2!(s)
      BY <1>3 DEF NextJob
    <2>2. pc'[p] = "refs" /\ plan'[p] =
            [plan[p] EXCEPT !.group = plan[p].group \ {s}, !.job = s, !.rest = plan[p].listed]
      BY <1>1, <1>3, <2>1, Places DEF NextJob, GoTo
    <2>3. plan'[p].rest = plan[p].listed /\ plan'[p].listed = plan[p].listed
      BY <1>1, <2>2 DEF Plan
    <2>4. QED
      BY <2>2, <2>3 DEF Accounted
  <1>4. CASE Lookup(p)
    <2>1. PICK v \in plan[p].rest : Lookup(p)!2!(v)
      BY <1>4 DEF Lookup
    <2>2. plan'[p] = [plan[p] EXCEPT !.rest = plan[p].rest \ {v}] /\ pc[p] = "refs"
      BY <1>1, <1>4, <2>1 DEF Lookup
    <2>3. /\ plan'[p].rest = plan[p].rest \ {v} /\ plan'[p].listed = plan[p].listed
          /\ plan'[p].job = plan[p].job /\ SameJob
      BY <1>1, <2>2, Places DEF Plan
    <2>4. CASE u = v
      <3>1. k \in Keys
        BY <1>1, <2>2, Places DEF Snapshot, Keys, Plan
      <3>2. CASE rows[k].status \in TerminalStates /\ UNCHANGED pc
        <4>1. rows[k] # NoRow
          BY <3>2 DEF NoRow, TerminalStates
        <4>2. QED
          BY <1>2, <2>2, <2>3, <3>2, <4>1, Places DEF Accounted
      <3>3. ASSUME NEW tx, NEW place \in {"create", "fetch"},
                   txn' = [txn EXCEPT ![p] = tx], tx.sub = v, GoTo(p, place)
            PROVE  Accounted(p, u)' /\ (pc'[p] = "mark" => plan'[p].rest = {})
        BY <1>1, <2>4, <3>3, Places DEF Accounted, GoTo
      <3>4. CASE /\ txn' = [txn EXCEPT ![p] =
                      [sub |-> v, old |-> NoRow, cur |-> NewRow(plan[p].known), tries |-> 0]]
                 /\ GoTo(p, "create")
        <4>. DEFINE tx == [sub |-> v, old |-> NoRow, cur |-> NewRow(plan[p].known), tries |-> 0]
        <4>1. tx.sub = v /\ txn' = [txn EXCEPT ![p] = tx]
          BY <3>4
        <4>. HIDE DEF tx
        <4>2. QED
          BY <3>3, <3>4, <4>1
      <3>5. CASE /\ txn' = [txn EXCEPT ![p] =
                      [sub |-> v, old |-> rows[k], cur |-> BackfillSerial(rows[k], plan[p].known),
                       tries |-> 0]]
                 /\ GoTo(p, "fetch")
        <4>. DEFINE tx == [sub |-> v, old |-> rows[k],
                         cur |-> BackfillSerial(rows[k], plan[p].known), tries |-> 0]
        <4>1. tx.sub = v /\ txn' = [txn EXCEPT ![p] = tx]
          BY <3>5
        <4>. HIDE DEF tx
        <4>2. QED
          BY <3>3, <3>5, <4>1
      <3>6. QED
        BY <2>1, <2>4, <3>2, <3>4, <3>5
    <2>5. CASE u # v
      <3>1. u \in plan[p].rest \/ rows[k] # NoRow
        BY <1>2, <2>2, <2>3, Places DEF Accounted
      <3>2. pc'[p] # "mark"
        BY <1>1, <2>1, <2>2 DEF GoTo
      <3>3. QED
        BY <1>2, <2>3, <2>5, <3>1, <3>2 DEF Accounted
    <2>6. QED
      BY <2>4, <2>5
  <1>5. CASE Record(p)
    <2>1. /\ pc[p] = "record" /\ pc'[p] = "refs" /\ plan' = plan
          /\ txn[p].old = NoRow \/ rows[Key(p)] # NoRow
          /\ rows' = Committed(p)
      BY <1>1, <1>5, Places DEF Record, AbandonCycle, GoTo
    <2>2. SameJob
      BY <2>1, Places
    <2>3. CASE txn[p].sub = u
      <3>1. txn[p].cur \in Row /\ k = Key(p) /\ k \in Keys
        BY <2>1, <2>3, Places, HandTypes DEF ThreadsOK, InHand, Key
      <3>2. rows'[k] # NoRow
        <4>1. CASE txn[p].old = NoRow
          BY <1>1, <2>1, <3>1, <4>1, NoRowIsNotARow DEF Committed
        <4>2. CASE txn[p].old # NoRow
          BY <1>2, <2>1, <2>2, <3>1, <4>2
        <4>3. QED
          BY <4>1, <4>2
      <3>3. QED
        BY <2>1, <3>2 DEF Accounted
    <2>4. CASE txn[p].sub # u
      BY <1>2, <2>1, <2>2, <2>4 DEF Accounted
    <2>5. QED
      BY <2>3, <2>4
  <1>6. CASE EndPass(p)
    BY <1>1, <1>2, <1>6, Places DEF EndPass, Accounted, GoTo
  <1>7. CASE Stop(p)
    BY <1>2, <1>7 DEF Stop, Accounted
  <1>8. CASE Create(p) \/ Fetch(p) \/ ResolveQueueId(p) \/ AlreadyDelivered(p) \/ Post(p)
    <2>1. pc[p] \in InTxn /\ ~Lookup(p)
      BY <1>8, Places
      DEF Create, Fetch, ResolveQueueId, AlreadyDelivered, Post, Lookup
    <2>2. pc'[p] \in Holding
      <3>1. ASSUME NEW error, React(p, error) PROVE pc'[p] \in Holding
        BY <1>1, <3>1, Places DEF React, Settle, AbortJob, AbortGroup, GoTo
      <3>2. QED
        BY <1>1, <1>8, <2>1, <3>1, Places
        DEF Create, Fetch, ResolveQueueId, AlreadyDelivered, Post, AbandonCycle, Settle, GoTo
    <2>3. /\ plan'[p].job = plan[p].job /\ plan'[p].listed = plan[p].listed
          /\ plan'[p].rest = plan[p].rest /\ txn'[p].sub = txn[p].sub
      BY <2>1, <2>2, HoldBegins
    <2>4. SameJob
      BY <2>1, <2>3, Places
    <2>5. pc'[p] # "mark" /\ pc'[p] \in InTxn
      BY <2>2, Places DEF Holding
    <2>6. QED
      BY <1>2, <2>1, <2>3, <2>4, <2>5 DEF Accounted
  <1>9. CASE \/ LoadActive(p) \/ ListGroup(p) \/ EndCycle(p) \/ EndGroup(p) \/ LeaveJob(p)
             \/ MarkPolled(p) \/ EndLoop(p) \/ Boot(p) \/ DatabaseFault(p) \/ Crash(p) \/ Start(p)
    BY <1>1, <1>9, Places
    DEF LoadActive, ListGroup, EndCycle, EndGroup, LeaveJob, MarkPolled, EndLoop, Boot,
        DatabaseFault, Crash, Start, AbortJob, AbortGroup, AbandonCycle, GoTo
  <1>10. QED
    BY <1>3, <1>4, <1>5, <1>6, <1>7, <1>8, <1>9 DEF ThreadStep, PollStep

LEMMA PassThreads ==
  ASSUME TypeInv, PassInv, [Next]_vars, NEW p \in Pollers PROVE PassOK(p)'
  <1>. TablesOK /\ ThreadsOK
    BY TypeInvParts
  <1>1. PassOK(p) /\ plan[p] \in Plan
    BY DEF PassInv, ThreadsOK
  <1>2. \A s \in plan[p].todo \cup plan[p].group : s.id \in JobIds /\ Begun(s.id)
    BY <1>1 DEF PassOK, Plan, Snapshot
  <1>3. pc[p] \in InJob => plan[p].job.id \in JobIds /\ Begun(plan[p].job.id)
    BY <1>1, HandTypes DEF PassOK
  <1>4. \A s \in ActiveJobs : s.id \in JobIds /\ Begun(s.id)
    BY DEF ActiveJobs, Begun
  <1>5. CASE SameThread(p)
    <2>1. \A s \in plan[p].todo \cup plan[p].group : Begun(s.id)'
      BY <1>2, JobsLive
    <2>2. ASSUME pc[p] \in InJob
          PROVE  /\ jobs'[plan[p].job.id].state # "unborn"
                 /\ jobs'[plan[p].job.id].state = "live" => jobs[plan[p].job.id].state = "live"
      BY <1>3, <2>2, JobsLive DEF Begun
    <2>3. ASSUME pc[p] \in InJob, jobs'[plan[p].job.id].state = "live", NEW u \in plan[p].listed
          PROVE  Accounted(p, u)'
      <3>1. Accounted(p, u) /\ <<plan[p].job.id, u>> \in Keys
        BY <1>1, <1>3, <2>2, <2>3 DEF PassOK, Keys, Plan
      <3>2. rows[<<plan[p].job.id, u>>] # NoRow => rows'[<<plan[p].job.id, u>>] # NoRow
        BY <2>3, <3>1, RowsStay
      <3>3. QED
        BY <1>5, <3>1, <3>2 DEF Accounted, SameThread
    <2>4. QED
      BY <1>1, <1>5, <2>1, <2>2, <2>3 DEF PassOK, SameThread, Begun
  <1>6. CASE ThreadStep(p)
    <2>1. \A s \in plan'[p].todo \cup plan'[p].group : Begun(s.id)'
      BY <1>2, <1>4, <1>6, PlanSteps, JobsLive
    <2>2. ASSUME pc'[p] \in InJob PROVE jobs'[plan'[p].job.id].state # "unborn"
      <3>1. plan'[p].job.id \in JobIds /\ Begun(plan'[p].job.id)
        BY <1>2, <1>3, <1>6, <2>2, PlanSteps
      <3>2. QED
        BY <3>1, JobsLive DEF Begun
    <2>3. pc'[p] \in InJob /\ jobs'[plan'[p].job.id].state = "live" =>
            \A u \in plan'[p].listed : Accounted(p, u)'
      BY <1>1, <1>6, PassOwnStep
    <2>4. pc'[p] = "mark" => plan'[p].rest = {}
      <3>. SUFFICES ASSUME pc'[p] = "mark" PROVE plan'[p].rest = {}
        OBVIOUS
      <3>1. EndPass(p) \/ Stop(p)
        BY <1>6
        DEF ThreadStep, PollStep, LoadActive, ListGroup, EndCycle, NextJob, EndGroup, LeaveJob,
            Lookup, MarkPolled, Create, Fetch, ResolveQueueId, AlreadyDelivered, Post, Record,
            EndLoop, Boot, DatabaseFault, Crash, Start, React, Settle, AbortJob, AbortGroup,
            AbandonCycle, GoTo, ThreadsOK
      <3>2. QED
        BY <1>1, <3>1 DEF EndPass, Stop, PassOK
    <2>5. QED
      BY <2>1, <2>2, <2>3, <2>4 DEF PassOK, Begun
  <1>7. SameThread(p) \/ ThreadStep(p)
    BY OneThread DEF SameThread
  <1>8. QED
    BY <1>5, <1>6, <1>7

\* A stamp changes at the end of a full pass, or goes with its job.
LEMMA StampSteps ==
  ASSUME TypeInv, [Next]_vars, NEW j \in JobIds
  PROVE  \/ stamp'[j] = stamp[j]
         \/ stamp'[j] = None
         \/ \E p \in Pollers :
              /\ pc[p] = "mark" /\ plan[p].job.id = j /\ jobs[j].state = "live"
              /\ stamp'[j] = plan[p].listed /\ UNCHANGED rows
  <1>. stamp \in [JobIds -> (SUBSET Subs) \cup {None}]
    BY DEF TypeInv, TypeOK
  <1>1. ASSUME NEW p \in Pollers, MarkPolled(p)
        PROVE  \/ stamp'[j] = stamp[j]
               \/ /\ pc[p] = "mark" /\ plan[p].job.id = j /\ jobs[j].state = "live"
                  /\ stamp'[j] = plan[p].listed /\ UNCHANGED rows
    BY <1>1 DEF MarkPolled
  <1>2. ASSUME NEW i \in JobIds, DeleteJob(i) PROVE stamp'[j] = stamp[j] \/ stamp'[j] = None
    BY <1>2 DEF DeleteJob
  <1>3. CASE UNCHANGED stamp
    BY <1>3
  <1>4. QED
    BY <1>1, <1>2, <1>3
    DEF Next, PollStep, vars, LoadActive, ListGroup, EndCycle, NextJob, EndGroup, LeaveJob,
        Lookup, EndPass, Create, Fetch, ResolveQueueId, AlreadyDelivered, Post, Record,
        EndLoop, Boot, DatabaseFault, Stop, Crash, Start, Arrive, Purge, CreateJob, UpdateJob,
        RetryLoad, RetryCommit, RetryFail

LEMMA PassStamps ==
  ASSUME TypeInv, PassInv, [Next]_vars PROVE StampAttestsRows'
  <1>. SUFFICES ASSUME NEW j \in JobIds, stamp'[j] # None, NEW u \in stamp'[j]
                PROVE  rows'[<<j, u>>] # NoRow
    BY DEF StampAttestsRows
  <1>. TablesOK
    BY TypeInvParts
  <1>1. CASE stamp'[j] = stamp[j]
    <2>1. rows[<<j, u>>] # NoRow /\ <<j, u>> \in Keys
      BY <1>1 DEF PassInv, StampAttestsRows, TablesOK, Keys
    <2>2. QED
      BY <2>1, RowsStay
  <1>2. ASSUME NEW p \in Pollers, pc[p] = "mark", plan[p].job.id = j, jobs[j].state = "live",
               stamp'[j] = plan[p].listed, UNCHANGED rows
        PROVE  rows'[<<j, u>>] # NoRow
    <2>1. Accounted(p, u) /\ plan[p].rest = {}
      BY <1>2, Places DEF PassInv, PassOK
    <2>2. QED
      BY <1>2, <2>1, Places DEF Accounted
  <1>3. QED
    BY <1>1, <1>2, StampSteps

LEMMA PassInvariant == Spec => []PassInv
  <1>1. Init => PassInv
    BY Places DEF Init, PassInv, PassOK, StampAttestsRows, EmptyPlan
  <1>2. TypeInv /\ PassInv /\ [Next]_vars => PassInv'
    BY PassThreads, PassStamps DEF PassInv
  <1>3. QED
    BY <1>1, <1>2, TypeInvariant, PTL DEF Spec

\* A job's stamp is the word of a full pass: each submission that pass listed
\* has a row for the job, and keeps it as long as the job is there.
THEOREM StampsAttestRows == Spec => []StampAttestsRows
  <1>1. PassInv => StampAttestsRows
    BY DEF PassInv
  <1>2. QED
    BY <1>1, PassInvariant, PTL

-------------------------------------------------------------------------------
(* The service implements the ledger: a step that adds an item leaves the  *)
(* rows alone and the other way round, so each is one step of the ledger;  *)
(* which one follows from the invariants above.                            *)

LedgerInv ==
  TypeInv /\ WorkInv /\ LockInv /\ HeldInv /\ RealInv /\ OneItemInv

LEMMA StatusOf ==
  /\ StatusColumn = [k \in Keys |-> rows[k].status]
  /\ StatusColumn' = [k \in Keys |-> rows'[k].status]
  BY DEF StatusColumn

LEMMA SameEntries == Ledger!Entries = Keys
  BY DEF Ledger!Entries, Keys

LEMMA RowsOrItems ==
  ASSUME [Next]_vars
  PROVE  UNCHANGED items \/ (UNCHANGED rows /\ \E p \in Pollers : Post(p))
  <1>1. ASSUME NEW p \in Pollers, PollStep(p), ~Post(p) PROVE UNCHANGED items
    BY <1>1
    DEF PollStep, LoadActive, ListGroup, EndCycle, NextJob, EndGroup, LeaveJob, Lookup,
        EndPass, MarkPolled, Create, Fetch, ResolveQueueId, AlreadyDelivered, Record,
        EndLoop, Boot
  <1>2. ASSUME NEW p \in Pollers, Post(p) PROVE UNCHANGED rows
    BY <1>2 DEF Post
  <1>3. ASSUME NEW p \in Pollers, DatabaseFault(p) \/ Stop(p) \/ Crash(p) \/ Start(p)
        PROVE  UNCHANGED items
    BY <1>3 DEF DatabaseFault, Stop, Crash, Start
  <1>4. QED
    BY <1>1, <1>2, <1>3
    DEF Next, vars, Arrive, Purge, CreateJob, UpdateJob, DeleteJob, RetryLoad, RetryCommit,
        RetryFail

\* A post that takes effect is the one add of its reference.
LEMMA PostIsAdd ==
  ASSUME LedgerInv, NEW p \in Pollers, Post(p), UNCHANGED rows
  PROVE  Ledger!Next \/ UNCHANGED Ledger!ledger
  <1>. TablesOK /\ ThreadsOK
    BY TypeInvParts DEF LedgerInv
  <1>1. UNCHANGED StatusColumn
    BY StatusOf
  <1>2. /\ pc[p] = "post" /\ Reference(p) \in Queues \X Subs
        /\ items[Reference(p)] = 0 /\ items \in [Queues \X Subs -> Nat]
    BY Places, HandTypes DEF Post, LedgerInv, OneItemInv, TablesOK
  <1>3. CASE items' = [items EXCEPT ![Reference(p)] = items[Reference(p)] + 1]
    <2>1. PICK q \in Queues, u \in Subs : Reference(p) = <<q, u>>
      BY <1>2
    <2>2. items' = [items EXCEPT ![<<q, u>>] = 1]
      BY <1>2, <1>3, <2>1
    <2>3. Ledger!Add(q, u)
      BY <1>1, <1>2, <2>1, <2>2 DEF Ledger!Add
    <2>4. QED
      BY <2>3 DEF Ledger!Next
  <1>4. CASE UNCHANGED items
    BY <1>1, <1>4 DEF Ledger!ledger
  <1>5. QED
    BY <1>3, <1>4 DEF Post

\* One entry changes as the ledger allows, the others and the items do not.
LEMMA OneEntry ==
  ASSUME NEW k \in Keys, NEW new, UNCHANGED items,
         \A i \in Keys \ {k} : rows'[i].status = rows[i].status,
         rows'[k].status = new,
         \/ new = rows[k].status
         \/ new = "new" /\ rows[k].status # "none"
         \/ /\ rows[k].status \in {"none", "new", "failed"}
            /\ new \in {"delivered", "failed", "dead_letter"}
            /\ new = "delivered" => \E q \in Queues : items[<<q, k[2]>>] > 0
  PROVE  Ledger!Next \/ UNCHANGED Ledger!ledger
  <1>1. StatusColumn' = [StatusColumn EXCEPT ![k] = new] /\ StatusColumn[k] = rows[k].status
    BY StatusOf
  <1>2. CASE new = rows[k].status
    <2>1. UNCHANGED StatusColumn
      BY <1>2, StatusOf
    <2>2. QED
      BY <2>1 DEF Ledger!ledger
  <1>3. CASE new = "new" /\ rows[k].status # "none"
    <2>1. Ledger!Reset(k)
      BY <1>1, <1>3 DEF Ledger!Reset
    <2>2. QED
      BY <2>1, SameEntries DEF Ledger!Next
  <1>4. CASE /\ rows[k].status \in {"none", "new", "failed"}
             /\ new \in {"delivered", "failed", "dead_letter"}
             /\ new = "delivered" => \E q \in Queues : items[<<q, k[2]>>] > 0
    <2>1. Ledger!Decide(k, new) /\ new \in Ledger!Results
      BY <1>1, <1>4 DEF Ledger!Decide, Ledger!Open, Ledger!Results
    <2>2. QED
      BY <2>1, SameEntries DEF Ledger!Next
  <1>5. QED
    BY <1>2, <1>3, <1>4

\* A commit decides an entry that was open, or adds nothing to its status.
LEMMA CommitIsDecide ==
  ASSUME LedgerInv, NEW p \in Pollers, CommitsRow(p), UNCHANGED items
  PROVE  Ledger!Next \/ UNCHANGED Ledger!ledger
  <1>. TablesOK /\ ThreadsOK
    BY TypeInvParts DEF LedgerInv
  <1>. DEFINE k == Key(p)
              old == txn[p].old
              cur == txn[p].cur
  <1>1. /\ pc[p] = "record" /\ pc[p] \in Holding
        /\ k \in Keys /\ Reference(p) \in Queues \X Subs
        /\ cur \in Row /\ old \in RowOrNone
        /\ plan[p].job.dest \in Queues /\ txn[p].sub = k[2]
        /\ rows \in [Keys -> RowOrNone]
    BY Places, HandTypes DEF CommitsRow, ThreadsOK, TablesOK, InHand, Txn, Key
  <1>2. old.status \notin TerminalStates /\ cur.status \in Verdicts
    BY <1>1, Places DEF LedgerInv, WorkInv, WorkOK
  <1>3. cur.status = "delivered" => \E q \in Queues : items[<<q, k[2]>>] > 0
    BY <1>1 DEF LedgerInv, RealInv, RealOK, Reference
  <1>4. rows[k].status \in {"none", "new", "failed"}
    <2>1. CASE old = NoRow
      BY <1>1, <2>1 DEF LedgerInv, LockInv, Inserting, NoRow
    <2>2. CASE old # NoRow
      <3>1. rows[k].status \in {old.status, "new", "none"}
        BY <1>1, <2>2 DEF LedgerInv, HeldInv
      <3>2. old.status \in Statuses
        BY <1>1, <2>2 DEF RowOrNone, Row
      <3>3. QED
        BY <1>2, <3>1, <3>2 DEF Statuses, TerminalStates
    <2>3. QED
      BY <2>1, <2>2
  <1>5. /\ \A i \in Keys \ {k} : rows'[i].status = rows[i].status
        /\ rows'[k] = IF old = NoRow THEN cur ELSE WriteBack(rows[k], old, cur)
    BY <1>1 DEF CommitsRow, Committed
  <1>6. rows'[k].status \in {cur.status, rows[k].status}
    <2>1. WriteBack(rows[k], old, cur).status \in {cur.status, rows[k].status}
      BY DEF WriteBack, Column
    <2>2. QED
      BY <1>5, <2>1
  <1>. HIDE DEF k, old, cur
  <1>7. QED
    BY <1>1, <1>2, <1>3, <1>4, <1>5, <1>6, OneEntry DEF Verdicts

LEMMA SkipIsStutter ==
  ASSUME LedgerInv, NEW k \in Keys, NEW known \in BOOLEAN, SkipsRow(k, known), UNCHANGED items
  PROVE  Ledger!Next \/ UNCHANGED Ledger!ledger
  <1>1. rows \in [Keys -> RowOrNone] /\ rows[k] \in Row
    BY DEF LedgerInv, TypeInv, TypeOK, SkipsRow, RowOrNone, NoRow, TerminalStates
  <1>2. BackfillSerial(rows[k], known).status = rows[k].status
    BY <1>1 DEF BackfillSerial, Row
  <1>3. /\ \A i \in Keys \ {k} : rows'[i].status = rows[i].status
        /\ rows'[k].status = rows[k].status
    BY <1>1, <1>2 DEF SkipsRow
  <1>4. QED
    BY <1>3, OneEntry

LEMMA ResetIsReset ==
  ASSUME LedgerInv, NEW r \in Requests, ResetsRow(r), UNCHANGED items
  PROVE  Ledger!Next \/ UNCHANGED Ledger!ledger
  <1>. DEFINE k == request[r].key
              new == WriteBack(rows[k], request[r].old, ResetForRetry(request[r].old))
  <1>1. /\ request[r] \in Retry /\ k \in Keys
        /\ rows \in [Keys -> RowOrNone] /\ rows[k] \in Row
    BY DEF LedgerInv, TypeInv, TypeOK, ResetsRow, RowOrNone, Retry
  <1>2. new.status \in {rows[k].status, "new"}
    BY <1>1, ResetValues
  <1>3. rows' = [rows EXCEPT ![k] = new] /\ rows[k].status # "none"
    BY <1>1 DEF ResetsRow, Row, Statuses
  <1>. HIDE DEF k, new
  <1>4. (\A i \in Keys \ {k} : rows'[i].status = rows[i].status) /\ rows'[k] = new
    BY <1>1, <1>3
  <1>5. QED
    BY <1>1, <1>2, <1>3, <1>4, OneEntry

LEMMA DeleteIsErase ==
  ASSUME LedgerInv, NEW j \in JobIds, DeleteJob(j), UNCHANGED items
  PROVE  Ledger!Next \/ UNCHANGED Ledger!ledger
  <1>1. \A k \in Keys : rows'[k].status = IF k[1] = j THEN "none" ELSE rows[k].status
    BY DEF DeleteJob, NoRow
  <1>2. StatusColumn' = [k \in Keys |-> IF k[1] = j THEN "none" ELSE StatusColumn[k]]
    BY <1>1, StatusOf
  <1>3. Ledger!Erase(j)
    BY <1>2, SameEntries DEF Ledger!Erase
  <1>4. QED
    BY <1>3 DEF Ledger!Next

LEMMA LedgerStep ==
  ASSUME LedgerInv, [Next]_vars PROVE Ledger!Next \/ UNCHANGED Ledger!ledger
  <1>1. TypeInv
    BY DEF LedgerInv
  <1>2. CASE UNCHANGED items
    <2>1. CASE UNCHANGED rows
      <3>1. UNCHANGED StatusColumn
        BY <2>1, StatusOf
      <3>2. QED
        BY <1>2, <3>1 DEF Ledger!ledger
    <2>2. QED
      BY <1>1, <1>2, <2>1, RowSteps, SkipIsStutter, CommitIsDecide, ResetIsReset, DeleteIsErase
  <1>3. QED
    BY <1>2, RowsOrItems, PostIsAdd

LEMMA LedgerInit == Init => Ledger!Init
  <1>. SUFFICES ASSUME Init PROVE Ledger!Init
    OBVIOUS
  <1>1. StatusColumn = [k \in Keys |-> "none"]
    BY StatusOf DEF Init, NoRow
  <1>2. QED
    BY <1>1, SameEntries DEF Init, Ledger!Init

\* With one poll thread, a guard that sees and no lost reply, the service is
\* the ledger: whatever fails, is killed, reset or deleted, every step it takes
\* is one the ledger allows or one the ledger does not see.
THEOREM PollerImplementsLedger ==
  ASSUME SinglePoller, Quirks = {}
  PROVE  Spec => ImplementsLedger
  <1>1. Init => HeldInv /\ RealInv /\ OneItemInv
    BY DEF Init, HeldInv, Holding, RealInv, RealOK, DeliveredIsReal, NoRow, OneItemInv, AtMostOneItem
  <1>2. TypeInv /\ WorkInv /\ HeldInv /\ RealInv /\ OneItemInv /\ [Next]_vars =>
          HeldInv' /\ RealInv' /\ OneItemInv'
    BY HeldStep, RealThreads, RealRows, OneItemStep DEF RealInv, DeliveredIsReal
  <1>3. TypeInv /\ WorkInv /\ LockInv /\ HeldInv /\ RealInv /\ OneItemInv /\ [Next]_vars =>
          [Ledger!Next]_(Ledger!ledger)
    BY LedgerStep DEF LedgerInv
  <1>4. QED
    BY <1>1, <1>2, <1>3, LedgerInit, TypeInvariant, WorkInvariant, LockInvariant, PTL
    DEF Spec, ImplementsLedger, Ledger!Spec

-------------------------------------------------------------------------------
(* Whose payload an item has. A reference names a queue and a submission,  *)
(* and no job; so an item is a job's own as far as the queue and the form  *)
(* of the submission are. `user` says of each form and queue whose it is.  *)

Routed(user, s) == s.dest \in Queues => user[<<s.form, s.dest>>] = s.id

\* No form and queue is ever of two jobs, also one after the other.
OwnRoutes(user) == \A s \in ActiveJobs : Routed(user, s)

RouteOK(user, p) ==
  /\ \A s \in plan[p].todo \cup plan[p].group : Routed(user, s)
  /\ pc[p] \in InJob => Routed(user, plan[p].job)

\* A job is given the submissions of its form.
FormOK(p) ==
  /\ \A s \in plan[p].group, u \in plan[p].listed : FormOf[u] = s.form
  /\ pc[p] \in InJob => \A u \in plan[p].rest : FormOf[u] = plan[p].job.form
  /\ pc[p] \in InTxn => FormOf[txn[p].sub] = plan[p].job.form

\* Every item was added for the job its form and queue are of ...
ItemsOwned(user) ==
  \A q \in Queues, u \in Subs :
    items[<<q, u>>] > 0 => user[<<FormOf[u], q>>] \in origin[<<q, u>>]

\* ... and that is the job whose row says delivered.
RowsOwned(user) ==
  \A k \in Keys :
    rows[k].deliveredAt =>
      \E q \in Queues : items[<<q, k[2]>>] > 0 /\ user[<<FormOf[k[2]], q>>] = k[1]

LEMMA FormOwnStep ==
  ASSUME TypeInv, NEW p \in Pollers, ThreadStep(p), FormOK(p)
  PROVE  FormOK(p)'
  <1>1. CASE BeginsGroup(p)
    BY <1>1, Places DEF BeginsGroup, FormOK, Listing
  <1>2. CASE TakesJob(p)
    BY <1>2, Places DEF TakesJob, FormOK
  <1>3. CASE BetweenJobs(p)
    BY <1>3, Places DEF BetweenJobs, FormOK
  <1>4. CASE EndsGroup(p)
    BY <1>4, Places DEF EndsGroup, FormOK, Working
  <1>5. CASE WorksOn(p)
    BY <1>5 DEF WorksOn, FormOK
  <1>6. CASE SameThread(p)
    BY <1>6 DEF SameThread, FormOK
  <1>7. QED
    BY <1>1, <1>2, <1>3, <1>4, <1>5, <1>6, GroupMoves

LEMMA FormStep ==
  ASSUME TypeInv, [Next]_vars, NEW p \in Pollers, FormOK(p) PROVE FormOK(p)'
  <1>1. CASE SameThread(p)
    BY <1>1 DEF SameThread, FormOK
  <1>2. SameThread(p) \/ ThreadStep(p)
    BY OneThread DEF SameThread
  <1>3. QED
    BY <1>1, <1>2, FormOwnStep

LEMMA RouteStep ==
  ASSUME NEW user, OwnRoutes(user), TypeInv, [Next]_vars, NEW p \in Pollers, RouteOK(user, p)
  PROVE  RouteOK(user, p)'
  <1>1. CASE SameThread(p)
    BY <1>1 DEF SameThread, RouteOK, Routed
  <1>2. CASE ThreadStep(p)
    <2>1. \A s \in plan'[p].todo \cup plan'[p].group : Routed(user, s)
      BY <1>2, PlanSteps DEF RouteOK, OwnRoutes
    <2>2. pc'[p] \in InJob => Routed(user, plan'[p].job)
      BY <1>2, PlanSteps DEF RouteOK
    <2>3. QED
      BY <2>1, <2>2 DEF RouteOK, Routed
  <1>3. SameThread(p) \/ ThreadStep(p)
    BY OneThread DEF SameThread
  <1>4. QED
    BY <1>1, <1>2, <1>3

OwnInv(user) ==
  /\ \A p \in Pollers : RouteOK(user, p) /\ FormOK(p)
  /\ ItemsOwned(user) /\ RowsOwned(user)

\* What a thread at a submission has in hand is its job's own.
LEMMA HandIsOwn ==
  ASSUME NEW user, TypeInv, NEW p \in Pollers, pc[p] \in InTxn, RouteOK(user, p), FormOK(p)
  PROVE  /\ Reference(p) = <<plan[p].job.dest, txn[p].sub>>
         /\ plan[p].job.dest \in Queues /\ txn[p].sub \in Subs
         /\ user[<<FormOf[txn[p].sub], plan[p].job.dest>>] = plan[p].job.id
  <1>. ThreadsOK
    BY TypeInvParts
  <1>1. pc[p] \in InJob /\ plan[p].job.dest \in Queues /\ txn[p] \in Txn
    BY Places DEF ThreadsOK, InHand
  <1>2. QED
    BY <1>1 DEF RouteOK, FormOK, Routed, Reference, Txn

LEMMA ItemsOwnedStep ==
  ASSUME NEW user, TypeInv, OwnInv(user), OriginNext PROVE ItemsOwned(user)'
  <1>. SUFFICES ASSUME NEW q \in Queues, NEW u \in Subs, items'[<<q, u>>] > 0
                PROVE  user[<<FormOf[u], q>>] \in origin'[<<q, u>>]
    BY DEF ItemsOwned
  <1>. DEFINE k == <<q, u>>
  <1>1. k \in Queues \X Subs /\ items \in [Queues \X Subs -> Nat]
    BY DEF TypeInv, TypeOK
  <1>2. origin'[k] = origin[k] \cup
          (IF items'[k] > items[k]
           THEN {Author(p) : p \in {r \in Pollers : pc[r] = "post" /\ Reference(r) = k}}
           ELSE {})
    BY <1>1 DEF OriginNext
  <1>3. CASE items[k] > 0
    BY <1>2, <1>3 DEF OwnInv, ItemsOwned
  <1>4. CASE ~(items[k] > 0)
    <2>1. items'[k] > items[k]
      BY <1>1, <1>4
    <2>2. PICK p \in Pollers : Post(p)
      BY <1>1, <2>1, RowsOrItems DEF OriginNext
    <2>3. pc[p] = "post" /\ Reference(p) = k
      BY <1>1, <2>1, <2>2 DEF Post
    <2>4. /\ <<plan[p].job.dest, txn[p].sub>> = <<q, u>>
          /\ user[<<FormOf[txn[p].sub], plan[p].job.dest>>] = plan[p].job.id
      <3>1. pc[p] \in InTxn /\ RouteOK(user, p) /\ FormOK(p)
        BY <2>3, Places DEF OwnInv
      <3>2. QED
        BY <2>3, <3>1, HandIsOwn
    <2>5. QED
      BY <1>2, <2>1, <2>3, <2>4 DEF Author
  <1>5. QED
    BY <1>3, <1>4

LEMMA RowsOwnedStep ==
  ASSUME NEW user, TypeInv, WorkInv, RealInv, OwnInv(user), [Next]_vars PROVE RowsOwned(user)'
  <1>. TablesOK /\ ThreadsOK
    BY TypeInvParts
  <1>. SUFFICES ASSUME NEW k \in Keys, rows'[k].deliveredAt
                PROVE  \E q \in Queues : items'[<<q, k[2]>>] > 0 /\ user[<<FormOf[k[2]], q>>] = k[1]
    BY DEF RowsOwned
  <1>1. ASSUME NEW q \in Queues, items[<<q, k[2]>>] > 0 PROVE items'[<<q, k[2]>>] > 0
    <2>1. <<q, k[2]>> \in Queues \X Subs
      BY DEF Keys
    <2>2. QED
      BY <1>1, <2>1, ItemsGrow
  <1>2. ASSUME rows[k].deliveredAt
        PROVE  \E q \in Queues : items'[<<q, k[2]>>] > 0 /\ user[<<FormOf[k[2]], q>>] = k[1]
    BY <1>1, <1>2 DEF OwnInv, RowsOwned
  <1>3. CASE rows'[k] = rows[k]
    BY <1>2, <1>3
  <1>4. CASE rows'[k] = NoRow
    BY <1>4 DEF NoRow
  <1>5. ASSUME NEW known \in BOOLEAN, rows[k] \in Row, rows'[k] = BackfillSerial(rows[k], known)
        PROVE  rows'[k].deliveredAt = rows[k].deliveredAt
    BY <1>5 DEF BackfillSerial, Row
  <1>6. ASSUME NEW p \in Pollers, pc[p] = "record", k = Key(p), txn[p].cur.status = "delivered"
        PROVE  \E q \in Queues : items'[<<q, k[2]>>] > 0 /\ user[<<FormOf[k[2]], q>>] = k[1]
    <2>1. /\ Reference(p) = <<plan[p].job.dest, k[2]>> /\ plan[p].job.dest \in Queues
          /\ user[<<FormOf[k[2]], plan[p].job.dest>>] = k[1]
      BY <1>6, Places, HandIsOwn DEF OwnInv, Key
    <2>2. items[Reference(p)] > 0
      BY <1>6 DEF RealInv, RealOK
    <2>3. QED
      BY <1>1, <2>1, <2>2
  <1>7. ASSUME NEW p \in Pollers, pc[p] = "record", k = Key(p), txn[p].cur \in Row,
               txn[p].old = NoRow, rows'[k] = txn[p].cur
        PROVE  txn[p].cur.status = "delivered"
    BY <1>7, Places DEF WorkInv, WorkOK, NoRow
  <1>8. ASSUME NEW p \in Pollers, rows'[k] = WriteBack(rows[k], txn[p].old, txn[p].cur)
        PROVE  rows[k].deliveredAt \/ txn[p].cur.status = "delivered"
    <2>1. WriteBack(rows[k], txn[p].old, txn[p].cur).deliveredAt =
            (rows[k].deliveredAt \/ txn[p].cur.status = "delivered")
      BY WriteBackColumns
    <2>2. QED
      BY <1>8, <2>1
  <1>9. ASSUME NEW r \in Requests, request[r] \in Retry, rows[k] \in Row,
               rows'[k] = WriteBack(rows[k], request[r].old, ResetForRetry(request[r].old))
        PROVE  rows[k].deliveredAt
    <2>1. ResetForRetry(request[r].old).status = "new"
      BY <1>9 DEF ResetForRetry, Retry, Row
    <2>. DEFINE new == ResetForRetry(request[r].old)
    <2>2. WriteBack(rows[k], request[r].old, new).deliveredAt = (rows[k].deliveredAt \/ new.status = "delivered")
      BY WriteBackColumns
    <2>3. QED
      BY <1>9, <2>1, <2>2
  <1>10. ASSUME NEW p \in Pollers, pc[p] = "record", k = Key(p), txn[p].cur \in Row,
                \/ txn[p].old = NoRow /\ rows'[k] = txn[p].cur
                \/ rows'[k] = WriteBack(rows[k], txn[p].old, txn[p].cur)
         PROVE  \E q \in Queues : items'[<<q, k[2]>>] > 0 /\ user[<<FormOf[k[2]], q>>] = k[1]
    BY <1>2, <1>6, <1>7, <1>8, <1>10
  <1>11. QED
    BY <1>2, <1>3, <1>4, <1>5, <1>9, <1>10, RowValues

\* "For each job in a group, deliver any submissions not yet delivered *for
\* that job*": so it is, with any number of threads and every quirk, as long as
\* no form and queue is ever of two jobs, whatever else becomes of the jobs.
THEOREM OwnRoutesOwnItems ==
  ASSUME NEW user \in [Forms \X Queues -> JobIds]
  PROVE  OriginSpec /\ []OwnRoutes(user) => []DeliveredForThatJob
  <1>1. OriginInit => Init /\ RealInv /\ OwnInv(user)
    BY Places
    DEF OriginInit, Init, RealInv, RealOK, DeliveredIsReal, OwnInv, RouteOK, FormOK, ItemsOwned,
        RowsOwned, NoRow, EmptyPlan
  <1>2. [OriginNext]_<<vars, origin>> => [Next]_vars
    BY DEF OriginNext
  <1>3. TypeInv /\ WorkInv /\ RealInv /\ [Next]_vars => RealInv'
    BY RealThreads, RealRows DEF RealInv, DeliveredIsReal
  <1>4. ASSUME TypeInv, WorkInv, RealInv, OwnInv(user), OwnRoutes(user),
               [OriginNext]_<<vars, origin>>
        PROVE  OwnInv(user)'
    <2>1. \A p \in Pollers : RouteOK(user, p)' /\ FormOK(p)'
      BY <1>2, <1>4, RouteStep, FormStep DEF OwnInv
    <2>2. RowsOwned(user)'
      BY <1>2, <1>4, RowsOwnedStep
    <2>3. ItemsOwned(user)'
      <3>1. CASE UNCHANGED <<vars, origin>>
        BY <1>4, <3>1 DEF OwnInv, ItemsOwned, vars
      <3>2. QED
        BY <1>4, <3>1, ItemsOwnedStep
    <2>4. QED
      BY <2>1, <2>2, <2>3 DEF OwnInv
  <1>5. TypeInv /\ OwnInv(user) => DeliveredForThatJob
    BY DEF OwnInv, ItemsOwned, RowsOwned, DeliveredForThatJob, Keys
  <1>6. OriginSpec => Spec
    BY <1>1, <1>2, PTL DEF OriginSpec, Spec
  <1>7. TypeInv /\ WorkInv /\ RealInv /\ OwnInv(user) /\ OwnRoutes(user)
          /\ [OriginNext]_<<vars, origin>> => OwnInv(user)'
    BY <1>4
  <1>8. QED
    BY <1>1, <1>2, <1>3, <1>5, <1>6, <1>7, TypeInvariant, WorkInvariant, PTL DEF OriginSpec

-------------------------------------------------------------------------------
(* The passes of the service are those of Freshness.                       *)

\* The jobs a thread has still to come are different ones, and if the watched
\* one is among them it is on its form, and so is what has been listed for it.
ShapeOK(p) ==
  /\ \A s, t \in plan[p].todo : s.id = t.id => s = t
  /\ \A s, t \in plan[p].group : s.id = t.id => s = t
  /\ \A s \in plan[p].todo \cup plan[p].group : s.id = Watched => s.form = Form
  /\ pc[p] \notin Working => plan[p].group = {}
  /\ pc[p] \in InJob => /\ \A s \in plan[p].group : s.id # plan[p].job.id
                        /\ plan[p].rest \subseteq plan[p].listed
  /\ pc[p] \in InTxn => txn[p].sub \in plan[p].listed
  /\ Passing(p) => plan[p].listed \subseteq OnForm

LEMMA ActiveOnes ==
  ASSUME StaysOnForm
  PROVE  /\ \A s, t \in ActiveJobs : s.id = t.id => s = t
         /\ \A s \in ActiveJobs : s.id = Watched => s.form = Form
  BY DEF ActiveJobs, StaysOnForm

LEMMA ShapeOwnStep ==
  ASSUME TypeInv, StaysOnForm, NEW p \in Pollers, ThreadStep(p), ShapeOK(p)
  PROVE  ShapeOK(p)'
  <1>1. CASE BeginsGroup(p)
    <2>1. PICK s \in plan[p].todo : /\ plan'[p].group = {t \in plan[p].todo : t.form = s.form}
                                    /\ plan'[p].listed = Listing(s.form)
      BY <1>1 DEF BeginsGroup
    <2>2. pc'[p] = "jobs" /\ plan'[p].todo \subseteq plan[p].todo
      BY <1>1 DEF BeginsGroup
    <2>3. Passing(p)' => s.form = Form
      BY <2>1, <2>2, Places DEF Passing, ShapeOK
    <2>4. Listing(Form) \subseteq OnForm
      BY DEF Listing, OnForm
    <2>5. QED
      BY <2>1, <2>2, <2>3, <2>4, Places DEF ShapeOK, Working
  <1>2. CASE TakesJob(p)
    <2>1. Passing(p)' => Passing(p)
      BY <1>2, Places DEF TakesJob, Passing
    <2>2. QED
      BY <1>2, <2>1, Places DEF TakesJob, ShapeOK, Working
  <1>3. CASE BetweenJobs(p)
    <2>1. Passing(p)' => Passing(p)
      BY <1>3 DEF BetweenJobs, Passing
    <2>2. QED
      BY <1>3, <2>1, ActiveOnes, Places DEF BetweenJobs, ShapeOK, Working
  <1>4. CASE EndsGroup(p)
    BY <1>4, Places DEF EndsGroup, ShapeOK, Passing, Working
  <1>5. CASE WorksOn(p)
    BY <1>5, Places DEF WorksOn, ShapeOK, Passing, Working
  <1>6. CASE SameThread(p)
    BY <1>6 DEF SameThread, ShapeOK, Passing
  <1>7. QED
    BY <1>1, <1>2, <1>3, <1>4, <1>5, <1>6, GroupMoves

LEMMA ShapeStep ==
  ASSUME TypeInv, StaysOnForm, [Next]_vars, NEW p \in Pollers, ShapeOK(p) PROVE ShapeOK(p)'
  <1>1. CASE SameThread(p)
    BY <1>1 DEF SameThread, ShapeOK, Passing
  <1>2. SameThread(p) \/ ThreadStep(p)
    BY OneThread DEF SameThread
  <1>3. QED
    BY <1>1, <1>2, ShapeOwnStep

\* A pass begins with a listing, which it keeps to its end.
LEMMA PassMoves ==
  ASSUME TypeInv, NEW p \in Pollers, ThreadStep(p), ShapeOK(p)
  PROVE  \/ /\ ~Passing(p) /\ Passing(p)' /\ plan'[p].listed = Here
            /\ pc[p] = "groups" /\ pc'[p] = "jobs"
         \/ Passing(p) /\ ~Passing(p)'
         \/ ~Passing(p) /\ ~Passing(p)'
         \/ /\ Passing(p) /\ Passing(p)' /\ plan'[p].listed = plan[p].listed
            /\ ~(pc[p] = "groups" /\ pc'[p] = "jobs")
  <1>1. CASE BeginsGroup(p)
    <2>1. PICK s \in plan[p].todo : /\ plan'[p].group = {t \in plan[p].todo : t.form = s.form}
                                    /\ plan'[p].listed = Listing(s.form)
      BY <1>1 DEF BeginsGroup
    <2>2. pc[p] = "groups" /\ pc'[p] = "jobs" /\ ~Passing(p)
      BY <1>1, Places DEF BeginsGroup, Passing, ShapeOK, Working
    <2>3. Passing(p)' => s.form = Form
      BY <2>1, <2>2, Places DEF Passing, ShapeOK
    <2>4. QED
      BY <2>1, <2>2, <2>3 DEF Here
  <1>2. CASE TakesJob(p) \/ BetweenJobs(p) \/ WorksOn(p)
    <2>1. Passing(p)' => Passing(p)
      BY <1>2, Places DEF TakesJob, BetweenJobs, WorksOn, Passing
    <2>2. plan'[p].listed = plan[p].listed
      BY <1>2 DEF TakesJob, BetweenJobs, WorksOn
    <2>3. ~(pc[p] = "groups" /\ pc'[p] = "jobs")
      BY <1>2, Places DEF TakesJob, BetweenJobs, WorksOn, Working
    <2>4. QED
      BY <2>1, <2>2, <2>3
  <1>3. CASE EndsGroup(p)
    BY <1>3, Places DEF EndsGroup, Passing, Working
  <1>4. CASE SameThread(p)
    BY <1>4 DEF SameThread, Passing
  <1>5. QED
    BY <1>1, <1>2, <1>3, <1>4, GroupMoves

\* A row of the watched job appears with a commit that was about it.
LEMMA SeenSteps ==
  ASSUME TypeInv, StaysOnForm, StaysOnForm', Watched \in JobIds, [Next]_vars
  PROVE  /\ Seen \subseteq Seen'
         /\ \A u \in Seen' \ Seen : \E p \in Pollers :
              pc[p] = "record" /\ pc'[p] \notin Holding /\ Key(p) = <<Watched, u>>
  <1>1. \A u \in OnForm : <<Watched, u>> \in Keys
    BY DEF OnForm, Keys
  <1>2. Seen \subseteq Seen'
    BY <1>1, RowsStay DEF Seen, StaysOnForm
  <1>3. ASSUME NEW u \in Seen' \ Seen
        PROVE  \E p \in Pollers :
                 pc[p] = "record" /\ pc'[p] \notin Holding /\ Key(p) = <<Watched, u>>
    <2>. DEFINE k == <<Watched, u>>
    <2>1. k \in Keys /\ rows[k] = NoRow /\ rows'[k] # NoRow
      BY <1>1, <1>3 DEF Seen
    <2>2. rows[k] \notin Row /\ rows'[k] # rows[k]
      BY <2>1, NoRowIsNotARow
    <2>3. QED
      BY <2>1, <2>2, RowValues
  <1>4. QED
    BY <1>2, <1>3

LEMMA SeenByOne ==
  ASSUME TypeInv, StaysOnForm, StaysOnForm', Watched \in JobIds, [Next]_vars, NEW p \in Pollers,
         \A q \in Pollers \ {p} : SameThread(q)
  PROVE  \/ UNCHANGED Seen
         \/ /\ pc[p] = "record" /\ plan[p].job.id = Watched
            /\ txn[p].sub \in OnForm /\ Seen' = Seen \cup {txn[p].sub}
  <1>1. ASSUME NEW u \in Seen' \ Seen
        PROVE  pc[p] = "record" /\ plan[p].job.id = Watched /\ txn[p].sub = u /\ u \in OnForm
    <2>1. PICK q \in Pollers : pc[q] = "record" /\ pc'[q] \notin Holding /\ Key(q) = <<Watched, u>>
      BY <1>1, SeenSteps
    <2>2. q = p
      BY <2>1, Places DEF SameThread, Holding
    <2>3. QED
      BY <1>1, <2>1, <2>2 DEF Key, Seen
  <1>2. QED
    BY <1>1, SeenSteps

\* A thread leaves OS2forms alone.
LEMMA SourceSteps ==
  /\ [Next]_vars => \/ UNCHANGED source
                    \/ \E u \in Subs : Arrive(u) \/ Purge(u)
  /\ \A p \in Pollers : ThreadStep(p) => UNCHANGED source
  <1>1. ASSUME NEW p \in Pollers, ThreadStep(p) PROVE UNCHANGED source
    BY <1>1
    DEF ThreadStep, PollStep, LoadActive, ListGroup, EndCycle, NextJob, EndGroup, LeaveJob,
        Lookup, EndPass, MarkPolled, Create, Fetch, ResolveQueueId, AlreadyDelivered, Post,
        Record, EndLoop, Boot, DatabaseFault, Stop, Crash, Start
  <1>2. QED
    BY <1>1
    DEF Next, vars, ThreadStep, CreateJob, UpdateJob, DeleteJob, RetryLoad, RetryCommit, RetryFail

\* What was there at a moment the stamp was too old has been noted.
Noted == Passes!Stale => Here \subseteq signalled

ClockInv ==
  /\ now \in Nat /\ listedAt \in [Pollers -> Nat]
  /\ \A p \in Pollers : ShapeOK(p)
  /\ Noted

LEMMA NotedAlready ==
  ASSUME Noted, Passes!Watch,
         UNCHANGED <<now, Born, Here, Purged, Seen, Listed, Began, stampedAt>>
  PROVE  UNCHANGED Passes!vars
  <1>1. Passes!Stale' <=> Passes!Stale
    BY DEF Passes!Stale
  <1>2. signalled' = signalled
    BY <1>1 DEF Noted, Passes!Watch
  <1>3. QED
    BY <1>2 DEF Passes!vars

\* The passes of a thread that does not move stay as they are.
LEMMA PassesOfOthers ==
  ASSUME TypeInv, Timed, NEW p \in Pollers, SameThread(p)
  PROVE  /\ Listed'[p] = Listed[p] /\ Began'[p] = Began[p]
         /\ ~Stamps(p)
  <1>1. Passing(p)' <=> Passing(p)
    BY DEF SameThread, Passing
  <1>2. listedAt'[p] = listedAt[p] /\ plan'[p].listed = plan[p].listed
    BY DEF Timed, SameThread
  <1>3. Listed'[p] = Listed[p] /\ Began'[p] = Began[p]
    BY <1>1, <1>2 DEF Listed, Began
  <1>4. MarkPolled(p) => pc[p] = "mark" /\ pc'[p] = "jobs"
    BY DEF TypeInv, TypeOK, MarkPolled, AbortJob, GoTo
  <1>5. QED
    BY <1>3, <1>4 DEF SameThread, Stamps

LEMMA NothingArrives ==
  ASSUME TypeInv, Timed, UNCHANGED source PROVE UNCHANGED <<Born, Here, Purged>>
  <1>1. \A u \in Subs : ~Arrive(u)
    BY DEF TypeInv, TypeOK, Arrive
  <1>2. \A u \in OnForm : created'[u] = created[u]
    BY <1>1 DEF Timed, OnForm
  <1>3. QED
    BY <1>2 DEF Born, Here, Purged, Listing

\* A step of a thread is a step of its pass, or none.
LEMMA ThreadPasses ==
  ASSUME TypeInv, PassInv, ClockInv, StaysOnForm, StaysOnForm', Watched \in JobIds,
         Never \notin Nat, Timed, Passes!Watch,
         NEW p \in Pollers, ThreadStep(p), \A q \in Pollers \ {p} : SameThread(q)
  PROVE  Passes!Next \/ UNCHANGED Passes!vars
  <1>. ThreadsOK
    BY TypeInvParts
  <1>1. /\ UNCHANGED <<now, Born, Here, Purged>>
        /\ [Next]_vars
        /\ \A q \in Pollers \ {p} :
             Listed'[q] = Listed[q] /\ Began'[q] = Began[q] /\ ~Stamps(q)
    BY SourceSteps, NothingArrives, PassesOfOthers DEF Timed
  <1>2. \/ UNCHANGED Seen
        \/ /\ pc[p] = "record" /\ plan[p].job.id = Watched
           /\ txn[p].sub \in OnForm /\ Seen' = Seen \cup {txn[p].sub}
    BY <1>1, SeenByOne
  <1>3. ASSUME pc[p] = "record", plan[p].job.id = Watched
        PROVE  Passing(p) /\ txn[p].sub \in plan[p].listed
    BY <1>3, Places DEF Passing, ClockInv, ShapeOK
  <1>4. /\ Listed \in [Pollers -> SUBSET Subs] /\ Listed' \in [Pollers -> UNION {SUBSET Subs, {Listed'[p]}}]
        /\ DOMAIN Began = Pollers /\ DOMAIN Began' = Pollers
    BY <1>1 DEF Listed, Began, ThreadsOK, Plan
  <1>5. ASSUME NEW listing, Listed'[p] = listing PROVE Listed' = [Listed EXCEPT ![p] = listing]
    BY <1>1, <1>5 DEF Listed
  <1>6. ASSUME NEW when, Began'[p] = when PROVE Began' = [Began EXCEPT ![p] = when]
    BY <1>1, <1>6 DEF Began
  <1>7. ASSUME Passing(p), ~Passing(p)' PROVE Passes!LeavePass(p) /\ Began[p] # Never
    <2>1. Listed'[p] = {} /\ Began'[p] = Never
      BY <1>7 DEF Listed, Began
    <2>2. Began[p] # Never
      BY <1>7 DEF Began, ClockInv
    <2>3. QED
      BY <1>5, <1>6, <2>1, <2>2 DEF Passes!LeavePass
  <1>8. CASE Stamps(p)
    <2>1. /\ pc[p] = "mark" /\ pc'[p] = "jobs" /\ plan[p].job.id = Watched
          /\ jobs[Watched].state = "live" /\ UNCHANGED rows
      BY <1>8 DEF Stamps, MarkPolled, AbortJob, GoTo, ThreadsOK
    <2>2. plan'[p].group = plan[p].group
      <3>1. plan'[p] = [plan[p] EXCEPT !.job = None, !.rest = {}, !.queueKnown = FALSE]
        BY <1>8 DEF Stamps, MarkPolled, AbortJob, ThreadsOK
      <3>2. QED
        BY <3>1 DEF ThreadsOK, Plan
    <2>3. Passing(p) /\ ~Passing(p)'
      BY <2>1, <2>2, Places DEF Passing, ClockInv, ShapeOK
    <2>4. Listed[p] \subseteq Seen
      <3>1. plan[p].listed \subseteq OnForm /\ Listed[p] = plan[p].listed
        BY <2>3 DEF ClockInv, ShapeOK, Listed
      <3>2. \A u \in plan[p].listed : rows[<<Watched, u>>] # NoRow
        BY <2>1, Places DEF PassInv, PassOK, Accounted
      <3>3. QED
        BY <3>1, <3>2 DEF Seen
    <2>5. stampedAt' = now /\ Seen' = Seen
      BY <1>8, <2>1 DEF Timed, Seen
    <2>6. Passes!MarkPolled(p)
      BY <1>1, <1>7, <2>3, <2>4, <2>5 DEF Passes!MarkPolled
    <2>7. QED
      BY <2>6 DEF Passes!Next
  <1>9. CASE ~Stamps(p)
    <2>1. stampedAt' = stampedAt
      BY <1>1, <1>9 DEF Timed
    <2>2. CASE /\ ~Passing(p) /\ Passing(p)' /\ plan'[p].listed = Here
               /\ pc[p] = "groups" /\ pc'[p] = "jobs"
      <3>1. Began[p] = Never /\ Began'[p] = now /\ Listed'[p] = Here
        BY <2>2 DEF Began, Listed, Timed
      <3>2. UNCHANGED Seen
        BY <1>2, <2>2
      <3>3. Passes!List(p)
        BY <1>1, <1>5, <1>6, <2>1, <3>1, <3>2 DEF Passes!List
      <3>4. QED
        BY <3>3 DEF Passes!Next
    <2>3. CASE Passing(p) /\ ~Passing(p)'
      <3>1. Listed[p] = plan[p].listed
        BY <2>3 DEF Listed
      <3>2. UNCHANGED Seen \/ \E u \in Listed[p] : Seen' = Seen \cup {u}
        BY <1>2, <1>3, <3>1
      <3>3. Passes!Abandon(p)
        BY <1>1, <1>7, <2>1, <2>3, <3>2 DEF Passes!Abandon
      <3>4. QED
        BY <3>3 DEF Passes!Next
    <2>4. CASE UNCHANGED <<Listed, Began>>
      <3>1. CASE UNCHANGED Seen
        BY <1>1, <2>1, <2>4, <3>1, NotedAlready DEF ClockInv
      <3>2. ASSUME pc[p] = "record", plan[p].job.id = Watched, txn[p].sub \in OnForm,
                   Seen' = Seen \cup {txn[p].sub}
            PROVE  Passes!Record(p, txn[p].sub)
        <4>1. Passing(p) /\ txn[p].sub \in Listed[p] /\ Began[p] # Never
          BY <1>3, <3>2 DEF Listed, Began, ClockInv
        <4>2. QED
          BY <1>1, <2>1, <2>4, <3>2, <4>1 DEF Passes!Record
      <3>3. QED
        BY <1>2, <3>1, <3>2 DEF Passes!Next
    <2>5. ASSUME \/ ~Passing(p) /\ ~Passing(p)'
                 \/ /\ Passing(p) /\ Passing(p)' /\ plan'[p].listed = plan[p].listed
                    /\ ~(pc[p] = "groups" /\ pc'[p] = "jobs")
          PROVE  UNCHANGED <<Listed, Began>>
      <3>1. Listed'[p] = Listed[p] /\ Began'[p] = Began[p]
        BY <2>5 DEF Listed, Began, Timed
      <3>2. QED
        BY <1>1, <3>1 DEF Listed, Began
    <2>6. QED
      BY <2>2, <2>3, <2>4, <2>5, PassMoves DEF ClockInv
  <1>10. QED
    BY <1>8, <1>9

\* Whatever else happens is of OS2forms, or of no concern to the passes.
LEMMA OtherSteps ==
  ASSUME TypeInv, ClockInv, StaysOnForm, StaysOnForm', Watched \in JobIds,
         Timed, Passes!Watch, UNCHANGED <<pc, plan, txn>>
  PROVE  Passes!Next \/ UNCHANGED Passes!vars
  <1>1. \A p \in Pollers : SameThread(p)
    BY DEF SameThread
  <1>2. UNCHANGED <<Listed, Began>>
    BY <1>1, PassesOfOthers DEF Listed, Began
  <1>3. UNCHANGED <<now, stampedAt>>
    BY <1>1, PassesOfOthers DEF Timed
  <1>4. UNCHANGED Seen
    <2>1. [Next]_vars
      BY DEF Timed
    <2>2. \A p \in Pollers : ~(pc[p] = "record" /\ pc'[p] \notin Holding)
      BY Places DEF Holding
    <2>3. QED
      BY <2>1, <2>2, SeenSteps
  <1>5. CASE UNCHANGED source
    BY <1>2, <1>3, <1>4, <1>5, NothingArrives, NotedAlready DEF ClockInv
  <1>6. source \in [Subs -> {"absent", "present", "purged"}]
    BY DEF TypeInv, TypeOK
  <1>7. ASSUME NEW u \in Subs, Arrive(u) PROVE Passes!Next \/ UNCHANGED Passes!vars
    <2>1. /\ source[u] = "absent" /\ source'[u] = "present"
          /\ \A v \in Subs \ {u} : source'[v] = source[v]
      BY <1>6, <1>7 DEF Arrive
    <2>2. created'[u] = now /\ \A v \in Subs \ {u} : created'[v] = created[v]
      BY <1>6, <1>7, <2>1 DEF Timed, Arrive
    <2>3. UNCHANGED Purged
      BY <2>1 DEF Purged, OnForm
    <2>4. CASE u \in OnForm
      <3>1. Here' = Here \cup {u} /\ u \notin Here \cup Purged
        BY <2>1, <2>4 DEF Here, Listing, Purged, OnForm
      <3>2. Born' = [Born EXCEPT ![u] = now]
        BY <2>2, <2>4 DEF Born, OnForm
      <3>3. Passes!Submit(u)
        BY <1>2, <1>3, <1>4, <2>3, <3>1, <3>2 DEF Passes!Submit
      <3>4. QED
        BY <2>4, <3>3 DEF Passes!Next
    <2>5. CASE u \notin OnForm
      <3>1. UNCHANGED Here
        BY <2>1, <2>5 DEF Here, Listing, OnForm
      <3>2. UNCHANGED Born
        BY <2>2, <2>5 DEF Born, OnForm
      <3>3. QED
        BY <1>2, <1>3, <1>4, <2>3, <3>1, <3>2, NotedAlready DEF ClockInv
    <2>6. QED
      BY <2>4, <2>5
  <1>8. ASSUME NEW u \in Subs, Purge(u) PROVE Passes!Next \/ UNCHANGED Passes!vars
    <2>1. /\ source[u] = "present" /\ source'[u] = "purged" /\ now >= created[u] + Retention
          /\ \A v \in Subs \ {u} : source'[v] = source[v]
      BY <1>6, <1>8 DEF Purge, Timed
    <2>2. \A v \in Subs : created'[v] = created[v]
      BY <1>6, <2>1 DEF Timed, Arrive
    <2>3. UNCHANGED Born
      BY <2>2 DEF Born, OnForm
    <2>4. CASE u \in OnForm
      <3>1. Here' = Here \ {u} /\ Purged' = Purged \cup {u} /\ u \in Here
        BY <2>1, <2>4 DEF Here, Listing, Purged, OnForm
      <3>2. Passes!Purge(u)
        BY <1>2, <1>3, <1>4, <2>1, <2>3, <2>4, <3>1 DEF Passes!Purge, Born
      <3>3. QED
        BY <2>4, <3>2 DEF Passes!Next
    <2>5. CASE u \notin OnForm
      <3>1. UNCHANGED <<Here, Purged>>
        BY <2>1, <2>5 DEF Here, Listing, Purged, OnForm
      <3>2. QED
        BY <1>2, <1>3, <1>4, <2>3, <3>1, NotedAlready DEF ClockInv
    <2>6. QED
      BY <2>4, <2>5
  <1>9. QED
    BY <1>5, <1>7, <1>8, SourceSteps DEF Timed

LEMMA TickPasses ==
  ASSUME ClockInv, Never \notin Nat, Tick, Passes!Watch
  PROVE  Passes!Tick /\ UNCHANGED vars
  <1>1. UNCHANGED <<vars, created, listedAt, stampedAt>> /\ now < MaxTime /\ now' = now + 1
    BY DEF Tick
  <1>2. UNCHANGED <<Born, Here, Purged, Seen>>
    BY <1>1 DEF vars, Born, Here, Listing, Purged, Seen
  <1>3. \A p \in Pollers : Passing(p)' <=> Passing(p)
    BY <1>1 DEF vars, Passing
  <1>4. UNCHANGED <<Listed, Began>>
    BY <1>1, <1>3 DEF vars, Listed, Began
  <1>5. \A p \in Pollers : Began[p] # Never => now < Began[p] + MaxPass
    BY DEF Tick, Began
  <1>6. QED
    BY <1>1, <1>2, <1>4, <1>5 DEF Passes!Tick

LEMMA ClockStep ==
  ASSUME TypeInv, PassInv, ClockInv, StaysOnForm, StaysOnForm', Watched \in JobIds,
         Never \notin Nat, [ClockNext]_<<vars, clock>>
  PROVE  ClockInv' /\ [Passes!Next]_(Passes!vars)
  <1>1. CASE UNCHANGED <<vars, clock>>
    <2>1. \A p \in Pollers : Passing(p)' <=> Passing(p)
      BY <1>1 DEF vars, Passing
    <2>2. UNCHANGED <<now, Born, Here, Purged, Seen, Listed, Began, stampedAt, signalled>>
      BY <1>1, <2>1 DEF vars, clock, Born, Here, Listing, Purged, Seen, Listed, Began
    <2>3. \A p \in Pollers : ShapeOK(p)'
      BY <1>1, ShapeStep DEF ClockInv, vars
    <2>4. Noted'
      BY <2>2 DEF ClockInv, Noted, Passes!Stale
    <2>5. QED
      BY <1>1, <2>2, <2>3, <2>4 DEF ClockInv, clock, Passes!vars
  <1>2. CASE ClockNext
    <2>1. Passes!Watch /\ (Tick \/ Timed)
      BY <1>2 DEF ClockNext
    <2>2. [Next]_vars
      BY <2>1 DEF Tick, Timed
    <2>3. \A p \in Pollers : ShapeOK(p)'
      BY <2>2, ShapeStep DEF ClockInv
    <2>4. now' \in Nat /\ listedAt' \in [Pollers -> Nat]
      BY <2>1 DEF Tick, Timed, ClockInv
    <2>5. Noted'
      BY <2>1 DEF Passes!Watch, Noted
    <2>6. ASSUME Tick PROVE [Passes!Next]_(Passes!vars)
      BY <2>1, <2>6, TickPasses DEF Passes!Next
    <2>7. ASSUME Timed PROVE [Passes!Next]_(Passes!vars)
      BY <2>1, <2>2, <2>7, OneThread, ThreadPasses, OtherSteps
    <2>8. QED
      BY <2>1, <2>3, <2>4, <2>5, <2>6, <2>7 DEF ClockInv
  <1>3. QED
    BY <1>1, <1>2

LEMMA ClockStarts ==
  ASSUME Watched \in JobIds
  PROVE  ClockInit => ClockInv /\ Passes!Init
  <1>. SUFFICES ASSUME ClockInit PROVE ClockInv /\ Passes!Init
    OBVIOUS
  <1>1. \A p \in Pollers : pc[p] = "boot" /\ plan[p] = EmptyPlan
    BY DEF ClockInit, Init
  <1>2. \A p \in Pollers : ~Passing(p)
    BY <1>1, Places DEF Passing, EmptyPlan
  <1>3. \A p \in Pollers : ShapeOK(p)
    BY <1>1, <1>2, Places DEF ShapeOK, EmptyPlan, Working
  <1>4. Here = {} /\ Purged = {}
    BY DEF ClockInit, Here, Listing, Purged, OnForm
  <1>5. Seen = {}
    BY DEF ClockInit, Init, Seen, Keys, OnForm
  <1>6. ClockInv
    BY <1>3, <1>4 DEF ClockInit, ClockInv, Noted
  <1>7. QED
    BY <1>2, <1>4, <1>5, <1>6 DEF ClockInit, Passes!Init, Born, Listed, Began, OnForm

\* "A job whose timestamp is fresher than the retention period therefore cannot
\* have lost one" is said of passes; those of the threads, with whatever ends
\* or overtakes them, are such passes, as long as the job stays on its form.
THEOREM PassesAreThoseOfFreshness ==
  ASSUME Watched \in JobIds, Never \notin Nat
  PROVE  ClockSpec /\ []StaysOnForm => PassesAreFresh
  <1>1. ClockInit => Init /\ ClockInv /\ Passes!Init
    BY ClockStarts DEF ClockInit
  <1>2. [ClockNext]_<<vars, clock>> => [Next]_vars
    BY DEF ClockNext, Tick, Timed, vars
  <1>3. ClockSpec => Spec
    BY <1>1, <1>2, PTL DEF ClockSpec, Spec
  <1>4. TypeInv /\ PassInv /\ ClockInv /\ StaysOnForm /\ StaysOnForm' /\ [ClockNext]_<<vars, clock>>
          => ClockInv' /\ [Passes!Next]_(Passes!vars)
    BY ClockStep
  <1>5. QED
    BY <1>1, <1>3, <1>4, TypeInvariant, PassInvariant, PTL DEF ClockSpec, PassesAreFresh, Passes!Spec

\* What is proved of Freshness holds of the service, its durations being numbers.
Fresh == INSTANCE FreshnessProofs WITH
  Submissions <- OnForm, Threads <- Pollers, created <- Born, form <- Here, gone <- Purged,
  rows <- Seen, listed <- Listed, began <- Began, stamp <- stampedAt

Durations == Retention \in Nat /\ Alert \in Nat /\ MaxPass \in Nat /\ MaxTime \in Nat

\* "Cannot have lost one", of the service: with an alarm that leaves room for a
\* whole pass, a submission of the job that OS2forms purges before it has a row
\* was there while the job's stamp was too old, or a pass has it in hand.
THEOREM LossOfTheJobIsSignalled ==
  ASSUME Watched \in JobIds, Never \notin Nat, Durations, Alert + MaxPass <= Retention
  PROVE  ClockSpec /\ []StaysOnForm => []Passes!LossIsSignalled
  <1>1. Fresh!Spec => []Fresh!LossIsSignalled
    BY Fresh!LossRaisesTheAlarm DEF Fresh!Margin, Fresh!FreshnessAssumption, Durations
  <1>2. Passes!Init => Fresh!Init
    BY DEF Passes!Init, Fresh!Init
  <1>3. [Passes!Next]_(Passes!vars) => [Fresh!Next]_(Fresh!vars)
    BY
    DEF Passes!Next, Fresh!Next, Passes!vars, Fresh!vars, Passes!Tick, Fresh!Tick,
        Passes!Submit, Fresh!Submit, Passes!Purge, Fresh!Purge, Passes!List, Fresh!List,
        Passes!Record, Fresh!Record, Passes!MarkPolled, Fresh!MarkPolled, Passes!Abandon,
        Fresh!Abandon, Passes!LeavePass, Fresh!LeavePass, Passes!Watch, Fresh!Watch,
        Passes!Stale, Fresh!Stale
  <1>4. Fresh!LossIsSignalled => Passes!LossIsSignalled
    BY DEF Fresh!LossIsSignalled, Passes!LossIsSignalled
  <1>5. QED
    BY <1>1, <1>2, <1>3, <1>4, PassesAreThoseOfFreshness, PTL DEF PassesAreFresh, Passes!Spec, Fresh!Spec
===============================================================================
