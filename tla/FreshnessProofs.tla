---------------------------- MODULE FreshnessProofs ----------------------------
(***************************************************************************)
(* How old the stamp may grow before it stops being a promise: with an     *)
(* alarm that leaves room for a whole pass within the retention period, a  *)
(* submission that is lost has raised it.                                  *)
(***************************************************************************)
EXTENDS Freshness, TLAPS

\* Room for a pass.
Margin == Alert + MaxPass <= Retention

\* What a pass does not have was made after its listing, and what has no row
\* was made at most a pass before the stamp.
Bounds ==
  /\ \A t \in Threads : began[t] # Never => began[t] <= now /\ now <= began[t] + MaxPass
  /\ \A t \in Threads, s \in form :
       began[t] # Never /\ s \notin listed[t] => began[t] <= created[s]
  /\ \A s \in form \ rows : stamp # Never => stamp <= created[s] + MaxPass

\* The watch: whoever is there has been seen by it if the stamp is stale.
Watched == Stale => form \subseteq signalled

Inv == TypeOK /\ Bounds /\ Watched /\ gone \ rows \subseteq signalled

LEMMA TypesStep ==
  ASSUME TypeOK, [Next]_vars
  PROVE  TypeOK'
  <1>. USE FreshnessAssumption
  <1>0. ASSUME Watch, form' \subseteq Submissions PROVE signalled' \in SUBSET Submissions
    BY <1>0 DEF Watch, TypeOK
  <1>1. CASE Tick
    <2>1. stamp \in 0 .. now + 1 \cup {Never}
      BY DEF TypeOK
    <2>2. QED
      BY <1>0, <1>1, <2>1 DEF Tick, TypeOK
  <1>2. ASSUME NEW s \in Submissions, Submit(s) PROVE TypeOK'
    BY <1>0, <1>2 DEF Submit, TypeOK
  <1>3. ASSUME NEW s \in Submissions, Purge(s) PROVE TypeOK'
    BY <1>0, <1>3 DEF Purge, TypeOK
  <1>4. ASSUME NEW t \in Threads, List(t) PROVE TypeOK'
    BY <1>0, <1>4 DEF List, TypeOK
  <1>5. ASSUME NEW t \in Threads, NEW s \in Submissions, Record(t, s) PROVE TypeOK'
    BY <1>0, <1>5 DEF Record, TypeOK
  <1>6. ASSUME NEW t \in Threads, MarkPolled(t) PROVE TypeOK'
    BY <1>0, <1>6 DEF MarkPolled, LeavePass, TypeOK
  <1>7. ASSUME NEW t \in Threads, Abandon(t) PROVE TypeOK'
    <2>1. rows' \in SUBSET Submissions
      BY <1>7 DEF Abandon, TypeOK
    <2>2. QED
      BY <1>0, <1>7, <2>1 DEF Abandon, LeavePass, TypeOK
  <1>8. CASE UNCHANGED vars
    BY <1>8 DEF vars, TypeOK
  <1>9. QED
    BY <1>1, <1>2, <1>3, <1>4, <1>5, <1>6, <1>7, <1>8 DEF Next

\* The stamp is never in the future, and every history has its type.
THEOREM FreshnessTypes == Spec => []TypeOK
  <1>1. Init => TypeOK
    BY FreshnessAssumption DEF Init, TypeOK
  <1>2. QED
    BY <1>1, TypesStep, PTL DEF Spec

LEMMA BoundsStep ==
  ASSUME TypeOK, Bounds, [Next]_vars
  PROVE  Bounds'
  <1>. USE FreshnessAssumption
  <1>1. CASE Tick
    <2>1. \A t \in Threads : began[t] # Never =>
            began[t] \in Nat /\ began[t] <= now + 1 /\ now + 1 <= began[t] + MaxPass
      BY <1>1 DEF Tick, Bounds, TypeOK
    <2>2. QED
      BY <1>1, <2>1 DEF Tick, Bounds
  <1>2. ASSUME NEW s \in Submissions, Submit(s) PROVE Bounds'
    <2>1. /\ \A r \in form : created'[r] = created[r] /\ r # s
          /\ created'[s] = now /\ form' = form \cup {s}
          /\ UNCHANGED <<now, rows, listed, began, stamp>>
      BY <1>2 DEF Submit, TypeOK
    <2>2. stamp # Never => stamp <= now + MaxPass
      BY DEF TypeOK
    <2>3. QED
      BY <2>1, <2>2 DEF Bounds
  <1>3. ASSUME NEW s \in Submissions, Purge(s) PROVE Bounds'
    BY <1>3 DEF Purge, Bounds
  <1>4. ASSUME NEW t \in Threads, List(t) PROVE Bounds'
    <2>1. /\ \A u \in Threads \ {t} : began'[u] = began[u] /\ listed'[u] = listed[u]
          /\ began'[t] = now /\ listed'[t] = form
          /\ UNCHANGED <<now, created, form, rows, stamp>>
      BY <1>4 DEF List, TypeOK
    <2>2. now <= now /\ now <= now + MaxPass
      BY DEF TypeOK
    <2>3. QED
      BY <2>1, <2>2 DEF Bounds
  <1>5. ASSUME NEW t \in Threads, NEW s \in Submissions, Record(t, s) PROVE Bounds'
    BY <1>5 DEF Record, Bounds
  <1>6. ASSUME NEW t \in Threads, LeavePass(t), UNCHANGED <<now, created, form>>
        PROVE  /\ \A u \in Threads : began'[u] # Never => began'[u] <= now' /\ now' <= began'[u] + MaxPass
               /\ \A u \in Threads, s \in form' :
                    began'[u] # Never /\ s \notin listed'[u] => began'[u] <= created'[s]
    <2>1. /\ \A u \in Threads \ {t} : began'[u] = began[u] /\ listed'[u] = listed[u]
          /\ began'[t] = Never
      BY <1>6 DEF LeavePass, TypeOK
    <2>2. QED
      BY <1>6, <2>1 DEF Bounds
  <1>7. ASSUME NEW t \in Threads, MarkPolled(t) PROVE Bounds'
    <2>1. ASSUME NEW s \in form \ rows PROVE now <= created[s] + MaxPass
      <3>1. began[t] # Never /\ s \notin listed[t] /\ s \in form
        BY <1>7 DEF MarkPolled
      <3>2. began[t] <= created[s] /\ now <= began[t] + MaxPass
        BY <3>1 DEF Bounds
      <3>3. began[t] \in Nat /\ created[s] \in Nat /\ now \in Nat
        BY <3>1 DEF TypeOK
      <3>4. QED
        BY <3>2, <3>3
    <2>2. QED
      BY <1>6, <1>7, <2>1 DEF MarkPolled, Bounds
  <1>8. ASSUME NEW t \in Threads, Abandon(t) PROVE Bounds'
    <2>1. rows \subseteq rows' /\ UNCHANGED <<now, created, form, stamp>> /\ LeavePass(t)
      BY <1>8 DEF Abandon
    <2>2. QED
      BY <1>6, <2>1 DEF Bounds
  <1>9. CASE UNCHANGED vars
    BY <1>9 DEF vars, Bounds
  <1>10. QED
    BY <1>1, <1>2, <1>3, <1>4, <1>5, <1>7, <1>8, <1>9 DEF Next

LEMMA WatchedStep ==
  ASSUME TypeOK, Bounds, Watched, [Next]_vars
  PROVE  Watched' /\ signalled \subseteq signalled'
  <1>1. ASSUME Watch PROVE Watched' /\ signalled \subseteq signalled'
    BY <1>1 DEF Watch, Watched
  <1>2. CASE UNCHANGED vars
    BY <1>2 DEF vars, Watched, Stale
  <1>3. QED
    BY <1>1, <1>2 DEF Next, Tick, Submit, Purge, List, Record, MarkPolled, Abandon

LEMMA PurgedUnseen ==
  ASSUME Margin, TypeOK, Bounds, Watched, NEW s \in Submissions, Purge(s), s \notin rows
  PROVE  s \in signalled
  <1>. USE FreshnessAssumption
  <1>1. s \in form /\ now >= created[s] + Retention
    BY DEF Purge
  <1>2. stamp # Never => stamp <= created[s] + MaxPass
    BY <1>1 DEF Bounds
  <1>3. created[s] \in Nat /\ now \in Nat /\ (stamp # Never => stamp \in Nat)
    BY DEF TypeOK
  <1>4. stamp # Never => now - stamp >= Alert
    BY <1>1, <1>2, <1>3 DEF Margin
  <1>5. QED
    BY <1>1, <1>4 DEF Watched, Stale

\* While an alarm leaves room for a pass, no submission is lost in silence.
THEOREM LossRaisesTheAlarm ==
  ASSUME Margin
  PROVE  Spec => []LossIsSignalled
  <1>1. Init => Inv
    <2>1. Init => TypeOK
      BY FreshnessAssumption DEF Init, TypeOK
    <2>2. QED
      BY <2>1 DEF Init, Inv, Bounds, Watched
  <1>2. Inv /\ [Next]_vars => Inv'
    <2>. SUFFICES ASSUME Inv, [Next]_vars PROVE Inv'
      OBVIOUS
    <2>1. TypeOK' /\ Bounds' /\ Watched' /\ signalled \subseteq signalled'
      BY TypesStep, BoundsStep, WatchedStep DEF Inv
    <2>2. rows \subseteq rows'
      BY DEF Next, Tick, Submit, Purge, List, Record, MarkPolled, Abandon, vars
    <2>3. ASSUME NEW s \in Submissions, Purge(s) PROVE gone' \ rows' \subseteq signalled'
      BY <2>1, <2>3, PurgedUnseen DEF Inv, Purge
    <2>4. ASSUME UNCHANGED gone PROVE gone' \ rows' \subseteq signalled'
      BY <2>1, <2>2, <2>4 DEF Inv
    <2>5. QED
      BY <2>1, <2>3, <2>4 DEF Inv, Next, Tick, Submit, List, Record, MarkPolled, Abandon, vars
  <1>3. Inv => LossIsSignalled
    BY DEF Inv, LossIsSignalled
  <1>4. QED
    BY <1>1, <1>2, <1>3, PTL DEF Spec
===============================================================================
