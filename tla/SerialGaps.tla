------------------------------ MODULE SerialGaps ------------------------------
(***************************************************************************)
(* Backward reconciliation of one job: which serials between the lowest    *)
(* and the highest on record are missing? Computed twice, by an aggregate  *)
(* at the end of every pass and by a walk with a limit for the API         *)
(* (src/app/state.py), while the poll thread records and backfills rows.   *)
(***************************************************************************)
EXTENDS Integers, Sequences, FiniteSetsExt, Functions

CONSTANTS
  Subs,      \* submissions
  Serials,   \* the serials they may carry
  Limits,    \* values of the limit parameter
  Unknown,   \* a row without a serial
  Absent     \* no row

ASSUME SerialGapsAssumption ==
  /\ IsFiniteSet(Subs)
  /\ Serials \subseteq Int
  /\ Limits \subseteq Nat \ {0}
  /\ Unknown \notin Serials /\ Absent \notin Serials

VARIABLES
  serial,    \* submission_serial of each row of the job
  pc,        \* the request, between its queries and the steps of its walk
  limit,
  unknown,   \* the rows its first query counts
  list,      \* the serials its second query returns
  at,        \* where the walk has got to in the list
  total, missing

vars == <<serial, pc, limit, unknown, list, at, total, missing>>

TypeOK ==
  /\ serial \in [Subs -> Serials \cup {Unknown, Absent}]
  /\ pc \in {"idle", "count", "read", "walk", "done"}
  /\ limit \in Limits \cup {0}
  /\ unknown \subseteq Subs
  /\ list \in Seq(Serials)
  /\ at \in Nat /\ total \in Nat
  /\ missing \in Seq(Int)

Init ==
  /\ serial = [u \in Subs |-> Absent]
  /\ pc = "idle" /\ limit = 0
  /\ unknown = {} /\ list = <<>>
  /\ at = 0 /\ total = 0 /\ missing = <<>>

Placed == {u \in Subs : serial[u] \in Serials}

OnRecord == {serial[u] : u \in Placed}

\* Mutant: the fence and the posts.
SerialGapCount_OffByOne(S) ==
  IF S = {} THEN 0 ELSE (Max(S) - Min(S)) - Cardinality(S)

\* The aggregate: min, max and the number of distinct serials.
SerialGapCount(S) ==
  IF S = {} THEN 0 ELSE (Max(S) - Min(S) + 1) - Cardinality(S)

\* Mutant: the query does not order its rows.
Ascending_Unordered(S) ==
  {s \in [1..Cardinality(S) -> S] : Range(s) = S}

\* SELECT DISTINCT ... ORDER BY: the members of S, each once, ascending.
Ascending(S) ==
  {s \in [1..Cardinality(S) -> S] :
     /\ Range(s) = S
     /\ \A i, j \in 1..Cardinality(S) : i < j => s[i] < s[j]}

-------------------------------------------------------------------------------
(* The poll thread's writes to the job's rows.                             *)

\* get_or_create, with or without a numeric serial.
Record(u) ==
  /\ serial[u] = Absent
  /\ \E n \in Serials \cup {Unknown} : serial' = [serial EXCEPT ![u] = n]
  /\ UNCHANGED <<pc, limit, unknown, list, at, total, missing>>

BackfillSerial(u) ==
  /\ serial[u] = Unknown
  /\ \E n \in Serials : serial' = [serial EXCEPT ![u] = n]
  /\ UNCHANGED <<pc, limit, unknown, list, at, total, missing>>

\* The job's rows go with the job.
DeleteJob ==
  /\ serial' = [u \in Subs |-> Absent]
  /\ UNCHANGED <<pc, limit, unknown, list, at, total, missing>>

-------------------------------------------------------------------------------
(* GET /polling/jobs/{id}/gaps: serial_reconciliation and walk_missing.    *)

Ask ==
  /\ pc \in {"idle", "done"}
  /\ pc' = "count" /\ limit' \in Limits
  /\ unknown' = {} /\ list' = <<>> /\ at' = 0 /\ total' = 0 /\ missing' = <<>>
  /\ UNCHANGED serial

CountUnknown ==
  /\ pc = "count"
  /\ unknown' = {u \in Subs : serial[u] = Unknown}
  /\ pc' = "read"
  /\ UNCHANGED <<serial, limit, list, at, total, missing>>

\* A query of its own: what was committed since the first is seen.
ReadSerials ==
  /\ pc = "read"
  /\ list' \in Ascending(OnRecord)
  /\ at' = 1
  /\ pc' = IF list' = <<>> THEN "done" ELSE "walk"
  /\ UNCHANGED <<serial, limit, unknown, total, missing>>

\* Mutant: the room left is not taken into account.
Room_Whole == limit

Room == limit - Len(missing)

\* The holes between two neighbours that still fit in the list.
Listed(previous, current) ==
  LET last == Min({current - 1, previous + Room})
  IN  [k \in 1..(last - previous) |-> previous + k]

WalkPair ==
  /\ pc = "walk" /\ at < Len(list)
  /\ LET previous == list[at]
         current  == list[at + 1]
     IN  /\ total' = total + (current - previous - 1)
         /\ missing' = IF Room > 0 THEN missing \o Listed(previous, current) ELSE missing
  /\ at' = at + 1
  /\ UNCHANGED <<serial, pc, limit, unknown, list>>

WalkEnds ==
  /\ pc = "walk" /\ at = Len(list)
  /\ pc' = "done"
  /\ UNCHANGED <<serial, limit, unknown, list, at, total, missing>>

-------------------------------------------------------------------------------
Next ==
  \/ \E u \in Subs : Record(u) \/ BackfillSerial(u)
  \/ DeleteJob
  \/ Ask \/ CountUnknown \/ ReadSerials \/ WalkPair \/ WalkEnds

Spec == Init /\ [][Next]_vars

-------------------------------------------------------------------------------
\* What is missing, by definition.
Holes(S) == IF S = {} THEN {} ELSE (Min(S)..Max(S)) \ S

\* The walk and the aggregate agree on how many serials are missing, for the
\* serials the walk was given, whatever the limit.
TotalsAgree == pc = "done" => total = SerialGapCount(Range(list))

\* The report lists the lowest of the missing serials in order, as many as the
\* limit allows, and counts them all: no hole is skipped at the limit, none is
\* listed twice, and a list that is cut short is known to be.
ReportIsExact ==
  pc = "done" =>
    LET holes == Holes(Range(list))
    IN  /\ total = Cardinality(holes)
        /\ Len(missing) = Min({limit, total})
        /\ Range(missing) \subseteq holes
        /\ \A i \in 1..Len(missing) :
             \A n \in holes : n < missing[i] => \E j \in 1..(i - 1) : missing[j] = n

\* "unknown_serial counts rows the analysis cannot place at all": no row is both
\* counted as unknown and placed by the same report.
UnknownIsUnplaced == [][ReadSerials => unknown \cap Placed = {}]_vars
===============================================================================
