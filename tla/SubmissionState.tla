---------------------------- MODULE SubmissionState ----------------------------
(***************************************************************************)
(* The state machine of one row of SubmissionPollStatus: what              *)
(* StateRepository (src/app/state.py) does to a row it has loaded, and     *)
(* what reaches the database when the session that changed it commits.     *)
(* A row is keyed by (job, submission); its free-text columns              *)
(* (last_error, destination_reference) and its timestamps are left out,    *)
(* except for whether submission_serial and delivered_at are filled in.    *)
(***************************************************************************)
EXTENDS Integers

CONSTANT MaxAttempts            \* settings.max_attempts

ASSUME MaxAttemptsAssumption == MaxAttempts \in Int

Statuses == {"new", "delivered", "failed", "dead_letter"}

\* Mutants: one terminal state too few, one too many.
TerminalStates_DeliveredOnly == {"delivered"}

TerminalStates_WithFailed == {"delivered", "dead_letter", "failed"}

\* The poll loop never processes a row in one of these again.
TerminalStates == {"delivered", "dead_letter"}

Row == [status : Statuses, attempts : Nat, serial : BOOLEAN, deliveredAt : BOOLEAN]

\* What a read of an absent key returns.
NoRow == [status |-> "none", attempts |-> 0, serial |-> FALSE, deliveredAt |-> FALSE]

RowOrNone == Row \cup {NoRow}

NewRow(known) ==
  [status |-> "new", attempts |-> 0, serial |-> known, deliveredAt |-> FALSE]

-------------------------------------------------------------------------------
(* Changes to a loaded row.                                                *)

\* known: the listing gave this submission a numeric serial.
BackfillSerial(row, known) == [row EXCEPT !.serial = @ \/ known]

MarkDelivered(row) == [row EXCEPT !.status = "delivered", !.deliveredAt = TRUE]

\* Mutant: the budget may be exceeded by one.
MarkFailure_OffByOne(row) ==
  [row EXCEPT !.attempts = @ + 1,
              !.status = IF row.attempts + 1 > MaxAttempts THEN "dead_letter"
                                                            ELSE "failed"]

MarkFailure(row) ==
  [row EXCEPT !.attempts = @ + 1,
              !.status = IF row.attempts + 1 >= MaxAttempts THEN "dead_letter"
                                                             ELSE "failed"]

MarkDeadLetter(row) == [row EXCEPT !.attempts = @ + 1, !.status = "dead_letter"]

\* Whatever the row's status: a delivered row is reset like any other.
ResetForRetry(row) == [row EXCEPT !.status = "new", !.attempts = 0]

-------------------------------------------------------------------------------
(* The UPDATE a session emits for a row it loaded as `old` and holds as    *)
(* `new` names only the columns whose value changed, so it is merged       *)
(* column by column into whatever the database holds by then. delivered_at *)
(* is changed by mark_delivered only, and then always, the time being new. *)

Column(db, old, new) == IF new # old THEN new ELSE db

\* Mutant: the whole row is written.
WriteBack_WholeRow(db, old, new) == new

WriteBack(db, old, new) ==
  [status      |-> Column(db.status, old.status, new.status),
   attempts    |-> Column(db.attempts, old.attempts, new.attempts),
   serial      |-> Column(db.serial, old.serial, new.serial),
   deliveredAt |-> db.deliveredAt \/ new.status = "delivered"]
===============================================================================
