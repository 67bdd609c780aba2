------------------------------- MODULE JobRow -------------------------------
(***************************************************************************)
(* One row of the interaction_jobs table and the writes the repository     *)
(* makes to it.                                                            *)
(*                                                                         *)
(* A worker never writes the row it has in memory as a whole.  SQLAlchemy  *)
(* compares every column with the value the session LOADED and sends an    *)
(* UPDATE of the columns that changed, so a write is an operator of two    *)
(* rows: db, the row the database holds when the UPDATE runs, and copy,    *)
(* the row the session loaded before.  When nobody wrote in between the    *)
(* two are equal and the operators reduce to what the methods say.         *)
(*                                                                         *)
(* Timestamps are abstracted to what the code compares them with:          *)
(*   lockedAt  NULL, or a stamp younger or older than the lock timeout     *)
(*   runAfter  in the past (due) or in the future (later)                  *)
(* A fresh timestamp differs from every earlier one, so a method that      *)
(* stamps a column always writes it.  locked_by is left out: the code      *)
(* writes it and never reads it.                                           *)
(***************************************************************************)
EXTENDS Naturals

CONSTANT MaxAttempts        \* max_attempts of a job

ASSUME MaxAttemptsAssumption == MaxAttempts \in Nat \ {0}

\* JobStatus; FAILED is declared by the code and never assigned.
Status == {"PENDING", "RUNNING", "DEFERRED", "SUCCEEDED", "DEAD_LETTERED"}

Terminal == {"SUCCEEDED", "DEAD_LETTERED"}

Row == [status   : Status,
        attempts : Nat,
        lockedAt : {"null", "fresh", "expired"},
        runAfter : {"due", "later"}]

\* The row create_if_absent inserts: PENDING, never tried, due at once.
NewRow == [status |-> "PENDING", attempts |-> 0, lockedAt |-> "null", runAfter |-> "due"]

\* Mutants: the claim query without its run_after filter, and one that takes
\* every row that nobody is running.
ReadyEarly(row) == row.status \in {"PENDING", "DEFERRED"}
ReadyUnlessRunning(row) == row.status # "RUNNING" /\ row.runAfter = "due"

\* The WHERE clause of claim_ready_jobs, its job_type filter aside.
Ready(row) == row.status \in {"PENDING", "DEFERRED"} /\ row.runAfter = "due"

\* Mutant: recovery without the age of the lock.
StaleAtOnce(row) == row.status = "RUNNING"

\* The WHERE clause of recover_stale_running_jobs.
Stale(row) == row.status = "RUNNING" /\ row.lockedAt = "expired"

\* The UPDATE of a flush: the columns in which new differs from copy.
Flush(db, copy, new) ==
  [status   |-> IF new.status   = copy.status   THEN db.status   ELSE new.status,
   attempts |-> IF new.attempts = copy.attempts THEN db.attempts ELSE new.attempts,
   lockedAt |-> IF new.lockedAt = copy.lockedAt THEN db.lockedAt ELSE new.lockedAt,
   runAfter |-> IF new.runAfter = copy.runAfter THEN db.runAfter ELSE new.runAfter]

Freed(copy, status) == [copy EXCEPT !.status = status, !.lockedAt = "null"]

Recovered(copy) == [Freed(copy, "DEFERRED") EXCEPT !.runAfter = "due"]

WriteRecovered(db, copy) ==
  [Flush(db, copy, Recovered(copy)) EXCEPT !.runAfter = "due"]

\* Mutant: a claim that does not count the attempt.
ClaimedUncounted(copy) == [copy EXCEPT !.status = "RUNNING", !.lockedAt = "fresh"]

Claimed(copy) ==
  [status   |-> "RUNNING", attempts |-> copy.attempts + 1,
   lockedAt |-> "fresh",   runAfter |-> copy.runAfter]

WriteClaimed(db, copy) ==
  [Flush(db, copy, Claimed(copy)) EXCEPT !.lockedAt = "fresh"]

WriteSucceeded(db, copy) == Flush(db, copy, Freed(copy, "SUCCEEDED"))

\* Mutant: a deferral that frees the lock and leaves the status.
WriteDeferredRunning(db, copy) ==
  [Flush(db, copy, Freed(copy, copy.status)) EXCEPT !.runAfter = "later"]

WriteDeferred(db, copy) ==
  [Flush(db, copy, Freed(copy, "DEFERRED")) EXCEPT !.runAfter = "later"]

\* Mutant: FAILED, the status the enum declares and no query knows.
WriteFailed(db, copy) == Flush(db, copy, Freed(copy, "FAILED"))

WriteDeadLettered(db, copy) == Flush(db, copy, Freed(copy, "DEAD_LETTERED"))

\* Mutants: one attempt too many, one too few.
ShouldRetryOnceMore(copy) == copy.attempts <= MaxAttempts
ShouldRetryOnceLess(copy) == copy.attempts + 1 < MaxAttempts

\* ExponentialBackoffPolicy.decide: may a job with this many attempts run again?
ShouldRetry(copy) == copy.attempts < MaxAttempts
=============================================================================
