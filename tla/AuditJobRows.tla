---------------------------- MODULE AuditJobRows ----------------------------
(***************************************************************************)
(* One row of the table audit_jobs (app/models/audit_job.py), and what the *)
(* four service functions of app/services/audit/audit_job_service.py do to *)
(* the ORM object they hold of it.                                         *)
(*                                                                         *)
(* The timestamps started_at and completed_at and the text error are       *)
(* abstracted to "is it set?"; docs stands for both counters, docs_scanned *)
(* and alerts_created, which one call increments together.                 *)
(***************************************************************************)
EXTENDS Naturals

\* "none": no such row yet (or, for an ORM object: not loaded, or expired).
Status == {"none", "pending", "running", "completed", "failed"}

Row == [status : Status, started : BOOLEAN, finished : BOOLEAN,
        error : BOOLEAN, docs : Nat]

NoRow == [status |-> "none", started |-> FALSE, finished |-> FALSE,
          error |-> FALSE, docs |-> 0]

\* Mutant: a status the table's CHECK constraint does not know.
PendingRowQueued == [status |-> "queued", started |-> FALSE, finished |-> FALSE,
                     error |-> FALSE, docs |-> 0]

\* create_audit_job
PendingRow == [status |-> "pending", started |-> FALSE, finished |-> FALSE,
               error |-> FALSE, docs |-> 0]

Immutable == {"completed"}            \* IMMUTABLE_AUDIT_STATES
Terminal == {"completed", "failed"}

(***************************************************************************)
(* The attribute assignments of each function, on the object o it read.    *)
(***************************************************************************)
\* Mutant: a resumed job keeps the completion time and error of its failure.
RunningKeepsOutcome(o) == [o EXCEPT !.status = "running", !.started = TRUE]

Running(o) ==                          \* mark_audit_job_running
  [o EXCEPT !.status = "running", !.started = TRUE,
            !.finished = IF o.status = "failed" THEN FALSE ELSE @,
            !.error = IF o.status = "failed" THEN FALSE ELSE @]

\* Mutant: the counter is assigned instead of increased.
IncrementedAssigns(o, delta) ==
  [o EXCEPT !.status = "running", !.started = TRUE, !.finished = FALSE,
            !.error = FALSE, !.docs = delta]

\* Mutant: the documents are counted for the sync and again for the scan.
IncrementedTwice(o, delta) ==
  [o EXCEPT !.status = "running", !.started = TRUE, !.finished = FALSE,
            !.error = FALSE, !.docs = o.docs + delta + delta]

Incremented(o, delta) ==               \* increment_audit_job_progress
  [o EXCEPT !.status = "running", !.started = TRUE, !.finished = FALSE,
            !.error = FALSE, !.docs = o.docs + delta]

Completed(o) ==                        \* mark_audit_job_completed
  [o EXCEPT !.status = "completed", !.started = TRUE, !.finished = TRUE,
            !.error = FALSE]

Failed(o) ==                           \* mark_audit_job_failed
  [o EXCEPT !.status = "failed", !.started = TRUE, !.finished = TRUE,
            !.error = TRUE]

(***************************************************************************)
(* The guards of the same functions, on the same object: when they write,  *)
(* and when they return it as it is.  When neither holds they raise        *)
(* AuditJobStateError.                                                     *)
(***************************************************************************)
CanRun(o) == o.status \notin Immutable
CanIncrement(o) == o.status \notin Immutable
CanComplete(o) == o.status \notin Terminal

\* Mutant: only a failed job is left alone.
CanFailAgain(o) == o.status # "failed"

CanFail(o) == o.status \notin Terminal

=============================================================================
