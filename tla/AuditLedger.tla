----------------------------- MODULE AuditLedger -----------------------------
(***************************************************************************)
(* What audit_job_service.py promises: each of its functions is one atomic *)
(* step on the current row of the job, which SELECT ... FOR UPDATE locks.  *)
(* In particular a completed row never changes again, a job is completed   *)
(* only while it runs, and no increment of the counters is lost.           *)
(*                                                                         *)
(* This is the abstract specification that module AuditJobs, with its      *)
(* sessions, handlers, workers and queue, is shown to implement.           *)
(***************************************************************************)
EXTENDS AuditJobRows

CONSTANTS Jobs,      \* the audit jobs
          Deltas     \* what one scan or sync may add to the counters

VARIABLE row         \* [Jobs -> Row], the table audit_jobs

Init == row = [j \in Jobs |-> NoRow]

Exists(j) == row[j].status # "none"
Set(j, r) == row' = [row EXCEPT ![j] = r]

Create(j) == ~Exists(j) /\ Set(j, PendingRow)
MarkRunning(j) == Exists(j) /\ CanRun(row[j]) /\ Set(j, Running(row[j]))
Increment(j, d) ==
  /\ row[j].status = "running"
  /\ Set(j, Incremented(row[j], d))
MarkCompleted(j) == row[j].status = "running" /\ Set(j, Completed(row[j]))
MarkFailed(j) == Exists(j) /\ CanFail(row[j]) /\ Set(j, Failed(row[j]))

Next ==
  \E j \in Jobs :
    \/ Create(j)
    \/ MarkRunning(j)
    \/ \E d \in Deltas : Increment(j, d)
    \/ MarkCompleted(j)
    \/ MarkFailed(j)

Spec == Init /\ [][Next]_row
==============================================================================
