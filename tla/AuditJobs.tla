------------------------------ MODULE AuditJobs ------------------------------
(***************************************************************************)
(* The life of an audit job: the two API handlers that create and enqueue  *)
(* it (POST /audit/run and POST /sources/{id}/sync), the ARQ queue in      *)
(* Redis, and the worker tasks audit_run_task and ingest_task that carry   *)
(* it out.                                                                 *)
(*                                                                         *)
(* The handler of job j and every worker slot has a database session of    *)
(* its own.  A session keeps the ORM object of the job it has read: with   *)
(* expire_on_commit=False nothing but db.refresh or a rollback brings it   *)
(* up to date, and SELECT ... FOR UPDATE, which takes the row lock, hands  *)
(* back the object the session already has.  On commit only the attributes *)
(* that the object's owner changed are written.                            *)
(***************************************************************************)
EXTENDS AuditJobRows, FiniteSets

CONSTANTS
  Jobs,        \* audit jobs; each has the handler that creates it
  AuditRuns,   \* those of POST /audit/run; the others are source syncs
  Workers,     \* worker slots (processes times WorkerSettings.max_jobs)
  NoJob,       \* what an idle slot works on
  Deltas,      \* what a scan or a sync may add to the counters
  MaxTries,    \* arq's max_tries
  MaxCrashes,  \* bound on the crashes of the workers
  Faults       \* what the environment may do to the program

FaultKinds ==
  {"api_crash",    \* the API process dies, or loses the database, mid-request
   "worker_crash", \* a worker process dies or is shut down
   "timeout",      \* arq cancels a task after job_timeout
   "db_error",     \* a statement of a worker fails
   "lost_reply",   \* Redis has the job but enqueue_job raises
   "lease_loss"}   \* arq's in-progress key expires under a task that runs

ASSUME ConstantsAssumption ==
  /\ AuditRuns \subseteq Jobs
  /\ Jobs \cap Workers = {}
  /\ NoJob \notin Jobs
  /\ Deltas \subseteq Nat
  /\ MaxTries \in Nat
  /\ MaxCrashes \in Nat
  /\ Faults \subseteq FaultKinds

Sessions == Jobs \cup Workers

VARIABLES
  row,        \* [Jobs -> Row]: the table audit_jobs, as committed
  copy,       \* [Sessions -> Row]: the session's object of its job
  api,        \* [Jobs -> ApiState]: where the handler of the job is
  queue,      \* [Jobs -> QueueState]: the arq job of the audit job
  tries,      \* [Jobs -> Nat]: arq's job_try
  task,       \* [Workers -> Jobs \cup {NoJob}]: the job the slot works on
  pc,         \* [Workers -> PC]: where its task is
  counted,    \* [Jobs -> Nat]: sum of the increments committed (history)
  notified,   \* [Jobs -> BOOLEAN]: the deliveries of the run were created
  crashes,    \* Nat: how many workers crashed (bound)
  mishaps,    \* [Jobs -> SUBSET Mishaps]: what befell the job (history)
  dropped     \* [Jobs -> BOOLEAN]: its task ended without a word (history)

vars == <<row, copy, api, queue, tries, task, pc, counted, notified, crashes,
          mishaps, dropped>>

\* the faults after which a job may have two writers
Mishaps == {"lost_reply", "lease_loss"}

ApiState == {"idle", "created", "rejected", "accepted", "refused", "dead"}
QueueState == {"absent", "queued", "running", "done"}
PC == {"idle", "load", "mark", "marked", "work", "count", "counted",
       "complete", "finished", "notify", "failing", "return"}

Init ==
  /\ row = [j \in Jobs |-> NoRow]
  /\ copy = [s \in Sessions |-> NoRow]
  /\ api = [j \in Jobs |-> "idle"]
  /\ queue = [j \in Jobs |-> "absent"]
  /\ tries = [j \in Jobs |-> 0]
  /\ task = [w \in Workers |-> NoJob]
  /\ pc = [w \in Workers |-> "idle"]
  /\ counted = [j \in Jobs |-> 0]
  /\ notified = [j \in Jobs |-> FALSE]
  /\ crashes = 0
  /\ mishaps = [j \in Jobs |-> {}]
  /\ dropped = [j \in Jobs |-> FALSE]

-----------------------------------------------------------------------------
(* Sessions and the service functions.                                     *)

\* _get_audit_job_for_update: the object the session holds, else the row.
Locked(s, j) == IF copy[s].status = "none" THEN row[j] ELSE copy[s]

\* The UPDATE of a flush: the attributes of new that differ from old, and
\* those in stamped, which take a new timestamp.
Merge(current, old, new, stamped) ==
  LET Attribute(f) ==
        IF new[f] # old[f] \/ f \in stamped THEN new[f] ELSE current[f]
  IN  [status |-> Attribute("status"), started |-> Attribute("started"),
       finished |-> Attribute("finished"), error |-> Attribute("error"),
       docs |-> Attribute("docs")]

\* flush and commit, under the row lock taken by Locked
Commit(s, j, new, stamped) ==
  /\ row' = [row EXCEPT ![j] = Merge(row[j], Locked(s, j), new, stamped)]
  /\ copy' = [copy EXCEPT ![s] = new]

MarkRunning(s, j) ==
  /\ CanRun(Locked(s, j))
  /\ Commit(s, j, Running(Locked(s, j)), {})

Increment(s, j, delta) ==
  /\ CanIncrement(Locked(s, j))
  /\ Commit(s, j, Incremented(Locked(s, j), delta), {})
  /\ counted' = [counted EXCEPT ![j] = @ + delta]

MarkCompleted(s, j) ==
  /\ CanComplete(Locked(s, j))
  /\ Commit(s, j, Completed(Locked(s, j)), {"finished"})

\* Mutant: the status is not looked at.
MarkFailedUnguarded(s, j) == Commit(s, j, Failed(Locked(s, j)), {"finished"})

MarkFailed(s, j) ==
  /\ CanFail(Locked(s, j))
  /\ Commit(s, j, Failed(Locked(s, j)), {"finished"})

\* the session is closed: its objects are gone
Close(s) == copy' = [copy EXCEPT ![s] = NoRow]

-----------------------------------------------------------------------------
(* The handlers run_audit and sync_source.                                 *)

CreateJob(j) ==
  /\ api[j] = "idle"
  /\ row' = [row EXCEPT ![j] = PendingRow]
  /\ copy' = [copy EXCEPT ![j] = PendingRow]
  /\ api' = [api EXCEPT ![j] = "created"]
  /\ UNCHANGED <<queue, tries, task, pc, counted, notified, crashes, mishaps,
                 dropped>>

\* enqueue_job succeeds: 202
EnqueueJob(j) ==
  /\ api[j] = "created"
  /\ queue' = [queue EXCEPT ![j] = "queued"]
  /\ api' = [api EXCEPT ![j] = "accepted"]
  /\ Close(j)
  /\ UNCHANGED <<row, tries, task, pc, counted, notified, crashes, mishaps,
                 dropped>>

\* QueueEnqueueError: no Redis, a full queue, or (lost_reply) an error of the
\* connection after Redis took the job
EnqueueFails(j) ==
  /\ api[j] = "created"
  /\ api' = [api EXCEPT ![j] = "rejected"]
  /\ \/ UNCHANGED <<queue, mishaps, dropped>>
     \/ /\ "lost_reply" \in Faults
        /\ queue' = [queue EXCEPT ![j] = "queued"]
        /\ mishaps' = [mishaps EXCEPT ![j] = @ \cup {"lost_reply"}]
  /\ UNCHANGED <<row, copy, tries, task, pc, counted, notified, crashes,
                 dropped>>

\* Mutant: the 503 is answered without failing the job.
RejectJobSilently(j) ==
  /\ api[j] = "rejected"
  /\ api' = [api EXCEPT ![j] = "refused"]
  /\ UNCHANGED <<row, copy, queue, tries, task, pc, counted, notified,
                 crashes, mishaps, dropped>>

\* mark_audit_job_failed in the handler's session, then 503
RejectJob(j) ==
  /\ api[j] = "rejected"
  /\ MarkFailed(j, j)
  /\ api' = [api EXCEPT ![j] = "refused"]
  /\ UNCHANGED <<queue, tries, task, pc, counted, notified, crashes, mishaps,
                 dropped>>

HandlerDies(j) ==
  /\ "api_crash" \in Faults
  /\ api[j] \in {"created", "rejected"}
  /\ api' = [api EXCEPT ![j] = "dead"]
  /\ Close(j)
  /\ UNCHANGED <<row, queue, tries, task, pc, counted, notified,
                 crashes, mishaps, dropped>>

-----------------------------------------------------------------------------
(* The tasks audit_run_task and ingest_task, one step per transaction.     *)

\* arq hands the job to a free slot
Take(w, j) ==
  /\ queue[j] = "queued"
  /\ tries[j] < MaxTries
  /\ task[w] = NoJob
  /\ queue' = [queue EXCEPT ![j] = "running"]
  /\ tries' = [tries EXCEPT ![j] = @ + 1]
  /\ task' = [task EXCEPT ![w] = j]
  /\ pc' = [pc EXCEPT ![w] = "load"]
  /\ UNCHANGED <<row, copy, api, counted, notified, crashes, mishaps, dropped>>

\* arq drops a job that was tried max_tries times
GiveUp(j) ==
  /\ queue[j] = "queued"
  /\ tries[j] = MaxTries
  /\ queue' = [queue EXCEPT ![j] = "done"]
  /\ dropped' = [dropped EXCEPT ![j] = TRUE]
  /\ UNCHANGED <<row, copy, api, tries, task, pc, counted, notified,
                 crashes, mishaps>>

Goto(w, label) == pc' = [pc EXCEPT ![w] = label]

\* session.get; an already completed job is returned as it is
Load(w) ==
  /\ pc[w] = "load"
  /\ copy' = [copy EXCEPT ![w] = row[task[w]]]
  /\ Goto(w, IF row[task[w]].status = "completed" THEN "return" ELSE "mark")
  /\ UNCHANGED <<row, api, queue, tries, task, counted, notified,
                 crashes, mishaps, dropped>>

Start(w) ==
  /\ pc[w] = "mark"
  /\ MarkRunning(w, task[w])
  /\ Goto(w, "marked")
  /\ UNCHANGED <<api, queue, tries, task, counted, notified, crashes, mishaps,
                 dropped>>

AfterRefresh(w) ==
  CASE pc[w] = "marked" -> "work"
    [] pc[w] = "counted" -> "complete"
    [] OTHER -> IF task[w] \in AuditRuns THEN "notify" ELSE "return"

\* db.refresh(job), after each commit of a service function
Refresh(w) ==
  /\ pc[w] \in {"marked", "counted", "finished"}
  /\ copy' = [copy EXCEPT ![w] = row[task[w]]]
  /\ Goto(w, AfterRefresh(w))
  /\ UNCHANGED <<row, api, queue, tries, task, counted, notified,
                 crashes, mishaps, dropped>>

\* sync of the source(s), and for an audit run scan_all_documents
Work(w) ==
  /\ pc[w] = "work"
  /\ Goto(w, "count")
  /\ UNCHANGED <<row, copy, api, queue, tries, task, counted, notified,
                 crashes, mishaps, dropped>>

\* A score refresh inside the scan fails and is rolled back, which expires every
\* object of the session.  The scan survives it if it need not read an expired
\* document again (AlertScan has the details); otherwise it is a Raise.
ScanRollsBack(w) ==
  /\ "db_error" \in Faults
  /\ pc[w] = "work"
  /\ task[w] \in AuditRuns
  /\ copy[w].status # "none"
  /\ Close(w)
  /\ UNCHANGED <<row, api, queue, tries, task, pc, counted, notified,
                 crashes, mishaps, dropped>>

Count(w) ==
  /\ pc[w] = "count"
  /\ \E d \in Deltas : Increment(w, task[w], d)
  /\ Goto(w, "counted")
  /\ UNCHANGED <<api, queue, tries, task, notified, crashes, mishaps, dropped>>

Complete(w) ==
  /\ pc[w] = "complete"
  /\ MarkCompleted(w, task[w])
  /\ Goto(w, "finished")
  /\ UNCHANGED <<api, queue, tries, task, counted, notified, crashes, mishaps,
                 dropped>>

\* mark_audit_job_completed returns a job it finds completed
AlreadyComplete(w) ==
  /\ pc[w] = "complete"
  /\ Locked(w, task[w]).status = "completed"
  /\ Goto(w, IF task[w] \in AuditRuns THEN "notify" ELSE "return")
  /\ UNCHANGED <<row, copy, api, queue, tries, task, counted, notified,
                 crashes, mishaps, dropped>>

\* _create_and_enqueue_notifications_best_effort; when the creation fails it
\* rolls back and reads the id of the job, now expired, to log it: that read
\* raises, and the exception leaves the best-effort function (see Raise)
Notify(w) ==
  /\ pc[w] = "notify"
  /\ Goto(w, "return")
  /\ notified' = [notified EXCEPT ![task[w]] = TRUE]
  /\ UNCHANGED <<row, copy, api, queue, tries, task, counted,
                 crashes, mishaps, dropped>>

\* the AuditJobStateError of the service functions
Refuses(w) ==
  LET o == Locked(w, task[w]) IN
    \/ pc[w] = "mark" /\ ~CanRun(o)
    \/ pc[w] = "count" /\ ~CanIncrement(o)
    \/ pc[w] = "complete" /\ o.status = "failed"

\* Mutant: the failure is not recorded.
RaiseUnrecorded(w) ==
  /\ pc[w] = "work"
  /\ Close(w)
  /\ Goto(w, "return")
  /\ UNCHANGED <<row, api, queue, tries, task, counted, notified, crashes,
                 mishaps, dropped>>

\* "except Exception": the session is closed and a new one marks the job
\* failed.  The sync of a source fails for reasons of the repository.
Raise(w) ==
  /\ \/ pc[w] = "work"
     \/ Refuses(w)
     \/ /\ "db_error" \in Faults
        /\ pc[w] \in {"load", "mark", "marked", "count", "counted",
                      "complete", "finished", "notify"}
  /\ Close(w)
  /\ Goto(w, "failing")
  /\ UNCHANGED <<row, api, queue, tries, task, counted, notified,
                 crashes, mishaps, dropped>>

\* _mark_audit_job_failed_best_effort: nothing is written to a terminal job,
\* nor when the statement fails
Fail(w) ==
  /\ pc[w] = "failing"
  /\ \/ MarkFailed(w, task[w]) /\ UNCHANGED dropped
     \/ ~CanFail(Locked(w, task[w])) /\ UNCHANGED <<row, copy, dropped>>
     \/ /\ "db_error" \in Faults
        /\ dropped' = [dropped EXCEPT ![task[w]] = TRUE]
        /\ UNCHANGED <<row, copy>>
  /\ Goto(w, "return")
  /\ UNCHANGED <<api, queue, tries, task, counted, notified, crashes, mishaps>>

\* the slot is free again
Release(w) ==
  /\ task' = [task EXCEPT ![w] = NoJob]
  /\ Goto(w, "idle")
  /\ Close(w)

\* the task returns or raises: arq does not run it again
Return(w) ==
  /\ pc[w] = "return"
  /\ queue' = [queue EXCEPT ![task[w]] = "done"]
  /\ Release(w)
  /\ UNCHANGED <<row, api, tries, counted, notified, crashes, mishaps, dropped>>

\* CancelledError is no Exception: no handler of the task runs
Timeout(w) ==
  /\ "timeout" \in Faults
  /\ task[w] # NoJob
  /\ queue' = [queue EXCEPT ![task[w]] = "done"]
  /\ dropped' = [dropped EXCEPT ![task[w]] = TRUE]
  /\ Release(w)
  /\ UNCHANGED <<row, api, tries, counted, notified, crashes, mishaps>>

\* arq runs the job again once the in-progress key is gone
Crash(w) ==
  /\ "worker_crash" \in Faults
  /\ crashes < MaxCrashes
  /\ task[w] # NoJob
  /\ queue' = [queue EXCEPT ![task[w]] = IF @ = "running" THEN "queued" ELSE @]
  /\ crashes' = crashes + 1
  /\ Release(w)
  /\ UNCHANGED <<row, api, tries, counted, notified, mishaps, dropped>>

LeaseExpires(j) ==
  /\ "lease_loss" \in Faults
  /\ queue[j] = "running"
  /\ queue' = [queue EXCEPT ![j] = "queued"]
  /\ mishaps' = [mishaps EXCEPT ![j] = @ \cup {"lease_loss"}]
  /\ UNCHANGED <<row, copy, api, tries, task, pc, counted, notified, crashes,
                 dropped>>

-----------------------------------------------------------------------------
HandlerStep(j) == EnqueueJob(j) \/ EnqueueFails(j) \/ RejectJob(j)

WorkerStep(w) ==
  \/ Load(w) \/ Start(w) \/ Refresh(w) \/ Work(w) \/ Count(w) \/ Complete(w)
  \/ AlreadyComplete(w) \/ Notify(w) \/ Raise(w) \/ Fail(w) \/ Return(w)

Next ==
  \/ \E j \in Jobs :
       \/ CreateJob(j)
       \/ EnqueueJob(j)
       \/ EnqueueFails(j)
       \/ RejectJob(j)
       \/ HandlerDies(j)
       \/ GiveUp(j)
       \/ LeaseExpires(j)
       \/ \E w \in Workers : Take(w, j)
  \/ \E w \in Workers :
       \/ Load(w)
       \/ Start(w)
       \/ Refresh(w)
       \/ Work(w)
       \/ ScanRollsBack(w)
       \/ Count(w)
       \/ Complete(w)
       \/ AlreadyComplete(w)
       \/ Notify(w)
       \/ Raise(w)
       \/ Fail(w)
       \/ Return(w)
       \/ Timeout(w)
       \/ Crash(w)

Spec == Init /\ [][Next]_vars

(***************************************************************************)
(* Fairness.  A handler and a task that are not cut off go on: the event   *)
(* loops run them.  arq takes the jobs of its queue in order of their      *)
(* score, the time they were enqueued, so a queued job is not passed over  *)
(* for ever by the slots that become free, nor by the check of its tries.  *)
(***************************************************************************)
Fairness ==
  /\ \A j \in Jobs : WF_vars(HandlerStep(j))
  /\ \A w \in Workers : WF_vars(WorkerStep(w))
  /\ \A j \in Jobs : SF_vars(\E w \in Workers : Take(w, j)) /\ WF_vars(GiveUp(j))

LiveSpec == Spec /\ Fairness

-----------------------------------------------------------------------------
(* Properties.                                                             *)

\* The type invariant: what each variable holds.
TypeOK ==
  /\ row \in [Jobs -> Row]
  /\ copy \in [Sessions -> Row]
  /\ api \in [Jobs -> ApiState]
  /\ queue \in [Jobs -> QueueState]
  /\ tries \in [Jobs -> Nat]
  /\ task \in [Workers -> Jobs \cup {NoJob}]
  /\ pc \in [Workers -> PC]
  /\ counted \in [Jobs -> Nat]
  /\ notified \in [Jobs -> BOOLEAN]
  /\ crashes \in Nat
  /\ mishaps \in [Jobs -> SUBSET Mishaps]
  /\ dropped \in [Jobs -> BOOLEAN]

\* The status of a row agrees with its timestamps and its error.
Consistent(r) ==
  /\ r.status = "pending" => ~r.started /\ ~r.finished /\ ~r.error
  /\ r.status = "running" => r.started /\ ~r.finished /\ ~r.error
  /\ r.status = "completed" => r.started /\ r.finished /\ ~r.error
  /\ r.status = "failed" => r.started /\ r.finished /\ r.error

\* A client that polls GET /audit/jobs/{id} never reads a completed job with
\* an error, a failed one without, or a running one with a completion time:
\* through crashes, retries and rollbacks, unless a lost reply or a lost
\* lease gave the job a second writer.
RowConsistent == \A j \in Jobs : mishaps[j] = {} => Consistent(row[j])

\* A request answered 503 has no arq job behind it, and its audit job stays
\* failed: what the client was told to be off never runs.
RefusedNeverRuns ==
  \A j \in Jobs : api[j] = "refused" /\ mishaps[j] = {} =>
    queue[j] = "absent" /\ row[j].status = "failed"

\* No increment of the counters is lost or made up over every retry, even
\* when the handler's stale object is written in between: only two tasks on
\* the same job can lose one.
ProgressExact ==
  \A j \in Jobs : "lease_loss" \notin mishaps[j] => row[j].docs = counted[j]

\* Notifications about a run are created only when its job is completed.
NotifiedOnlyCompleted ==
  \A j \in Jobs :
    mishaps[j] = {} /\ notified[j] => row[j].status = "completed"

\* Once a job is completed no step changes any column of it, whatever
\* objects of an earlier time other sessions hold.
CompletedIsFinal ==
  [][\A j \in Jobs : row[j].status = "completed" => row'[j] = row[j]]_vars

\* The same for the jobs that met neither mishap: a fault on one job does no
\* harm to the row of another.
UndisturbedIsFinal ==
  [][\A j \in Jobs :
       row[j].status = "completed" /\ mishaps[j] = {} => row'[j] = row[j]]_vars

\* With duplicate deliveries increments may be lost, but never made up, and
\* no delivery adds more than one scan.
ProgressNotInvented ==
  \A j \in Jobs :
    /\ row[j].docs <= counted[j]
    /\ \A d \in Deltas :
         (\A e \in Deltas : e <= d) => counted[j] <= tries[j] * d

\* Every commit of a handler or a worker is one atomic step of the ledger on
\* the current row of one job: the stale objects of the sessions do not show.
Ledger == INSTANCE AuditLedger WITH Jobs <- Jobs, Deltas <- Deltas, row <- row
LedgerSpec == Ledger!Spec

\* A job that was created ends completed or failed, through crashes, retries,
\* races of two jobs for the slots and failures at every step.  The exceptions
\* are all there is: the handler died, the task was cancelled by arq's timeout
\* or had no try left, or the failure itself could not be recorded.
JobEnds ==
  \A j \in Jobs :
    row[j].status = "pending" ~>
      row[j].status \in Terminal \/ api[j] = "dead" \/ dropped[j]

==============================================================================
