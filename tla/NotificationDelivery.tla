------------------------ MODULE NotificationDelivery ------------------------
(***************************************************************************)
(* The notification deliveries of one completed audit job: the executions  *)
(* of audit_run_task that create and enqueue them, and the worker slots    *)
(* that run notification_task.  A job is normally notified by one          *)
(* execution; two are when arq ran it twice.                               *)
(*                                                                         *)
(* A delivery is named by its idempotency key, on which the table has a    *)
(* unique index; its arq job has the delivery's id, so that a second       *)
(* enqueue finds the first job, or its result, and adds nothing.           *)
(***************************************************************************)
EXTENDS Naturals, Sequences

CONSTANTS
  Runs,         \* executions of audit_run_task that notify of the job
  Keys,         \* idempotency keys
  Plan,         \* [Runs -> Seq(Keys)]: the deliveries each one calls for
  Senders,      \* worker slots that run notification_task
  NoKey,        \* what an idle slot works on
  MaxAttempts,  \* MAX_ATTEMPTS
  MaxTries,     \* arq's max_tries
  MaxCrashes,   \* bound on the crashes under one delivery
  Faults        \* what the environment may do

FaultKinds ==
  {"run_stops",    \* the creating task is cut off, or a statement of it fails
   "queue_error",  \* enqueue_job fails, before or after Redis took the job
   "crash",        \* a worker dies under notification_task
   "timeout",      \* arq cancels notification_task
   "db_error",     \* a statement of notification_task fails
   "lease_loss"}   \* arq's in-progress key expires under a task that runs

ASSUME DeliveryAssumption ==
  /\ Plan \in [Runs -> Seq(Keys)]
  /\ NoKey \notin Keys
  /\ MaxAttempts \in Nat \ {0}
  /\ MaxTries \in Nat
  /\ MaxCrashes \in Nat
  /\ Faults \subseteq FaultKinds

VARIABLES
  row,          \* [Keys -> Delivery]: notification_deliveries, as committed
  rpc,          \* [Runs -> RunPC]: where the execution is
  pos,          \* [Runs -> Nat]: the position in its plan
  expired,      \* [Runs -> BOOLEAN]: a rollback expired the objects it had
  queue,        \* [Keys -> QueueState]: the arq job of the delivery
  tries,        \* [Keys -> Nat]: arq's job_try
  task,         \* [Senders -> Keys \cup {NoKey}]: the delivery of the slot
  pc,           \* [Senders -> PC]: where its task is
  copy,         \* [Senders -> Delivery]: its session's object of the row
  received,     \* [Keys -> Nat]: how often the target got it (history)
  interrupted,  \* [Keys -> Nat]: crashes under the delivery (history, bound)
  leased,       \* [Keys -> BOOLEAN]: its lease has always held (history)
  lost          \* [Keys -> BOOLEAN]: left where it was by a fault (history)

vars == <<row, rpc, pos, expired, queue, tries, task, pc, copy, received,
          interrupted, leased, lost>>

runVars == <<rpc, pos, expired>>
slotVars == <<task, pc, copy>>

Status == {"none", "pending", "sending", "delivered", "failed"}
Delivery == [status : Status, attempts : 0..MaxAttempts, stamped : BOOLEAN,
             error : BOOLEAN]
RunPC == {"create", "insert", "enqueue", "done", "stopped"}
QueueState == {"absent", "queued", "running", "done"}
PC == {"idle", "load", "claim", "refresh", "post", "sent", "error", "return"}

\* stamped: delivered_at is set
NoRow == [status |-> "none", attempts |-> 0, stamped |-> FALSE, error |-> FALSE]

Init ==
  /\ row = [k \in Keys |-> NoRow]
  /\ rpc = [r \in Runs |-> "create"]
  /\ pos = [r \in Runs |-> 1]
  /\ expired = [r \in Runs |-> FALSE]
  /\ queue = [k \in Keys |-> "absent"]
  /\ tries = [k \in Keys |-> 0]
  /\ task = [s \in Senders |-> NoKey]
  /\ pc = [s \in Senders |-> "idle"]
  /\ copy = [s \in Senders |-> NoRow]
  /\ received = [k \in Keys |-> 0]
  /\ interrupted = [k \in Keys |-> 0]
  /\ leased = [k \in Keys |-> TRUE]
  /\ lost = [k \in Keys |-> FALSE]

-----------------------------------------------------------------------------
(* create_audit_notifications, and the loop that enqueues its result.      *)

Exists(k) == row[k].status # "none"
AtEnd(r) == pos[r] > Len(Plan[r])
Current(r) == Plan[r][pos[r]]

PendingRow ==
  [status |-> "pending", attempts |-> 0, stamped |-> FALSE, error |-> FALSE]

RunGoto(r, label) == rpc' = [rpc EXCEPT ![r] = label]
Advance(r) == pos' = [pos EXCEPT ![r] = @ + 1]

\* _get_by_idempotency_key: a row found is taken into the result
Lookup(r) ==
  /\ rpc[r] = "create" /\ ~AtEnd(r) /\ ~expired[r]
  /\ IF Exists(Current(r))
       THEN Advance(r) /\ UNCHANGED rpc
       ELSE RunGoto(r, "insert") /\ UNCHANGED pos
  /\ UNCHANGED <<row, expired, queue, tries, slotVars, received, interrupted,
                 leased, lost>>

\* Mutant: the insertion overwrites a row that appeared since the lookup.
InsertBlindly(r) ==
  /\ rpc[r] = "insert"
  /\ row' = [row EXCEPT ![Current(r)] = PendingRow]
  /\ Advance(r)
  /\ RunGoto(r, "create")
  /\ UNCHANGED <<expired, queue, tries, slotVars, received, interrupted,
                 leased, lost>>

\* Mutant: a delivery is enqueued as soon as it is created.
InsertAndEnqueue(r) ==
  /\ rpc[r] = "insert"
  /\ IF Exists(Current(r))
       THEN expired' = [expired EXCEPT ![r] = TRUE] /\ UNCHANGED row
       ELSE row' = [row EXCEPT ![Current(r)] = PendingRow] /\ UNCHANGED expired
  /\ queue' = [queue EXCEPT ![Current(r)] = IF @ = "absent" THEN "queued" ELSE @]
  /\ Advance(r)
  /\ RunGoto(r, "create")
  /\ UNCHANGED <<tries, slotVars, received, interrupted, leased, lost>>

\* The insertion commits, or meets the unique index: then the rollback
\* expires every object of the session, and the row is read instead
Insert(r) ==
  /\ rpc[r] = "insert"
  /\ IF Exists(Current(r))
       THEN expired' = [expired EXCEPT ![r] = TRUE] /\ UNCHANGED row
       ELSE row' = [row EXCEPT ![Current(r)] = PendingRow] /\ UNCHANGED expired
  /\ Advance(r)
  /\ RunGoto(r, "create")
  /\ UNCHANGED <<queue, tries, slotVars, received, interrupted, leased, lost>>

AllCreated(r) ==
  /\ rpc[r] = "create" /\ AtEnd(r)
  /\ RunGoto(r, "enqueue")
  /\ pos' = [pos EXCEPT ![r] = 1]
  /\ UNCHANGED <<row, expired, queue, tries, slotVars, received, interrupted,
                 leased, lost>>

\* After the rollback the job and the earlier deliveries are expired; to read
\* an attribute of one raises (there is no implicit I/O in an async session),
\* in the loop over the plan and in the loop that enqueues.  Only the
\* delivery read last, the one that collided, is current.
ReadExpired(r) ==
  /\ expired[r]
  /\ \/ rpc[r] = "create" /\ ~AtEnd(r)
     \/ rpc[r] = "enqueue" /\ pos[r] < Len(Plan[r])
  /\ RunGoto(r, "stopped")
  /\ UNCHANGED <<row, pos, expired, queue, tries, slotVars, received,
                 interrupted, leased, lost>>

Readable(r) == expired[r] => pos[r] = Len(Plan[r])

\* Mutant: the arq job has no id of its own, a second one is added.
AddJobAgain(k) ==
  queue' = [queue EXCEPT ![k] = IF @ \in {"absent", "done"} THEN "queued" ELSE @]

AddJob(k) == queue' = [queue EXCEPT ![k] = IF @ = "absent" THEN "queued" ELSE @]

\* what happens to the delivery without a word in its row
Lose(k) == lost' = [lost EXCEPT ![k] = TRUE]

\* enqueue_notification_task; a failure is logged and the loop goes on
Enqueue(r) ==
  /\ rpc[r] = "enqueue" /\ ~AtEnd(r) /\ Readable(r)
  /\ \/ AddJob(Current(r)) /\ UNCHANGED lost
     \/ "queue_error" \in Faults /\ Lose(Current(r)) /\ UNCHANGED queue
  /\ Advance(r)
  /\ UNCHANGED <<row, rpc, expired, tries, slotVars, received, interrupted,
                 leased>>

Finish(r) ==
  /\ rpc[r] = "enqueue" /\ AtEnd(r)
  /\ RunGoto(r, "done")
  /\ UNCHANGED <<row, pos, expired, queue, tries, slotVars, received,
                 interrupted, leased, lost>>

\* a crash, a timeout, or a statement that fails: the job is completed, and
\* no retry comes back to its notifications
Stop(r) ==
  /\ "run_stops" \in Faults
  /\ rpc[r] \notin {"done", "stopped"}
  /\ RunGoto(r, "stopped")
  /\ UNCHANGED <<row, pos, expired, queue, tries, slotVars, received,
                 interrupted, leased, lost>>

-----------------------------------------------------------------------------
(* notification_task and send_delivery, one step per transaction.          *)

Goto(s, label) == pc' = [pc EXCEPT ![s] = label]

Take(s, k) ==
  /\ queue[k] = "queued"
  /\ tries[k] < MaxTries
  /\ task[s] = NoKey
  /\ queue' = [queue EXCEPT ![k] = "running"]
  /\ tries' = [tries EXCEPT ![k] = @ + 1]
  /\ task' = [task EXCEPT ![s] = k]
  /\ Goto(s, "load")
  /\ UNCHANGED <<row, runVars, copy, received, interrupted, leased, lost>>

GiveUp(k) ==
  /\ queue[k] = "queued"
  /\ tries[k] = MaxTries
  /\ queue' = [queue EXCEPT ![k] = "done"]
  /\ Lose(k)
  /\ UNCHANGED <<row, runVars, tries, slotVars, received, interrupted, leased>>

\* Mutant: a delivery found "sending" is left to whoever sends it.
LoadSkipsSending(s) ==
  /\ pc[s] = "load"
  /\ copy' = [copy EXCEPT ![s] = row[task[s]]]
  /\ Goto(s, IF row[task[s]].status \in {"delivered", "sending"}
               THEN "return" ELSE "claim")
  /\ UNCHANGED <<row, runVars, queue, tries, task, received, interrupted,
                 leased, lost>>

\* Mutant: a delivered one is sent like any other.
LoadDelivered(s) ==
  /\ pc[s] = "load"
  /\ copy' = [copy EXCEPT ![s] = row[task[s]]]
  /\ Goto(s, "claim")
  /\ UNCHANGED <<row, runVars, queue, tries, task, received, interrupted,
                 leased, lost>>

\* db.get; a delivered one is returned as it is
Load(s) ==
  /\ pc[s] = "load"
  /\ copy' = [copy EXCEPT ![s] = row[task[s]]]
  /\ Goto(s, IF row[task[s]].status = "delivered" THEN "return" ELSE "claim")
  /\ UNCHANGED <<row, runVars, queue, tries, task, received, interrupted,
                 leased, lost>>

\* The attributes of new that differ from the object are written.
Written(current, old, new) ==
  LET Attribute(f) == IF new[f] # old[f] THEN new[f] ELSE current[f]
  IN  [status |-> Attribute("status"), attempts |-> Attribute("attempts"),
       stamped |-> Attribute("stamped"), error |-> Attribute("error")]

Commit(s, new) ==
  /\ row' = [row EXCEPT ![task[s]] = Written(@, copy[s], new)]
  /\ copy' = [copy EXCEPT ![s] = new]

\* Mutant: off by one.
ExhaustedLate(o) == o.attempts > MaxAttempts

Exhausted(o) == o.attempts >= MaxAttempts

\* Mutant: the attempt is not counted.
SendingUncounted(o) == [o EXCEPT !.status = "sending", !.error = FALSE]

Sending(o) ==
  [o EXCEPT !.status = "sending", !.attempts = @ + 1, !.error = FALSE]
Failed(o) == [o EXCEPT !.status = "failed", !.error = TRUE]
Delivered(o) ==
  [o EXCEPT !.status = "delivered", !.stamped = TRUE, !.error = FALSE]

\* "maximum delivery attempts reached"
Exhaust(s) ==
  /\ pc[s] = "claim" /\ Exhausted(copy[s])
  /\ Commit(s, Failed(copy[s]))
  /\ Goto(s, "return")
  /\ UNCHANGED <<runVars, queue, tries, task, received, interrupted,
                 leased, lost>>

Claim(s) ==
  /\ pc[s] = "claim" /\ ~Exhausted(copy[s])
  /\ Commit(s, Sending(copy[s]))
  /\ Goto(s, "refresh")
  /\ UNCHANGED <<runVars, queue, tries, task, received, interrupted,
                 leased, lost>>

Refresh(s) ==
  /\ pc[s] = "refresh"
  /\ copy' = [copy EXCEPT ![s] = row[task[s]]]
  /\ Goto(s, "post")
  /\ UNCHANGED <<row, runVars, queue, tries, task, received, interrupted,
                 leased, lost>>

\* _deliver: the target gets the message and answers, or gets it and the
\* answer is an error or never comes, or it does not get it
Post(s) ==
  /\ pc[s] = "post"
  /\ \/ /\ received' = [received EXCEPT ![task[s]] = @ + 1]
        /\ Goto(s, "sent") \/ Goto(s, "error")
     \/ Goto(s, "error") /\ UNCHANGED received
  /\ UNCHANGED <<row, runVars, queue, tries, task, copy, interrupted,
                 leased, lost>>

\* Mutant: an error of the target is taken for a delivery.
RecordAny(s) ==
  /\ pc[s] \in {"sent", "error"}
  /\ Commit(s, Delivered(copy[s]))
  /\ Goto(s, "return")
  /\ UNCHANGED <<runVars, queue, tries, task, received, interrupted,
                 leased, lost>>

Record(s) ==
  /\ \/ pc[s] = "sent" /\ Commit(s, Delivered(copy[s]))
     \/ pc[s] = "error" /\ Commit(s, Failed(copy[s]))
  /\ Goto(s, "return")
  /\ UNCHANGED <<runVars, queue, tries, task, received, interrupted,
                 leased, lost>>

DbError(s) ==
  /\ "db_error" \in Faults
  /\ pc[s] \in {"load", "claim", "refresh", "sent", "error"}
  /\ Lose(task[s])
  /\ Goto(s, "return")
  /\ UNCHANGED <<row, runVars, queue, tries, task, copy, received, interrupted,
                 leased>>

\* the session is closed, the slot is free
Release(s) ==
  /\ task' = [task EXCEPT ![s] = NoKey]
  /\ copy' = [copy EXCEPT ![s] = NoRow]
  /\ Goto(s, "idle")

\* the task returns or raises: neither is tried again
Return(s) ==
  /\ \/ pc[s] = "return" /\ UNCHANGED lost
     \/ "timeout" \in Faults /\ task[s] # NoKey /\ Lose(task[s])
  /\ queue' = [queue EXCEPT ![task[s]] = "done"]
  /\ Release(s)
  /\ UNCHANGED <<row, runVars, tries, received, interrupted, leased>>

Crash(s) ==
  /\ "crash" \in Faults
  /\ task[s] # NoKey
  /\ interrupted[task[s]] < MaxCrashes
  /\ interrupted' = [interrupted EXCEPT ![task[s]] = @ + 1]
  /\ queue' = [queue EXCEPT ![task[s]] = IF @ = "running" THEN "queued" ELSE @]
  /\ Release(s)
  /\ UNCHANGED <<row, runVars, tries, received, leased, lost>>

LeaseExpires(k) ==
  /\ "lease_loss" \in Faults
  /\ queue[k] = "running"
  /\ queue' = [queue EXCEPT ![k] = "queued"]
  /\ leased' = [leased EXCEPT ![k] = FALSE]
  /\ UNCHANGED <<row, runVars, tries, slotVars, received, interrupted, lost>>

-----------------------------------------------------------------------------
RunStep(r) ==
  \/ Lookup(r) \/ Insert(r) \/ AllCreated(r) \/ ReadExpired(r) \/ Enqueue(r)
  \/ Finish(r)

SenderStep(s) ==
  \/ Load(s) \/ Exhaust(s) \/ Claim(s) \/ Refresh(s) \/ Post(s) \/ Record(s)
  \/ DbError(s) \/ Return(s)

Next ==
  \/ \E r \in Runs : RunStep(r) \/ Stop(r)
  \/ \E s \in Senders : SenderStep(s) \/ Crash(s)
  \/ \E k \in Keys :
       \/ GiveUp(k)
       \/ LeaseExpires(k)
       \/ \E s \in Senders : Take(s, k)

Spec == Init /\ [][Next]_vars

\* As in AuditJobs: what is not cut off goes on, and arq's queue is served in
\* the order of the enqueue times.
Fairness ==
  /\ \A r \in Runs : WF_vars(RunStep(r))
  /\ \A s \in Senders : WF_vars(SenderStep(s))
  /\ \A k \in Keys : SF_vars(\E s \in Senders : Take(s, k)) /\ WF_vars(GiveUp(k))

LiveSpec == Spec /\ Fairness

-----------------------------------------------------------------------------
(* Properties.                                                             *)

\* The type invariant.  The range of attempts also says that no update trips
\* the table's CHECK of 0..5, whatever objects two senders hold.
TypeOK ==
  /\ row \in [Keys -> Delivery]
  /\ rpc \in [Runs -> RunPC]
  /\ pos \in [Runs -> Nat]
  /\ expired \in [Runs -> BOOLEAN]
  /\ queue \in [Keys -> QueueState]
  /\ tries \in [Keys -> Nat]
  /\ task \in [Senders -> Keys \cup {NoKey}]
  /\ pc \in [Senders -> PC]
  /\ copy \in [Senders -> Delivery]
  /\ received \in [Keys -> Nat]
  /\ interrupted \in [Keys -> Nat]
  /\ leased \in [Keys -> BOOLEAN]
  /\ lost \in [Keys -> BOOLEAN]

\* A target gets a notification at most MAX_ATTEMPTS times, and never more
\* often than the row says: the attempt is committed before the message goes
\* out, so a crash in between cannot hide one.
AttemptsCoverSends ==
  \A k \in Keys : leased[k] => received[k] <= row[k].attempts

\* A duplicate needs a crash: no exception, cancelled task, second enqueue or
\* second run of the audit makes a target get the same notification again.
DuplicatesNeedACrash ==
  \A k \in Keys : leased[k] => received[k] <= 1 + interrupted[k]

\* What the table calls delivered was received, and carries its time, even
\* with two senders on one delivery.
DeliveredWasReceived ==
  \A k \in Keys :
    row[k].status = "delivered" => received[k] > 0 /\ row[k].stamped

\* A delivery is handed to arq only after its run has created every delivery
\* of its plan, so no notification goes out about a run whose deliveries are
\* not all on record.
SentAfterAllCreated ==
  \A k \in Keys : queue[k] # "absent" =>
    \E r \in Runs : \A i \in DOMAIN Plan[r] : Exists(Plan[r][i])

\* A delivered row never changes again, by a late sender or a second run.
DeliveredIsFinal ==
  [][\A k \in Keys :
       leased[k] /\ row[k].status = "delivered" => row'[k] = row[k]]_vars

\* how far the attempt is that a sender of k has at hand
Attempt ==
  LET Has(k, labels) == \E s \in Senders : task[s] = k /\ pc[s] \in labels
  IN  [k \in Keys |-> IF Has(k, {"refresh", "post"}) THEN "open"
                      ELSE IF Has(k, {"sent"}) THEN "confirmed"
                      ELSE IF Has(k, {"error"}) THEN "unanswered"
                      ELSE "none"]

\* As long as no lease expires, runs that race to create a delivery, senders with
\* objects read earlier, crashes, cancelled tasks and retries look as if one attempt
\* followed the other, each on record before the target can get anything
\* (_create_delivery and send_delivery implement DeliveryLedger).
Ledger ==
  INSTANCE DeliveryLedger WITH row <- row, received <- received, attempt <- Attempt
DeliveryLedgerSpec == Ledger!Spec

\* A delivery that was created ends delivered or failed, however often the
\* sender crashes and whichever run enqueues it.  The exceptions are all there
\* is: a run was stopped (by an object that its own rollback has expired,
\* among others), or it was lost: it could not be enqueued, its task
\* was cancelled or failed on a statement, or arq had no try left.
DeliveryEnds ==
  \A k \in Keys : row[k].status = "pending" ~>
    \/ row[k].status \in {"delivered", "failed"}
    \/ lost[k]
    \/ \E r \in Runs : rpc[r] = "stopped"
=============================================================================
