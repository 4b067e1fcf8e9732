--------------------------- MODULE AuditJobs_proofs ---------------------------
(***************************************************************************)
(* Theorems about AuditJobs, for every set of jobs, workers, increments    *)
(* and faults, and every number of tries and crashes.                      *)
(***************************************************************************)
EXTENDS AuditJobs, FiniteSetTheorems, TLAPS

(***************************************************************************)
(* The row operators return rows.                                          *)
(***************************************************************************)
LEMMA RowTypes ==
  ASSUME NEW o \in Row, NEW d \in Nat
  PROVE  /\ NoRow \in Row /\ PendingRow \in Row
         /\ Running(o) \in Row
         /\ Incremented(o, d) \in Row
         /\ Completed(o) \in Row
         /\ Failed(o) \in Row
  <1>1. NoRow \in Row /\ PendingRow \in Row
    BY DEF Row, Status, NoRow, PendingRow
  <1>2. Running(o) \in Row
    <2>1. CASE o.status = "failed"
      <3>1. Running(o) = [o EXCEPT !.status = "running", !.started = TRUE,
                                   !.finished = FALSE, !.error = FALSE]
        BY <2>1 DEF Running
      <3> QED BY <3>1 DEF Row, Status
    <2>2. CASE o.status # "failed"
      <3>1. Running(o) = [o EXCEPT !.status = "running", !.started = TRUE]
        BY <2>2 DEF Running, Row
      <3> QED BY <3>1 DEF Row, Status
    <2> QED BY <2>1, <2>2
  <1>3. Incremented(o, d) \in Row
    <2>1. o.docs + d \in Nat
      BY DEF Row
    <2> QED BY <2>1 DEF Row, Status, Incremented
  <1>4. Completed(o) \in Row /\ Failed(o) \in Row
    BY DEF Row, Status, Completed, Failed
  <1> QED BY <1>1, <1>2, <1>3, <1>4

LEMMA MergeType ==
  ASSUME NEW c \in Row, NEW o \in Row, NEW n \in Row, NEW S
  PROVE  Merge(c, o, n, S) \in Row
  BY DEF Merge, Row

\* A session whose object is up to date writes the object as it is.
LEMMA MergeSame ==
  ASSUME NEW o \in Row, NEW n \in Row, NEW S
  PROVE  Merge(o, o, n, S) = n
  BY DEF Merge, Row

LEMMA LockedType ==
  ASSUME TypeOK, NEW s \in Sessions, NEW j \in Jobs
  PROVE  Locked(s, j) \in Row
  BY DEF Locked, TypeOK

LEMMA CommitType ==
  ASSUME TypeOK, NEW s \in Sessions, NEW j \in Jobs, NEW n \in Row, NEW S,
         Commit(s, j, n, S)
  PROVE  /\ row' \in [Jobs -> Row]
         /\ copy' \in [Sessions -> Row]
  <1>1. Merge(row[j], Locked(s, j), n, S) \in Row
    BY LockedType, MergeType DEF TypeOK
  <1> QED BY <1>1 DEF Commit, TypeOK

\* A service function that writes keeps the types.
LEMMA ServiceType ==
  ASSUME TypeOK, NEW s \in Sessions, NEW j \in Jobs, NEW d \in Nat
  PROVE  MarkRunning(s, j) \/ Increment(s, j, d) \/ MarkCompleted(s, j)
           \/ MarkFailed(s, j)
         => /\ row' \in [Jobs -> Row]
            /\ copy' \in [Sessions -> Row]
  <1>1. /\ Running(Locked(s, j)) \in Row
        /\ Incremented(Locked(s, j), d) \in Row
        /\ Completed(Locked(s, j)) \in Row
        /\ Failed(Locked(s, j)) \in Row
    BY LockedType, RowTypes
  <1> QED
    BY <1>1, CommitType DEF MarkRunning, Increment, MarkCompleted, MarkFailed

LEMMA CloseType ==
  ASSUME TypeOK, NEW s \in Sessions, Close(s)
  PROVE  copy' \in [Sessions -> Row]
  <1>1. NoRow \in Row
    BY DEF Row, Status, NoRow
  <1> QED BY <1>1 DEF Close, TypeOK

-------------------------------------------------------------------------------
(* Type correctness.                                                         *)

LEMMA InitType == Init => TypeOK
  <1>1. NoRow \in Row
    BY DEF Row, Status, NoRow
  <1> QED
    BY <1>1 DEF Init, TypeOK, Sessions, ApiState, QueueState, PC, Mishaps

\* The steps of the handlers and of the queue.
LEMMA HandlerType ==
  ASSUME TypeOK, NEW j \in Jobs,
         \/ CreateJob(j) \/ EnqueueJob(j) \/ EnqueueFails(j) \/ RejectJob(j)
         \/ HandlerDies(j) \/ GiveUp(j) \/ LeaseExpires(j)
         \/ \E w \in Workers : Take(w, j)
  PROVE  TypeOK'
  <1> USE DEF TypeOK, ApiState, QueueState, PC, Mishaps
  <1>s. j \in Sessions
    BY DEF Sessions
  <1>1. CASE CreateJob(j)
    <2>1. PendingRow \in Row
      BY DEF Row, Status, PendingRow
    <2> QED BY <1>1, <1>s, <2>1 DEF CreateJob
  <1>2. CASE EnqueueJob(j)
    <2>1. copy' \in [Sessions -> Row]
      BY <1>2, <1>s, CloseType DEF EnqueueJob
    <2> QED BY <1>2, <2>1 DEF EnqueueJob
  <1>3. CASE EnqueueFails(j)
    BY <1>3 DEF EnqueueFails
  <1>4. CASE RejectJob(j)
    <2>1. row' \in [Jobs -> Row] /\ copy' \in [Sessions -> Row]
      BY <1>4, <1>s, ServiceType, 0 \in Nat DEF RejectJob
    <2> QED BY <1>4, <2>1 DEF RejectJob
  <1>5. CASE HandlerDies(j)
    <2>1. copy' \in [Sessions -> Row]
      BY <1>5, <1>s, CloseType DEF HandlerDies
    <2> QED BY <1>5, <2>1 DEF HandlerDies
  <1>6. CASE GiveUp(j)
    BY <1>6 DEF GiveUp
  <1>7. CASE LeaseExpires(j)
    BY <1>7 DEF LeaseExpires
  <1>8. CASE \E w \in Workers : Take(w, j)
    BY <1>8 DEF Take
  <1> QED BY <1>1, <1>2, <1>3, <1>4, <1>5, <1>6, <1>7, <1>8

\* A slot past "idle" works on a job.
Assigned == \A w \in Workers : task[w] = NoJob <=> pc[w] = "idle"

\* The steps of a worker.
LEMMA WorkerType ==
  ASSUME TypeOK, Assigned, NEW w \in Workers,
         \/ WorkerStep(w) \/ ScanRollsBack(w) \/ Timeout(w) \/ Crash(w)
  PROVE  TypeOK'
  <1> USE DEF TypeOK, QueueState, PC
  <1>s. w \in Sessions
    BY DEF Sessions
  <1>t. pc[w] # "idle" => task[w] \in Jobs
    BY DEF Assigned
  <1>1. CASE Load(w)
    BY <1>1, <1>s, <1>t DEF Load, Goto
  <1>2. CASE Start(w)
    <2>1. row' \in [Jobs -> Row] /\ copy' \in [Sessions -> Row]
      BY <1>2, <1>s, <1>t, ServiceType, 0 \in Nat DEF Start
    <2> QED BY <1>2, <2>1 DEF Start, Goto
  <1>3. CASE Refresh(w)
    BY <1>3, <1>s, <1>t DEF Refresh, AfterRefresh, Goto
  <1>4. CASE Work(w)
    BY <1>4 DEF Work, Goto
  <1>5. CASE ScanRollsBack(w)
    <2>1. copy' \in [Sessions -> Row]
      BY <1>5, <1>s, CloseType DEF ScanRollsBack
    <2> QED BY <1>5, <2>1 DEF ScanRollsBack
  <1>6. CASE Count(w)
    <2>1. PICK d \in Deltas : Increment(w, task[w], d)
      BY <1>6 DEF Count
    <2>2. d \in Nat
      BY ConstantsAssumption
    <2>3. row' \in [Jobs -> Row] /\ copy' \in [Sessions -> Row]
      BY <1>6, <1>s, <1>t, <2>1, <2>2, ServiceType DEF Count
    <2>4. counted' \in [Jobs -> Nat]
      BY <1>6, <1>t, <2>1, <2>2 DEF Count, Increment
    <2> QED BY <1>6, <2>3, <2>4 DEF Count, Goto
  <1>7. CASE Complete(w)
    <2>1. row' \in [Jobs -> Row] /\ copy' \in [Sessions -> Row]
      BY <1>7, <1>s, <1>t, ServiceType, 0 \in Nat DEF Complete
    <2> QED BY <1>7, <2>1 DEF Complete, Goto
  <1>8. CASE AlreadyComplete(w)
    BY <1>8 DEF AlreadyComplete, Goto
  <1>9. CASE Notify(w)
    BY <1>9 DEF Notify, Goto
  <1>10. CASE Raise(w)
    <2>1. copy' \in [Sessions -> Row]
      BY <1>10, <1>s, CloseType DEF Raise
    <2> QED BY <1>10, <2>1 DEF Raise, Goto
  <1>11. CASE Fail(w)
    <2>1. row' \in [Jobs -> Row] /\ copy' \in [Sessions -> Row]
      BY <1>11, <1>s, <1>t, ServiceType, 0 \in Nat DEF Fail
    <2> QED BY <1>11, <2>1 DEF Fail, Goto
  <1>12. CASE Return(w)
    <2>1. copy' \in [Sessions -> Row]
      BY <1>12, <1>s, CloseType DEF Return, Release
    <2> QED BY <1>12, <2>1 DEF Return, Release, Goto
  <1>13. CASE Timeout(w)
    <2>1. copy' \in [Sessions -> Row]
      BY <1>13, <1>s, CloseType DEF Timeout, Release
    <2> QED BY <1>13, <2>1 DEF Timeout, Release, Goto
  <1>14. CASE Crash(w)
    <2>1. copy' \in [Sessions -> Row]
      BY <1>14, <1>s, CloseType DEF Crash, Release
    <2> QED BY <1>14, <2>1 DEF Crash, Release, Goto
  <1> QED
    BY <1>1, <1>2, <1>3, <1>4, <1>5, <1>6, <1>7, <1>8, <1>9, <1>10, <1>11,
       <1>12, <1>13, <1>14 DEF WorkerStep

LEMMA AssignedStep ==
  ASSUME TypeOK, Assigned, [Next]_vars
  PROVE  Assigned'
  <1> USE DEF Assigned, TypeOK
  <1>1. ASSUME NEW j \in Jobs, NEW w \in Workers, Take(w, j)
        PROVE  Assigned'
    BY <1>1, ConstantsAssumption DEF Take
  <1>2. ASSUME NEW w \in Workers, WorkerStep(w) \/ ScanRollsBack(w)
        PROVE  Assigned'
    BY <1>2 DEF WorkerStep, Load, Start, Refresh, AfterRefresh, Work,
       ScanRollsBack, Count, Complete, AlreadyComplete, Notify, Refuses, Raise,
       Fail, Return, Release, Goto
  <1>3. ASSUME NEW w \in Workers, Timeout(w) \/ Crash(w)
        PROVE  Assigned'
    BY <1>3 DEF Timeout, Crash, Release, Goto
  <1> QED
    BY <1>1, <1>2, <1>3 DEF Next, vars, WorkerStep, CreateJob, EnqueueJob,
       EnqueueFails, RejectJob, HandlerDies, GiveUp, LeaseExpires

\* The variables of AuditJobs keep their types, whatever the environment does.
THEOREM TypeCorrect == Spec => [](TypeOK /\ Assigned)
  <1>1. Init => TypeOK /\ Assigned
    BY InitType DEF Init, Assigned
  <1>2. TypeOK /\ Assigned /\ [Next]_vars => TypeOK' /\ Assigned'
    <2> SUFFICES ASSUME TypeOK, Assigned, [Next]_vars
                 PROVE  TypeOK' /\ Assigned'
      OBVIOUS
    <2>1. CASE UNCHANGED vars
      BY <2>1, AssignedStep DEF vars, TypeOK
    <2>2. CASE Next
      BY <2>2, HandlerType, WorkerType, AssignedStep DEF Next, WorkerStep
    <2> QED BY <2>1, <2>2
  <1> QED BY <1>1, <1>2, PTL DEF Spec

-------------------------------------------------------------------------------
(* The inductive invariant.  It says where each handler and each slot stand  *)
(* relative to the row, for the jobs that met no mishap: such a job has one  *)
(* writer at a time, and the object this writer holds is the row.            *)

Handled(j) ==
  /\ api[j] \in {"idle", "created"} =>
       queue[j] = "absent" /\ \A w \in Workers : task[w] # j
  /\ api[j] = "idle" => row[j] = NoRow
  /\ api[j] = "created" => row[j] = PendingRow /\ copy[j] = PendingRow
  /\ mishaps[j] = {} =>
       /\ api[j] = "rejected" => row[j] = PendingRow /\ copy[j] = PendingRow
       /\ api[j] = "refused" => row[j].status = "failed"
       /\ api[j] # "accepted" => queue[j] = "absent"
       /\ api[j] = "accepted" => row[j].status # "none"
       /\ Consistent(row[j])
       /\ notified[j] => row[j].status = "completed"

Stage(w, r) ==
  /\ pc[w] = "mark" => r.status # "completed"
  /\ pc[w] \in {"marked", "work", "count", "counted", "complete"} =>
       r.status = "running"
  /\ pc[w] \in {"finished", "notify"} => r.status = "completed"

Serving(w) ==
  /\ task[w] = NoJob => copy[w] = NoRow
  /\ task[w] # NoJob /\ mishaps[task[w]] = {} =>
       /\ queue[task[w]] = "running"
       /\ copy[w].status # "none" => copy[w] = row[task[w]]
       /\ Stage(w, row[task[w]])
       /\ \A v \in Workers : task[v] = task[w] => v = w

Inv ==
  /\ TypeOK
  /\ Assigned
  /\ \A j \in Jobs : Handled(j)
  /\ \A w \in Workers : Serving(w)

\* What a step may do to the row of a job: nothing, or one step of the ledger.
RowStep(j) ==
  \/ row'[j] = row[j]
  \/ row[j] = NoRow /\ row'[j] = PendingRow
  \/ /\ row[j].status \notin {"none", "completed"}
     /\ row'[j] = Running(row[j])
  \/ /\ row[j].status = "running"
     /\ \E d \in Deltas : row'[j] = Incremented(row[j], d)
  \/ row[j].status = "running" /\ row'[j] = Completed(row[j])
  \/ /\ row[j].status \notin {"none", "completed", "failed"}
     /\ row'[j] = Failed(row[j])

WorkerAct(w) == WorkerStep(w) \/ ScanRollsBack(w) \/ Timeout(w) \/ Crash(w)

\* Each service function turns a consistent row into a consistent one.
LEMMA ConsistentOps ==
  ASSUME NEW o \in Row, NEW d \in Nat, Consistent(o)
  PROVE  /\ o.status \notin {"none", "completed"} => Consistent(Running(o))
         /\ Consistent(Incremented(o, d))
         /\ Consistent(Completed(o))
         /\ Consistent(Failed(o))
  <1>1. ASSUME o.status \notin {"none", "completed"}
        PROVE  Consistent(Running(o))
    <2>1. CASE o.status = "failed"
      BY <2>1 DEF Consistent, Running, Row
    <2>2. CASE o.status \in {"pending", "running"}
      <3>1. o.finished = FALSE /\ o.error = FALSE
        BY <2>2 DEF Consistent, Row
      <3> QED BY <2>2, <3>1 DEF Consistent, Running, Row
    <2> QED BY <1>1, <2>1, <2>2 DEF Row, Status
  <1>2. Consistent(Incremented(o, d))
    BY DEF Consistent, Incremented, Row
  <1>3. Consistent(Completed(o)) /\ Consistent(Failed(o))
    BY DEF Consistent, Completed, Failed, Row
  <1> QED BY <1>1, <1>2, <1>3

\* A session that holds the current row, or none, writes as the function says.
LEMMA FreshCommit ==
  ASSUME TypeOK, NEW s \in Sessions, NEW j \in Jobs, NEW n \in Row, NEW S,
         Locked(s, j) = row[j], Commit(s, j, n, S)
  PROVE  /\ row' = [row EXCEPT ![j] = n]
         /\ copy' = [copy EXCEPT ![s] = n]
  <1>1. Merge(row[j], Locked(s, j), n, S) = n
    BY MergeSame DEF TypeOK
  <1> QED BY <1>1 DEF Commit

\* A step of slot w leaves the other jobs, sessions and slots alone.
LEMMA WorkerFrame ==
  ASSUME Inv, NEW w \in Workers, WorkerAct(w)
  PROVE  /\ task[w] \in Jobs
         /\ api' = api /\ mishaps' = mishaps
         /\ \A k \in Jobs : k # task[w] =>
              /\ row'[k] = row[k] /\ queue'[k] = queue[k]
              /\ notified'[k] = notified[k]
         /\ \A s \in Sessions : s # w => copy'[s] = copy[s]
         /\ \A v \in Workers : v # w => task'[v] = task[v] /\ pc'[v] = pc[v]
         /\ task'[w] = task[w] \/ (task'[w] = NoJob /\ copy'[w] = NoRow)
  <1> USE DEF Inv, TypeOK
  <1>s. w \in Sessions
    BY DEF Sessions
  <1>t. task[w] \in Jobs
    BY DEF Assigned, WorkerAct, WorkerStep, Load, Start, Refresh, Work,
       ScanRollsBack, Count, Complete, AlreadyComplete, Notify, Raise, Refuses,
       Fail, Return, Timeout, Crash
  <1>c. \A n, S : Commit(w, task[w], n, S) =>
          /\ \A k \in Jobs : k # task[w] => row'[k] = row[k]
          /\ \A s \in Sessions : s # w => copy'[s] = copy[s]
    BY <1>t DEF Commit
  <1>1. CASE Load(w) \/ Refresh(w) \/ Work(w) \/ AlreadyComplete(w)
    BY <1>1, <1>t DEF Load, Refresh, Work, AlreadyComplete, Goto
  <1>2. CASE Start(w)
    BY <1>2, <1>t, <1>c DEF Start, MarkRunning, Goto
  <1>3. CASE ScanRollsBack(w) \/ Raise(w)
    BY <1>3, <1>t DEF ScanRollsBack, Raise, Close, Goto
  <1>4. CASE Count(w)
    BY <1>4, <1>t, <1>c DEF Count, Increment, Goto
  <1>5. CASE Complete(w)
    BY <1>5, <1>t, <1>c DEF Complete, MarkCompleted, Goto
  <1>6. CASE Notify(w)
    BY <1>6, <1>t DEF Notify, Goto
  <1>7. CASE Fail(w)
    BY <1>7, <1>t, <1>c DEF Fail, MarkFailed, Goto
  <1>8. CASE Return(w) \/ Timeout(w) \/ Crash(w)
    BY <1>8, <1>s, <1>t DEF Return, Timeout, Crash, Release, Close, Goto
  <1> QED
    BY <1>1, <1>2, <1>3, <1>4, <1>5, <1>6, <1>7, <1>8 DEF WorkerAct, WorkerStep

\* What slot w does to its own job, when that met no mishap.
LEMMA WorkerOwn ==
  ASSUME Inv, NEW w \in Workers, WorkerAct(w), NEW j \in Jobs, j = task[w],
         mishaps[j] = {}
  PROVE  /\ RowStep(j)
         /\ row'[j].status # "none"
         /\ Consistent(row'[j])
         /\ notified'[j] => row'[j].status = "completed"
         /\ task'[w] = j =>
              /\ queue'[j] = "running"
              /\ copy'[w].status # "none" => copy'[w] = row'[j]
              /\ Stage(w, row[j])'
  <1> USE DEF TypeOK
  <1>i. TypeOK /\ Assigned /\ Handled(j) /\ Serving(w)
    BY DEF Inv
  <1>s. w \in Sessions
    BY DEF Sessions
  <1>r. row[j] \in Row
    BY <1>i
  <1>q. /\ task[w] # NoJob
        /\ queue[j] = "running"
        /\ copy[w].status # "none" => copy[w] = row[j]
        /\ Stage(w, row[j])
    BY <1>i, ConstantsAssumption DEF Serving
  <1>h. /\ row[j].status # "none"
        /\ Consistent(row[j])
        /\ notified[j] => row[j].status = "completed"
    BY <1>i, <1>q DEF Handled
  <1>l. Locked(w, j) = row[j]
    BY <1>q DEF Locked
  <1>c. ASSUME NEW n \in Row, NEW S, Commit(w, j, n, S)
        PROVE  row'[j] = n /\ copy'[w] = n
    BY <1>c, <1>i, <1>s, <1>l, FreshCommit
  <1>n. NoRow.status = "none"
    BY DEF NoRow
  <1>1. CASE Load(w) \/ Refresh(w)
    BY <1>1, <1>i, <1>s, <1>q, <1>h
    DEF Load, Refresh, AfterRefresh, Goto, RowStep, Stage
  <1>2. CASE Start(w)
    <2>1. Running(row[j]) \in Row /\ Running(row[j]).status = "running"
      BY <1>r, RowTypes, 0 \in Nat DEF Running, Row
    <2>2. row'[j] = Running(row[j]) /\ copy'[w] = Running(row[j])
      BY <1>2, <1>l, <1>c, <2>1 DEF Start, MarkRunning
    <2>3. row[j].status \notin {"none", "completed"}
      BY <1>2, <1>q, <1>h DEF Start, Stage
    <2>4. Consistent(row'[j])
      BY <1>r, <1>h, <2>2, <2>3, ConsistentOps, 0 \in Nat
    <2>5. notified'[j] = notified[j] /\ queue'[j] = queue[j]
      BY <1>2 DEF Start
    <2>6. pc'[w] = "marked"
      BY <1>2, <1>i DEF Start, Goto
    <2> QED
      BY <1>q, <1>h, <2>1, <2>2, <2>3, <2>4, <2>5, <2>6 DEF RowStep, Stage
  <1>3. CASE Work(w) \/ AlreadyComplete(w)
    BY <1>3, <1>i, <1>q, <1>h, <1>l
    DEF Work, AlreadyComplete, Goto, RowStep, Stage
  <1>4. CASE ScanRollsBack(w) \/ Raise(w)
    BY <1>4, <1>i, <1>s, <1>q, <1>h, <1>n
    DEF ScanRollsBack, Raise, Close, Goto, RowStep, Stage
  <1>5. CASE Count(w)
    <2>1. PICK d \in Deltas : Increment(w, j, d)
      BY <1>5 DEF Count
    <2>2. d \in Nat
      BY ConstantsAssumption
    <2>3. /\ Incremented(row[j], d) \in Row
          /\ Incremented(row[j], d).status = "running"
      BY <1>r, <2>2, RowTypes DEF Incremented, Row
    <2>4. /\ row'[j] = Incremented(row[j], d)
          /\ copy'[w] = Incremented(row[j], d)
      BY <1>l, <1>c, <2>1, <2>3 DEF Increment
    <2>5. row[j].status = "running"
      BY <1>5, <1>q DEF Count, Stage
    <2>6. Consistent(row'[j])
      BY <1>r, <1>h, <2>2, <2>4, ConsistentOps
    <2>7. notified'[j] = notified[j] /\ queue'[j] = queue[j]
      BY <1>5 DEF Count
    <2>8. pc'[w] = "counted"
      BY <1>5, <1>i DEF Count, Goto
    <2> QED
      BY <1>q, <1>h, <2>3, <2>4, <2>5, <2>6, <2>7, <2>8 DEF RowStep, Stage
  <1>6. CASE Complete(w)
    <2>1. Completed(row[j]) \in Row /\ Completed(row[j]).status = "completed"
      BY <1>r, RowTypes, 0 \in Nat DEF Completed, Row
    <2>2. row'[j] = Completed(row[j]) /\ copy'[w] = Completed(row[j])
      BY <1>6, <1>l, <1>c, <2>1 DEF Complete, MarkCompleted
    <2>3. row[j].status = "running"
      BY <1>6, <1>q DEF Complete, Stage
    <2>4. Consistent(row'[j])
      BY <1>r, <1>h, <2>2, ConsistentOps, 0 \in Nat
    <2>5. notified'[j] = notified[j] /\ queue'[j] = queue[j]
      BY <1>6 DEF Complete
    <2>6. pc'[w] = "finished"
      BY <1>6, <1>i DEF Complete, Goto
    <2> QED
      BY <1>q, <1>h, <2>1, <2>2, <2>3, <2>4, <2>5, <2>6 DEF RowStep, Stage
  <1>7. CASE Notify(w)
    <2>1. row[j].status = "completed"
      BY <1>7, <1>q DEF Notify, Stage
    <2> QED
      BY <1>7, <1>i, <1>q, <1>h, <2>1 DEF Notify, Goto, RowStep, Stage
  <1>8. CASE Fail(w)
    <2>1. Failed(row[j]) \in Row /\ Failed(row[j]).status = "failed"
      BY <1>r, RowTypes, 0 \in Nat DEF Failed, Row
    <2>2. /\ notified'[j] = notified[j] /\ queue'[j] = queue[j]
          /\ pc'[w] = "return"
      BY <1>8, <1>i DEF Fail, Goto
    <2>3. CASE MarkFailed(w, j)
      <3>1. row'[j] = Failed(row[j]) /\ copy'[w] = Failed(row[j])
        BY <1>l, <1>c, <2>1, <2>3 DEF MarkFailed
      <3>2. row[j].status \notin {"none", "completed", "failed"}
        BY <1>l, <1>h, <2>3 DEF MarkFailed, CanFail, Terminal
      <3>3. Consistent(row'[j])
        BY <1>r, <1>h, <3>1, ConsistentOps, 0 \in Nat
      <3> QED
        BY <1>q, <1>h, <2>1, <2>2, <3>1, <3>2, <3>3 DEF RowStep, Stage
    <2>4. CASE UNCHANGED <<row, copy>>
      BY <1>q, <1>h, <2>2, <2>4 DEF RowStep, Stage
    <2> QED BY <1>8, <2>3, <2>4 DEF Fail
  <1>9. CASE Return(w) \/ Timeout(w) \/ Crash(w)
    <2>1. task'[w] = NoJob /\ UNCHANGED <<row, notified>>
      BY <1>9, <1>i DEF Return, Timeout, Crash, Release
    <2> QED BY <1>q, <1>h, <2>1 DEF RowStep
  <1> QED
    BY <1>1, <1>2, <1>3, <1>4, <1>5, <1>6, <1>7, <1>8, <1>9
    DEF WorkerAct, WorkerStep

\* A step of a worker keeps the invariant and takes a ledger step.
LEMMA WorkerInv ==
  ASSUME Inv, NEW w \in Workers, WorkerAct(w)
  PROVE  /\ \A j \in Jobs : Handled(j)'
         /\ \A v \in Workers : Serving(v)'
         /\ \A j \in Jobs : mishaps[j] = {} => RowStep(j)
  <1>f. /\ task[w] \in Jobs /\ task[w] # NoJob
        /\ api' = api /\ mishaps' = mishaps
        /\ \A k \in Jobs : k # task[w] =>
             /\ row'[k] = row[k] /\ queue'[k] = queue[k]
             /\ notified'[k] = notified[k]
        /\ \A s \in Sessions : s # w => copy'[s] = copy[s]
        /\ \A v \in Workers : v # w => task'[v] = task[v] /\ pc'[v] = pc[v]
        /\ task'[w] = task[w] \/ (task'[w] = NoJob /\ copy'[w] = NoRow)
    BY WorkerFrame, ConstantsAssumption
  <1>o. mishaps[task[w]] = {} =>
          /\ RowStep(task[w])
          /\ row'[task[w]].status # "none"
          /\ Consistent(row'[task[w]])
          /\ notified'[task[w]] => row'[task[w]].status = "completed"
          /\ task'[w] = task[w] =>
               /\ queue'[task[w]] = "running"
               /\ copy'[w].status # "none" => copy'[w] = row'[task[w]]
               /\ Stage(w, row[task[w]])'
    BY <1>f, WorkerOwn
  <1>1. ASSUME NEW j \in Jobs
        PROVE  Handled(j)'
    <2>0. Handled(j) /\ j \in Sessions /\ j # w
      BY ConstantsAssumption DEF Inv, Sessions
    <2>t. \A v \in Workers : task'[v] = j => task[v] = j
      BY <1>f, ConstantsAssumption
    <2>1. CASE j # task[w]
      BY <1>f, <2>0, <2>t, <2>1 DEF Handled
    <2>2. CASE j = task[w]
      <3>1. api[j] \notin {"idle", "created"}
        BY <2>0, <2>2 DEF Handled
      <3>2. mishaps[j] = {} => api[j] = "accepted"
        <4> SUFFICES ASSUME mishaps[j] = {} PROVE api[j] = "accepted"
          OBVIOUS
        <4>1. queue[j] = "running"
          BY <1>f, <2>2 DEF Inv, Serving
        <4> QED BY <2>0, <4>1 DEF Handled
      <3> QED BY <1>f, <1>o, <2>2, <3>1, <3>2 DEF Handled
    <2> QED BY <2>1, <2>2
  <1>2. ASSUME NEW v \in Workers
        PROVE  Serving(v)'
    <2>0. Serving(v) /\ Serving(w) /\ v \in Sessions
      BY DEF Inv, Sessions
    <2>1. CASE v = w
      <3>1. \A u \in Workers : task'[w] # NoJob /\ task'[u] = task'[w]
                                /\ mishaps[task[w]] = {} => u = w
        BY <1>f, <2>0 DEF Serving
      <3> QED BY <1>f, <1>o, <2>0, <2>1, <3>1 DEF Serving
    <2>2. CASE v # w
      <3>1. task'[v] = task[v] /\ pc'[v] = pc[v] /\ copy'[v] = copy[v]
        BY <1>f, <2>0, <2>2
      <3>2. ASSUME task[v] # NoJob, mishaps[task[v]] = {}
            PROVE  /\ task[v] \in Jobs /\ task[v] # task[w]
                   /\ \A u \in Workers : task'[u] = task[v] => u = v
        BY <1>f, <2>0, <2>2, <3>2 DEF Serving, Inv, TypeOK
      <3>3. task[v] # NoJob /\ mishaps[task[v]] = {} =>
              row'[task[v]] = row[task[v]] /\ queue'[task[v]] = queue[task[v]]
        BY <1>f, <3>2
      <3> QED BY <1>f, <2>0, <3>1, <3>2, <3>3 DEF Serving, Stage
    <2> QED BY <2>1, <2>2
  <1>3. ASSUME NEW j \in Jobs, mishaps[j] = {}
        PROVE  RowStep(j)
    BY <1>3, <1>f, <1>o DEF RowStep
  <1> QED BY <1>1, <1>2, <1>3

HandlerAct(j) ==
  \/ CreateJob(j) \/ EnqueueJob(j) \/ EnqueueFails(j) \/ RejectJob(j)
  \/ HandlerDies(j) \/ GiveUp(j) \/ LeaseExpires(j)

\* A step of the handler or of the queue on job j leaves the rest alone.
LEMMA HandlerFrame ==
  ASSUME Inv, NEW j \in Jobs, HandlerAct(j)
  PROVE  /\ task' = task /\ pc' = pc /\ notified' = notified
         /\ \A k \in Jobs : k # j =>
              /\ row'[k] = row[k] /\ queue'[k] = queue[k]
              /\ api'[k] = api[k] /\ mishaps'[k] = mishaps[k]
              /\ copy'[k] = copy[k]
         /\ \A v \in Workers : copy'[v] = copy[v]
         /\ mishaps[j] # {} => mishaps'[j] # {}
  <1> USE DEF Inv, TypeOK
  <1>1. \A v \in Workers : v \in Sessions /\ v # j
    BY ConstantsAssumption DEF Sessions
  <1>2. \A k \in Jobs : k \in Sessions
    BY DEF Sessions
  <1>3. CASE CreateJob(j) \/ EnqueueJob(j) \/ HandlerDies(j)
    BY <1>1, <1>2, <1>3 DEF CreateJob, EnqueueJob, HandlerDies, Close
  <1>4. CASE RejectJob(j)
    BY <1>1, <1>2, <1>4 DEF RejectJob, MarkFailed, Commit
  <1>5. CASE EnqueueFails(j) \/ GiveUp(j) \/ LeaseExpires(j)
    BY <1>1, <1>2, <1>5 DEF EnqueueFails, GiveUp, LeaseExpires
  <1> QED BY <1>3, <1>4, <1>5 DEF HandlerAct

\* What such a step does to the job itself.
LEMMA HandlerOwn ==
  ASSUME Inv, NEW j \in Jobs, HandlerAct(j)
  PROVE  /\ Handled(j)'
         /\ mishaps[j] = {} => RowStep(j)
         /\ mishaps'[j] = {} => \A v \in Workers : task[v] # j
              \/ (row'[j] = row[j] /\ queue'[j] = queue[j])
  <1> USE DEF TypeOK
  <1>i. TypeOK /\ Handled(j) /\ \A v \in Workers : Serving(v)
    BY DEF Inv
  <1>s. j \in Sessions
    BY DEF Sessions
  <1>p. /\ PendingRow.status = "pending" /\ NoRow.status = "none"
        /\ PendingRow \in Row /\ Consistent(PendingRow)
    BY DEF PendingRow, NoRow, Row, Status, Consistent
  <1>j. j # NoJob
    BY ConstantsAssumption
  <1>n. mishaps[j] = {} /\ queue[j] # "running" => \A v \in Workers : task[v] # j
    BY <1>i, <1>j DEF Serving
  <1>1. CASE CreateJob(j)
    BY <1>1, <1>i, <1>s, <1>p DEF CreateJob, Handled, RowStep
  <1>2. CASE EnqueueJob(j)
    BY <1>2, <1>i, <1>s, <1>p DEF EnqueueJob, Handled, RowStep, Close
  <1>3. CASE EnqueueFails(j)
    BY <1>3, <1>i, <1>p, <1>n DEF EnqueueFails, Handled, RowStep
  <1>4. CASE RejectJob(j)
    <2>1. api'[j] = "refused" /\ mishaps' = mishaps /\ queue' = queue
          /\ notified' = notified /\ api[j] = "rejected"
      BY <1>4, <1>i DEF RejectJob
    <2>2. CASE mishaps[j] = {}
      <3>1. row[j] = PendingRow /\ copy[j] = PendingRow /\ queue[j] = "absent"
        BY <1>i, <2>1, <2>2 DEF Handled
      <3>2. Locked(j, j) = row[j]
        BY <3>1, <1>p DEF Locked
      <3>3. Failed(row[j]) \in Row /\ Failed(row[j]).status = "failed"
        <4>1. row[j] \in Row
          BY <1>i
        <4> QED BY <4>1, RowTypes, 0 \in Nat DEF Failed, Row
      <3>4. row'[j] = Failed(row[j])
        BY <1>4, <1>i, <1>s, <3>2, <3>3, FreshCommit DEF RejectJob, MarkFailed
      <3>5. Consistent(row'[j])
        BY <1>i, <1>p, <3>1, <3>4, ConsistentOps, 0 \in Nat
      <3>6. ~notified[j]
        BY <1>i, <1>p, <2>2, <3>1 DEF Handled
      <3> QED
        BY <1>n, <1>p, <2>1, <2>2, <3>1, <3>3, <3>4, <3>5, <3>6
        DEF Handled, RowStep
    <2>3. CASE mishaps[j] # {}
      BY <2>1, <2>3 DEF Handled
    <2> QED BY <2>2, <2>3
  <1>5. CASE HandlerDies(j)
    BY <1>5, <1>i, <1>s, <1>p, <1>n DEF HandlerDies, Handled, RowStep, Close
  <1>6. CASE GiveUp(j)
    BY <1>6, <1>i, <1>n DEF GiveUp, Handled, RowStep
  <1>7. CASE LeaseExpires(j)
    BY <1>7, <1>i DEF LeaseExpires, Handled, RowStep
  <1> QED
    BY <1>1, <1>2, <1>3, <1>4, <1>5, <1>6, <1>7 DEF HandlerAct

LEMMA HandlerInv ==
  ASSUME Inv, NEW j \in Jobs, HandlerAct(j)
  PROVE  /\ \A k \in Jobs : Handled(k)'
         /\ \A v \in Workers : Serving(v)'
         /\ \A k \in Jobs : mishaps[k] = {} => RowStep(k)
  <1>f. /\ task' = task /\ pc' = pc /\ notified' = notified
        /\ \A k \in Jobs : k # j =>
             /\ row'[k] = row[k] /\ queue'[k] = queue[k]
             /\ api'[k] = api[k] /\ mishaps'[k] = mishaps[k]
             /\ copy'[k] = copy[k]
        /\ \A v \in Workers : copy'[v] = copy[v]
        /\ mishaps[j] # {} => mishaps'[j] # {}
    BY HandlerFrame
  <1>o. /\ Handled(j)'
        /\ mishaps[j] = {} => RowStep(j)
        /\ mishaps'[j] = {} => \A v \in Workers : task[v] # j
             \/ (row'[j] = row[j] /\ queue'[j] = queue[j])
    BY HandlerOwn
  <1>1. ASSUME NEW k \in Jobs
        PROVE  Handled(k)' /\ (mishaps[k] = {} => RowStep(k))
    <2>1. Handled(k)
      BY DEF Inv
    <2> QED BY <1>f, <1>o, <2>1 DEF Handled, RowStep
  <1>2. ASSUME NEW v \in Workers
        PROVE  Serving(v)'
    <2>1. Serving(v) /\ task[v] \in Jobs \cup {NoJob}
      BY DEF Inv, TypeOK
    <2> QED BY <1>f, <1>o, <2>1 DEF Serving, Stage
  <1> QED BY <1>1, <1>2

LEMMA TakeInv ==
  ASSUME Inv, NEW j \in Jobs, NEW w \in Workers, Take(w, j)
  PROVE  /\ \A k \in Jobs : Handled(k)'
         /\ \A v \in Workers : Serving(v)'
         /\ \A k \in Jobs : RowStep(k)
  <1> USE DEF Take
  <1>f. /\ row' = row /\ copy' = copy /\ api' = api /\ notified' = notified
        /\ mishaps' = mishaps
        /\ queue' = [queue EXCEPT ![j] = "running"]
        /\ task' = [task EXCEPT ![w] = j]
        /\ pc' = [pc EXCEPT ![w] = "load"]
        /\ queue[j] = "queued" /\ task[w] = NoJob
    OBVIOUS
  <1>t. TypeOK /\ j # NoJob /\ Handled(j)
    BY ConstantsAssumption DEF Inv
  <1>1. ASSUME NEW k \in Jobs
        PROVE  Handled(k)'
    <2>1. Handled(k)
      BY DEF Inv
    <2> QED BY <1>f, <1>t, <2>1 DEF Handled, TypeOK
  <1>2. ASSUME NEW v \in Workers
        PROVE  Serving(v)'
    <2>1. Serving(v) /\ Serving(w)
      BY DEF Inv
    <2>2. mishaps[j] = {} => \A u \in Workers : task[u] # j
      BY <1>f, <1>t DEF Inv, Serving
    <2>3. CASE v = w
      BY <1>f, <1>t, <2>1, <2>2, <2>3 DEF Serving, Stage, TypeOK, NoRow
    <2>4. CASE v # w
      BY <1>f, <1>t, <2>1, <2>2, <2>4 DEF Serving, Stage, TypeOK
    <2> QED BY <2>3, <2>4
  <1> QED BY <1>f, <1>1, <1>2 DEF RowStep

LEMMA InitInv == Init => Inv
  <1> SUFFICES ASSUME Init PROVE Inv
    OBVIOUS
  <1>1. TypeOK /\ Assigned
    BY InitType DEF Init, Assigned
  <1>2. Consistent(NoRow)
    BY DEF Consistent, NoRow
  <1>3. \A j \in Jobs : Handled(j)
    BY <1>2, ConstantsAssumption DEF Init, Handled
  <1>4. \A w \in Workers : Serving(w)
    BY DEF Init, Serving, Sessions
  <1> QED BY <1>1, <1>3, <1>4 DEF Inv

\* The invariant is inductive, and every step is a ledger step on the row of
\* each job that met no mishap.
LEMMA NextInv ==
  ASSUME Inv, [Next]_vars
  PROVE  Inv' /\ \A j \in Jobs : mishaps[j] = {} => RowStep(j)
  <1>1. TypeOK' /\ Assigned'
    <2>1. CASE UNCHANGED vars
      BY <2>1, AssignedStep DEF Inv, vars, TypeOK
    <2>2. CASE Next
      BY <2>2, HandlerType, WorkerType, AssignedStep DEF Inv, Next, WorkerStep
    <2> QED BY <2>1, <2>2
  <1>2. /\ \A j \in Jobs : Handled(j)'
        /\ \A w \in Workers : Serving(w)'
        /\ \A j \in Jobs : mishaps[j] = {} => RowStep(j)
    <2>1. CASE UNCHANGED vars
      BY <2>1 DEF Inv, vars, Handled, Serving, Stage, RowStep
    <2>2. ASSUME NEW j \in Jobs, HandlerAct(j)
          PROVE  <1>2!1 /\ <1>2!2 /\ <1>2!3
      BY <2>2, HandlerInv
    <2>3. ASSUME NEW j \in Jobs, NEW w \in Workers, Take(w, j)
          PROVE  <1>2!1 /\ <1>2!2 /\ <1>2!3
      BY <2>3, TakeInv
    <2>4. ASSUME NEW w \in Workers, WorkerAct(w)
          PROVE  <1>2!1 /\ <1>2!2 /\ <1>2!3
      BY <2>4, WorkerInv
    <2>5. CASE Next
      BY <2>2, <2>3, <2>4, <2>5 DEF Next, HandlerAct, WorkerAct, WorkerStep
    <2> QED BY <2>1, <2>5
  <1> QED BY <1>1, <1>2 DEF Inv

THEOREM Invariance == Spec => []Inv
  <1>1. Init => Inv
    BY InitInv
  <1>2. Inv /\ [Next]_vars => Inv'
    BY NextInv
  <1> QED BY <1>1, <1>2, PTL DEF Spec

\* A job row is never read in a state its status contradicts, whatever
\* crashes, retries, timeouts and rollbacks there are.
THEOREM RowsAreConsistent == Spec => []RowConsistent
  <1>1. Inv => RowConsistent
    BY DEF Inv, Handled, RowConsistent
  <1> QED BY <1>1, Invariance, PTL

\* What was answered 503 never runs.
THEOREM RefusedRequestsNeverRun == Spec => []RefusedNeverRuns
  <1>1. Inv => RefusedNeverRuns
    BY DEF Inv, Handled, RefusedNeverRuns
  <1> QED BY <1>1, Invariance, PTL

\* Notifications are about completed runs.
THEOREM NotificationsFollowCompletion == Spec => []NotifiedOnlyCompleted
  <1>1. Inv => NotifiedOnlyCompleted
    BY DEF Inv, Handled, NotifiedOnlyCompleted
  <1> QED BY <1>1, Invariance, PTL

\* A completed job that met no mishap is never written again.
THEOREM CompletedJobsAreFinal == Spec => UndisturbedIsFinal
  <1>1. ASSUME Inv, [Next]_vars, NEW j \in Jobs,
               row[j].status = "completed", mishaps[j] = {}
        PROVE  row'[j] = row[j]
    <2>1. RowStep(j)
      BY <1>1, NextInv
    <2> QED BY <1>1, <2>1 DEF RowStep, NoRow
  <1>2. Inv /\ [Next]_vars =>
          [\A j \in Jobs : row[j].status = "completed" /\ mishaps[j] = {}
             => row'[j] = row[j]]_vars
    BY <1>1
  <1> QED BY <1>2, Invariance, PTL DEF Spec, UndisturbedIsFinal

-------------------------------------------------------------------------------
(* The counters.  A lost reply gives a job a second writer, its handler, but *)
(* that one never changes the counters; only a second task does.             *)

Leased(j) == "lease_loss" \notin mishaps[j]

Tallying(w) ==
  task[w] # NoJob /\ Leased(task[w]) =>
    /\ queue[task[w]] = "running"
    /\ copy[w].status # "none" => copy[w].docs = row[task[w]].docs
    /\ \A v \in Workers : task[v] = task[w] => v = w

Tally == ProgressExact /\ \A w \in Workers : Tallying(w)

\* A write that leaves the counters of the object as they are leaves those
\* of the row; one that adds to current counters adds to the row.
LEMMA DocsOfCommit ==
  ASSUME TypeOK, NEW s \in Sessions, NEW j \in Jobs, NEW n \in Row, NEW S,
         "docs" \notin S, Commit(s, j, n, S)
  PROVE  /\ n.docs = Locked(s, j).docs => row'[j].docs = row[j].docs
         /\ Locked(s, j).docs = row[j].docs => row'[j].docs = n.docs
         /\ copy'[s] = n
  <1>1. Locked(s, j) \in Row /\ row[j] \in Row
    BY LockedType DEF TypeOK
  <1>2. /\ row'[j] = Merge(row[j], Locked(s, j), n, S)
        /\ copy'[s] = n
    BY DEF Commit, TypeOK
  <1> QED BY <1>1, <1>2 DEF Merge, Row

LEMMA DocsOfOps ==
  ASSUME NEW o \in Row, NEW d \in Nat
  PROVE  /\ Running(o).docs = o.docs /\ Completed(o).docs = o.docs
         /\ Failed(o).docs = o.docs /\ Incremented(o, d).docs = o.docs + d
  BY DEF Running, Completed, Failed, Incremented, Row

LEMMA TallyOwn ==
  ASSUME Inv, Tally, NEW w \in Workers, WorkerAct(w), NEW j \in Jobs,
         j = task[w], Leased(j)
  PROVE  /\ row'[j].docs = counted'[j]
         /\ task'[w] = j =>
              /\ queue'[j] = "running"
              /\ copy'[w].status # "none" => copy'[w].docs = row'[j].docs
  <1> USE DEF TypeOK
  <1>i. TypeOK /\ Assigned
    BY DEF Inv
  <1>s. w \in Sessions
    BY DEF Sessions
  <1>q. /\ row[j].docs = counted[j] /\ queue[j] = "running"
        /\ copy[w].status # "none" => copy[w].docs = row[j].docs
    BY ConstantsAssumption DEF Tally, Tallying, ProgressExact, Leased
  <1>l. Locked(w, j) \in Row /\ Locked(w, j).docs = row[j].docs
    BY <1>i, <1>s, <1>q, LockedType DEF Locked
  <1>o. /\ Running(Locked(w, j)) \in Row
        /\ Running(Locked(w, j)).docs = row[j].docs
        /\ Completed(Locked(w, j)) \in Row
        /\ Completed(Locked(w, j)).docs = row[j].docs
        /\ Failed(Locked(w, j)) \in Row
        /\ Failed(Locked(w, j)).docs = row[j].docs
    BY <1>l, RowTypes, DocsOfOps, 0 \in Nat
  <1>1. CASE Load(w) \/ Refresh(w)
    BY <1>1, <1>i, <1>s, <1>q DEF Load, Refresh
  <1>2. CASE Start(w)
    <2>1. row'[j].docs = row[j].docs /\ copy'[w].docs = row[j].docs
      BY <1>2, <1>i, <1>s, <1>l, <1>o, DocsOfCommit DEF Start, MarkRunning
    <2> QED BY <1>2, <1>q, <2>1 DEF Start
  <1>3. CASE Work(w) \/ AlreadyComplete(w) \/ Notify(w)
    BY <1>3, <1>q DEF Work, AlreadyComplete, Notify
  <1>4. CASE ScanRollsBack(w) \/ Raise(w)
    BY <1>4, <1>i, <1>s, <1>q DEF ScanRollsBack, Raise, Close, NoRow
  <1>5. CASE Count(w)
    <2>1. PICK d \in Deltas : Increment(w, j, d)
      BY <1>5 DEF Count
    <2>2. d \in Nat
      BY ConstantsAssumption
    <2>3. /\ Incremented(Locked(w, j), d) \in Row
          /\ Incremented(Locked(w, j), d).docs = row[j].docs + d
      BY <1>l, <2>2, RowTypes, DocsOfOps
    <2>4. row'[j].docs = row[j].docs + d /\ copy'[w].docs = row[j].docs + d
      <3>1. Commit(w, j, Incremented(Locked(w, j), d), {})
        BY <2>1 DEF Increment
      <3>2. /\ row'[j].docs = Incremented(Locked(w, j), d).docs
            /\ copy'[w] = Incremented(Locked(w, j), d)
        BY <1>i, <1>s, <1>l, <2>3, <3>1, DocsOfCommit
      <3> QED BY <2>3, <3>2
    <2>5. counted'[j] = counted[j] + d
      BY <1>i, <2>1 DEF Increment
    <2>6. queue'[j] = queue[j]
      BY <1>5 DEF Count
    <2> QED BY <1>q, <2>4, <2>5, <2>6
  <1>6. CASE Complete(w)
    <2>1. row'[j].docs = row[j].docs /\ copy'[w].docs = row[j].docs
      BY <1>6, <1>i, <1>s, <1>l, <1>o, DocsOfCommit DEF Complete, MarkCompleted
    <2> QED BY <1>6, <1>q, <2>1 DEF Complete
  <1>7. CASE Fail(w)
    <2>1. CASE MarkFailed(w, j)
      <3>1. row'[j].docs = row[j].docs /\ copy'[w].docs = row[j].docs
        BY <1>i, <1>s, <1>l, <1>o, <2>1, DocsOfCommit DEF MarkFailed
      <3> QED BY <1>7, <1>q, <3>1 DEF Fail
    <2>2. CASE UNCHANGED <<row, copy>>
      BY <1>7, <1>q, <2>2 DEF Fail
    <2> QED BY <1>7, <2>1, <2>2 DEF Fail
  <1>8. CASE Return(w) \/ Timeout(w) \/ Crash(w)
    <2>1. task'[w] = NoJob /\ UNCHANGED <<row, counted>>
      BY <1>8, <1>i DEF Return, Timeout, Crash, Release
    <2> QED BY <1>q, <2>1, ConstantsAssumption
  <1> QED
    BY <1>1, <1>2, <1>3, <1>4, <1>5, <1>6, <1>7, <1>8 DEF WorkerAct, WorkerStep

LEMMA TallyStep ==
  ASSUME Inv, Tally, [Next]_vars
  PROVE  Tally'
  <1>i. TypeOK
    BY DEF Inv
  <1>1. CASE UNCHANGED vars
    BY <1>1 DEF vars, Tally, Tallying, ProgressExact, Leased
  <1>2. ASSUME NEW j \in Jobs, HandlerAct(j)
        PROVE  Tally'
    <2>f. /\ task' = task
          /\ \A k \in Jobs : k # j =>
               /\ row'[k] = row[k] /\ queue'[k] = queue[k]
               /\ mishaps'[k] = mishaps[k]
          /\ \A v \in Workers : copy'[v] = copy[v]
      BY <1>2, HandlerFrame
    <2>o. /\ counted' = counted
          /\ Leased(j)' => Leased(j)
      BY <1>2, <1>i DEF HandlerAct, CreateJob, EnqueueJob, EnqueueFails,
         RejectJob, HandlerDies, GiveUp, LeaseExpires, Leased, TypeOK
    <2>d. row'[j].docs = row[j].docs
      <3>1. CASE CreateJob(j)
        BY <3>1, <1>i DEF CreateJob, Inv, Handled, NoRow, PendingRow, TypeOK
      <3>2. CASE RejectJob(j)
        <4>1. j \in Sessions
          BY DEF Sessions
        <4>2. Locked(j, j) \in Row
          BY <1>i, <4>1, LockedType
        <4>3. /\ Failed(Locked(j, j)) \in Row
              /\ Failed(Locked(j, j)).docs = Locked(j, j).docs
          BY <4>2, RowTypes, DocsOfOps, 0 \in Nat
        <4> QED
          BY <3>2, <1>i, <4>1, <4>3, DocsOfCommit DEF RejectJob, MarkFailed
      <3>3. CASE row' = row
        BY <3>3
      <3> QED
        BY <1>2, <3>1, <3>2, <3>3 DEF HandlerAct, EnqueueJob, EnqueueFails,
           HandlerDies, GiveUp, LeaseExpires
    <2>q. Leased(j)' => \A v \in Workers : task[v] = j => queue'[j] = queue[j]
      <3>1. CASE CreateJob(j) \/ RejectJob(j) \/ HandlerDies(j)
        BY <3>1 DEF CreateJob, RejectJob, HandlerDies
      <3>2. CASE EnqueueJob(j) \/ EnqueueFails(j)
        BY <3>2 DEF EnqueueJob, EnqueueFails, Inv, Handled
      <3>3. CASE GiveUp(j)
        BY <3>3, <2>o, ConstantsAssumption DEF GiveUp, Tally, Tallying
      <3>4. CASE LeaseExpires(j)
        BY <3>4, <1>i DEF LeaseExpires, Leased, TypeOK
      <3> QED BY <1>2, <3>1, <3>2, <3>3, <3>4 DEF HandlerAct
    <2>1. ProgressExact'
      <3> SUFFICES ASSUME NEW k \in Jobs, Leased(k)'
                   PROVE  row'[k].docs = counted'[k]
        BY DEF ProgressExact, Leased
      <3>1. Leased(k)
        BY <2>f, <2>o DEF Leased
      <3>2. row[k].docs = counted[k]
        BY <3>1 DEF Tally, ProgressExact, Leased
      <3> QED BY <2>f, <2>o, <2>d, <3>2
    <2>2. ASSUME NEW v \in Workers
          PROVE  Tallying(v)'
      <3>1. Tallying(v) /\ task[v] \in Jobs \cup {NoJob}
        BY <1>i DEF Tally, TypeOK
      <3>2. task[v] # NoJob /\ Leased(task[v])' =>
              /\ Leased(task[v]) /\ queue'[task[v]] = queue[task[v]]
              /\ row'[task[v]].docs = row[task[v]].docs
        BY <2>f, <2>o, <2>d, <2>q, <3>1 DEF Leased
      <3> QED BY <2>f, <3>1, <3>2 DEF Tallying, Leased
    <2> QED BY <2>1, <2>2 DEF Tally
  <1>3. ASSUME NEW j \in Jobs, NEW w \in Workers, Take(w, j)
        PROVE  Tally'
    <2>1. Leased(j) => \A u \in Workers : task[u] # j
      BY <1>3, ConstantsAssumption DEF Take, Tally, Tallying
    <2>2. copy[w] = NoRow
      BY <1>3 DEF Take, Inv, Serving
    <2>3. ASSUME NEW v \in Workers
          PROVE  Tallying(v)'
      <3>1. Tallying(v)
        BY DEF Tally
      <3> QED BY <1>3, <1>i, <2>1, <2>2, <3>1
          DEF Take, Tallying, Leased, TypeOK, NoRow
    <2>4. ProgressExact'
      BY <1>3 DEF Take, Tally, ProgressExact
    <2> QED BY <2>3, <2>4 DEF Tally
  <1>4. ASSUME NEW w \in Workers, WorkerAct(w)
        PROVE  Tally'
    <2>f. /\ task[w] \in Jobs /\ task[w] # NoJob
          /\ mishaps' = mishaps
          /\ \A k \in Jobs : k # task[w] =>
               row'[k] = row[k] /\ queue'[k] = queue[k]
          /\ \A s \in Sessions : s # w => copy'[s] = copy[s]
          /\ \A v \in Workers : v # w => task'[v] = task[v]
          /\ task'[w] = task[w] \/ task'[w] = NoJob
      BY <1>4, WorkerFrame, ConstantsAssumption
    <2>c. \A k \in Jobs : k # task[w] => counted'[k] = counted[k]
      <3>1. CASE Count(w)
        BY <3>1, <1>i, <2>f DEF Count, Increment, TypeOK
      <3>2. CASE counted' = counted
        BY <3>2
      <3> QED
        BY <1>4, <3>1, <3>2 DEF WorkerAct, WorkerStep, Load, Start, Refresh,
           Work, ScanRollsBack, Complete, AlreadyComplete, Notify, Raise, Fail,
           Return, Timeout, Crash
    <2>o. Leased(task[w]) =>
            /\ row'[task[w]].docs = counted'[task[w]]
            /\ task'[w] = task[w] =>
                 /\ queue'[task[w]] = "running"
                 /\ copy'[w].status # "none"
                      => copy'[w].docs = row'[task[w]].docs
      BY <1>4, <2>f, TallyOwn
    <2>1. ProgressExact'
      BY <2>f, <2>c, <2>o DEF Tally, ProgressExact, Leased
    <2>2. ASSUME NEW v \in Workers
          PROVE  Tallying(v)'
      <3>1. Tallying(v) /\ Tallying(w) /\ task[v] \in Jobs \cup {NoJob}
        BY <1>i DEF Tally, TypeOK
      <3>2. v \in Sessions
        BY DEF Sessions
      <3>3. CASE v = w
        BY <2>f, <2>o, <3>1, <3>3 DEF Tallying, Leased
      <3>4. CASE v # w
        <4>1. task'[v] = task[v] /\ copy'[v] = copy[v]
          BY <2>f, <3>2, <3>4
        <4>2. task[v] # NoJob /\ Leased(task[v]) => task[v] # task[w]
          BY <2>f, <3>1, <3>4 DEF Tallying
        <4> QED BY <2>f, <3>1, <4>1, <4>2 DEF Tallying, Leased
      <3> QED BY <3>3, <3>4
    <2> QED BY <2>1, <2>2 DEF Tally
  <1> QED
    BY <1>1, <1>2, <1>3, <1>4 DEF Next, HandlerAct, WorkerAct, WorkerStep

\* The counters are the sum of the committed increments over every retry,
\* whatever stale object the handler of a refused request writes.
THEOREM CountersAreExact == Spec => []ProgressExact
  <1>1. Init => Tally
    BY DEF Init, Tally, Tallying, ProgressExact, NoRow
  <1>2. Inv /\ Tally /\ [Next]_vars => Tally'
    BY TallyStep
  <1>3. Tally => ProgressExact
    BY DEF Tally
  <1> QED BY <1>1, <1>2, <1>3, Invariance, PTL DEF Spec

-------------------------------------------------------------------------------
(* The counters under every fault.  When a lease is lost two tasks may write *)
(* the same job from objects of different times: increments get lost, but    *)
(* what an object holds was counted once, and each delivery by arq adds at   *)
(* most one scan.                                                            *)

\* No object, and no row, is ahead of the increments that were committed.
Behind ==
  /\ \A j \in Jobs : row[j].docs <= counted[j] /\ copy[j].docs <= counted[j]
  /\ \A w \in Workers : task[w] # NoJob => copy[w].docs <= counted[task[w]]

\* The executions of job j that have not counted their scan yet.
BeforeCount == {"load", "mark", "marked", "work", "count"}
Pending(j) == {w \in Workers : task[w] = j /\ pc[w] \in BeforeCount}

\* d is the largest increment there is; every execution of job j but those that have
\* not counted yet has added at most d.
Largest(d) == \A e \in Deltas : e <= d
Spent(j) == tries[j] - Cardinality(Pending(j))

Budget ==
  \A j \in Jobs :
    /\ IsFiniteSet(Pending(j))
    /\ Cardinality(Pending(j)) <= tries[j]
    /\ \A d \in Deltas : Largest(d) => counted[j] <= Spent(j) * d

LEMMA OneMore ==
  ASSUME NEW n \in Nat, NEW m \in Nat, n <= m, NEW d \in Nat
  PROVE  (n + 1) * d = n * d + d /\ n * d <= m * d /\ n * d \in Nat
  OBVIOUS

\* The UPDATE writes the counters of the object or leaves those of the row.
LEMMA DocsMerged ==
  ASSUME TypeOK, NEW s \in Sessions, NEW j \in Jobs, NEW n \in Row, NEW S,
         Commit(s, j, n, S)
  PROVE  /\ row'[j].docs \in {n.docs, row[j].docs}
         /\ copy'[s] = n
  <1>1. /\ row'[j] = Merge(row[j], Locked(s, j), n, S)
        /\ copy'[s] = n
    BY DEF Commit, TypeOK
  <1> QED BY <1>1 DEF Merge

\* What slot w writes to its job is not ahead of what it has counted.
LEMMA BehindOwn ==
  ASSUME Inv, Behind, NEW w \in Workers, WorkerAct(w), NEW j \in Jobs, j = task[w]
  PROVE  /\ counted[j] <= counted'[j]
         /\ row'[j].docs <= counted'[j]
         /\ task'[w] = j => copy'[w].docs <= counted'[j]
  <1> USE DEF TypeOK
  <1>i. TypeOK /\ Assigned /\ counted[j] \in Nat
    BY DEF Inv
  <1>s. w \in Sessions
    BY DEF Sessions
  <1>q. /\ row[j].docs <= counted[j] /\ copy[w].docs <= counted[j]
        /\ row[j].docs \in Nat /\ copy[w].docs \in Nat
    <2>1. task[w] # NoJob
      BY ConstantsAssumption
    <2>2. row[j] \in Row /\ copy[w] \in Row
      BY <1>i, <1>s
    <2> QED BY <2>1, <2>2 DEF Behind, Row
  <1>l. /\ Locked(w, j) \in Row
        /\ Locked(w, j).docs <= counted[j]
    BY <1>i, <1>s, <1>q, LockedType DEF Locked
  <1>o. /\ Running(Locked(w, j)) \in Row
        /\ Running(Locked(w, j)).docs <= counted[j]
        /\ Completed(Locked(w, j)) \in Row
        /\ Completed(Locked(w, j)).docs <= counted[j]
        /\ Failed(Locked(w, j)) \in Row
        /\ Failed(Locked(w, j)).docs <= counted[j]
    BY <1>l, RowTypes, DocsOfOps, 0 \in Nat
  <1>1. CASE Load(w) \/ Refresh(w)
    BY <1>1, <1>i, <1>s, <1>q DEF Load, Refresh
  <1>2. CASE Start(w)
    <2>1. Commit(w, j, Running(Locked(w, j)), {}) /\ counted' = counted
      BY <1>2 DEF Start, MarkRunning
    <2> QED BY <1>i, <1>s, <1>q, <1>o, <2>1, DocsMerged
  <1>3. CASE Work(w) \/ AlreadyComplete(w) \/ Notify(w)
    BY <1>3, <1>i, <1>q DEF Work, AlreadyComplete, Notify
  <1>4. CASE ScanRollsBack(w) \/ Raise(w)
    BY <1>4, <1>i, <1>s, <1>q DEF ScanRollsBack, Raise, Close, NoRow
  <1>5. CASE Count(w)
    <2>1. PICK d \in Deltas : Increment(w, j, d)
      BY <1>5 DEF Count
    <2>2. d \in Nat
      BY ConstantsAssumption
    <2>3. /\ Incremented(Locked(w, j), d) \in Row
          /\ Incremented(Locked(w, j), d).docs <= counted[j] + d
      <3>1. Locked(w, j).docs \in Nat
        BY <1>l DEF Row
      <3> QED BY <1>i, <1>l, <2>2, <3>1, RowTypes, DocsOfOps
    <2>4. Commit(w, j, Incremented(Locked(w, j), d), {})
      BY <2>1 DEF Increment
    <2>5. counted'[j] = counted[j] + d
      BY <1>i, <2>1 DEF Increment
    <2>6. row'[j].docs <= counted[j] + d /\ copy'[w].docs <= counted[j] + d
      BY <1>i, <1>s, <1>q, <2>2, <2>3, <2>4, DocsMerged
    <2> QED BY <1>i, <2>2, <2>5, <2>6
  <1>6. CASE Complete(w)
    <2>1. Commit(w, j, Completed(Locked(w, j)), {"finished"}) /\ counted' = counted
      BY <1>6 DEF Complete, MarkCompleted
    <2> QED BY <1>i, <1>s, <1>q, <1>o, <2>1, DocsMerged
  <1>7. CASE Fail(w)
    <2>1. CASE MarkFailed(w, j)
      <3>1. Commit(w, j, Failed(Locked(w, j)), {"finished"}) /\ counted' = counted
        BY <1>7, <2>1 DEF Fail, MarkFailed
      <3>2. Failed(Locked(w, j)) \in Row
        BY <1>o
      <3>3. /\ row'[j].docs \in {Failed(Locked(w, j)).docs, row[j].docs}
            /\ copy'[w] = Failed(Locked(w, j))
        BY <1>i, <1>s, <3>1, <3>2, DocsMerged
      <3> QED BY <1>i, <1>q, <1>o, <3>1, <3>3
    <2>2. CASE UNCHANGED <<row, copy>>
      BY <1>7, <1>i, <1>q, <2>2 DEF Fail
    <2> QED BY <1>7, <2>1, <2>2 DEF Fail
  <1>8. CASE Return(w) \/ Timeout(w) \/ Crash(w)
    <2>1. task'[w] = NoJob /\ UNCHANGED <<row, counted>>
      BY <1>8, <1>i DEF Return, Timeout, Crash, Release
    <2> QED BY <1>i, <1>q, <2>1, ConstantsAssumption
  <1> QED
    BY <1>1, <1>2, <1>3, <1>4, <1>5, <1>6, <1>7, <1>8 DEF WorkerAct, WorkerStep

\* A worker's step counts for its own job only.
LEMMA CountedFrame ==
  ASSUME Inv, NEW w \in Workers, WorkerAct(w)
  PROVE  /\ tries' = tries
         /\ \A k \in Jobs : k # task[w] => counted'[k] = counted[k]
         /\ ~Count(w) => counted' = counted
  <1>1. task[w] \in Jobs /\ TypeOK
    BY WorkerFrame DEF Inv
  <1>2. CASE Count(w)
    BY <1>1, <1>2 DEF Count, Increment, TypeOK
  <1>3. CASE ~Count(w)
    BY <1>3 DEF WorkerAct, WorkerStep, Load, Start, Refresh,
       Work, ScanRollsBack, Complete, AlreadyComplete, Notify, Raise, Fail,
       Return, Timeout, Crash
  <1> QED BY <1>2, <1>3

LEMMA BehindStep ==
  ASSUME Inv, Behind, [Next]_vars
  PROVE  Behind'
  <1>i. TypeOK
    BY DEF Inv
  <1>1. CASE UNCHANGED vars
    BY <1>1 DEF vars, Behind
  <1>2. ASSUME NEW j \in Jobs, HandlerAct(j)
        PROVE  Behind'
    <2>1. /\ task' = task
          /\ \A k \in Jobs : k # j => row'[k] = row[k] /\ copy'[k] = copy[k]
          /\ \A v \in Workers : copy'[v] = copy[v]
      BY <1>2, HandlerFrame
    <2>2. counted' = counted /\ j \in Sessions
      BY <1>2 DEF HandlerAct, CreateJob, EnqueueJob, EnqueueFails, RejectJob,
         HandlerDies, GiveUp, LeaseExpires, Sessions
    <2>3. /\ row[j].docs <= counted[j] /\ copy[j].docs <= counted[j]
          /\ row[j] \in Row /\ copy[j] \in Row /\ counted[j] \in Nat
      BY <1>i, <2>2 DEF Behind, TypeOK
    <2>4. row'[j].docs <= counted[j] /\ copy'[j].docs <= counted[j]
      <3>1. CASE CreateJob(j)
        BY <3>1, <1>i, <2>2, <2>3 DEF CreateJob, PendingRow, TypeOK
      <3>2. CASE RejectJob(j)
        <4>1. Locked(j, j) \in Row /\ Locked(j, j).docs <= counted[j]
          BY <1>i, <2>2, <2>3, LockedType DEF Locked
        <4>2. /\ Failed(Locked(j, j)) \in Row
              /\ Failed(Locked(j, j)).docs <= counted[j]
          BY <4>1, RowTypes, DocsOfOps, 0 \in Nat
        <4>3. Commit(j, j, Failed(Locked(j, j)), {"finished"})
          BY <3>2 DEF RejectJob, MarkFailed
        <4> QED BY <1>i, <2>2, <2>3, <4>2, <4>3, DocsMerged
      <3>3. CASE EnqueueJob(j) \/ HandlerDies(j)
        BY <3>3, <1>i, <2>2, <2>3 DEF EnqueueJob, HandlerDies, Close, NoRow, TypeOK
      <3>4. CASE EnqueueFails(j) \/ GiveUp(j) \/ LeaseExpires(j)
        BY <3>4, <2>3 DEF EnqueueFails, GiveUp, LeaseExpires
      <3> QED BY <1>2, <3>1, <3>2, <3>3, <3>4 DEF HandlerAct
    <2> QED BY <2>1, <2>2, <2>4 DEF Behind
  <1>3. ASSUME NEW j \in Jobs, NEW w \in Workers, Take(w, j)
        PROVE  Behind'
    <2>1. copy[w] = NoRow /\ UNCHANGED <<row, copy, counted>>
      BY <1>3 DEF Take, Inv, Serving
    <2>2. /\ \A v \in Workers : v # w => task'[v] = task[v]
          /\ task'[w] = j /\ counted[j] \in Nat
      BY <1>3, <1>i DEF Take, TypeOK
    <2> QED BY <2>1, <2>2 DEF Behind, NoRow
  <1>4. ASSUME NEW w \in Workers, WorkerAct(w)
        PROVE  Behind'
    <2>f. /\ task[w] \in Jobs /\ task[w] # NoJob
          /\ \A k \in Jobs : k # task[w] => row'[k] = row[k]
          /\ \A s \in Sessions : s # w => copy'[s] = copy[s]
          /\ \A v \in Workers : v # w => task'[v] = task[v]
          /\ task'[w] = task[w] \/ task'[w] = NoJob
      BY <1>4, WorkerFrame, ConstantsAssumption
    <2>o. /\ counted[task[w]] <= counted'[task[w]]
          /\ row'[task[w]].docs <= counted'[task[w]]
          /\ task'[w] = task[w] => copy'[w].docs <= counted'[task[w]]
      BY <1>4, <2>f, BehindOwn
    <2>m. \A k \in Jobs : counted[k] <= counted'[k] /\ counted[k] \in Nat
                            /\ counted'[k] \in Nat
      <3>1. TypeOK'
        BY NextInv, <1>4 DEF Inv, Next, WorkerAct, WorkerStep
      <3> QED BY <1>4, <1>i, <2>o, <3>1, CountedFrame DEF TypeOK
    <2>d. /\ \A k \in Jobs : row[k].docs \in Nat /\ copy[k].docs \in Nat
                              /\ k # w /\ k \in Sessions
          /\ \A v \in Workers : copy[v].docs \in Nat /\ v \in Sessions
      BY <1>i, ConstantsAssumption DEF TypeOK, Row, Sessions
    <2>1. ASSUME NEW k \in Jobs
          PROVE  row'[k].docs <= counted'[k] /\ copy'[k].docs <= counted'[k]
      <3>1. copy'[k] = copy[k] /\ copy[k].docs <= counted[k]
        BY <2>f, <2>d DEF Behind
      <3>2. row'[k].docs <= counted'[k]
        <4>1. CASE k = task[w]
          BY <2>o, <4>1
        <4>2. CASE k # task[w]
          BY <2>f, <2>m, <2>d, <4>2 DEF Behind
        <4> QED BY <4>1, <4>2
      <3> QED BY <2>m, <2>d, <3>1, <3>2
    <2>2. ASSUME NEW v \in Workers, task'[v] # NoJob
          PROVE  copy'[v].docs <= counted'[task'[v]]
      <3>1. CASE v = w
        BY <2>f, <2>o, <2>2, <3>1
      <3>2. CASE v # w
        <4>1. task'[v] = task[v] /\ copy'[v] = copy[v] /\ task[v] \in Jobs
          BY <1>i, <2>f, <2>d, <2>2, <3>2 DEF TypeOK
        <4> QED BY <2>m, <2>d, <2>2, <4>1 DEF Behind
      <3> QED BY <3>1, <3>2
    <2> QED BY <2>1, <2>2 DEF Behind
  <1> QED
    BY <1>1, <1>2, <1>3, <1>4 DEF Next, HandlerAct, WorkerAct, WorkerStep

\* A worker's step takes at most its own execution from those that have not counted,
\* and takes it when it counts.
LEMMA PendingAfter ==
  ASSUME Inv, NEW w \in Workers, WorkerAct(w), NEW j \in Jobs
  PROVE  /\ j # task[w] => Pending(j)' = Pending(j)
         /\ Pending(j)' = Pending(j) \/ Pending(j)' = Pending(j) \ {w}
         /\ Count(w) /\ j = task[w] =>
              w \in Pending(j) /\ Pending(j)' = Pending(j) \ {w}
  <1>f. /\ task[w] \in Jobs
        /\ \A v \in Workers : v # w => task'[v] = task[v] /\ pc'[v] = pc[v]
        /\ task'[w] = task[w] \/ (task'[w] = NoJob /\ copy'[w] = NoRow)
    BY WorkerFrame
  <1>n. NoJob \notin Jobs /\ TypeOK
    BY ConstantsAssumption DEF Inv
  <1>1. \A v \in Workers : v # w => (v \in Pending(j)' <=> v \in Pending(j))
    BY <1>f DEF Pending
  <1>2. j # task[w] => w \notin Pending(j) /\ w \notin Pending(j)'
    BY <1>f, <1>n DEF Pending
  <1>3. w \in Pending(j)' => w \in Pending(j)
    <2> SUFFICES ASSUME task'[w] = j, pc'[w] \in BeforeCount
                 PROVE  task[w] = j /\ pc[w] \in BeforeCount
      BY DEF Pending
    <2>1. task[w] = j
      BY <1>f, <1>n
    <2>2. CASE Return(w) \/ Timeout(w) \/ Crash(w)
      BY <2>2, <1>n DEF Return, Timeout, Crash, Release, TypeOK
    <2>3. CASE Load(w) \/ Start(w) \/ Refresh(w) \/ Work(w) \/ ScanRollsBack(w)
      BY <2>3, <1>n DEF Load, Start, Refresh, AfterRefresh, Work, ScanRollsBack,
         Goto, BeforeCount, TypeOK
    <2>4. CASE \/ Count(w) \/ Complete(w) \/ AlreadyComplete(w) \/ Notify(w)
               \/ Raise(w) \/ Fail(w)
      BY <2>4, <1>n DEF Count, Complete, AlreadyComplete, Notify, Raise, Fail,
         Goto, BeforeCount, TypeOK
    <2> QED BY <2>1, <2>2, <2>3, <2>4 DEF WorkerAct, WorkerStep
  <1>4. Count(w) /\ j = task[w] => w \in Pending(j) /\ w \notin Pending(j)'
    BY <1>n DEF Count, Goto, Pending, BeforeCount, TypeOK
  <1>5. Pending(j) \subseteq Workers /\ Pending(j)' \subseteq Workers
    BY DEF Pending
  <1> QED BY <1>1, <1>2, <1>3, <1>4, <1>5

LEMMA BudgetStep ==
  ASSUME Inv, Budget, [Next]_vars
  PROVE  Budget'
  <1>i. TypeOK /\ Deltas \subseteq Nat
    BY ConstantsAssumption DEF Inv
  <1> SUFFICES ASSUME NEW j \in Jobs
               PROVE  /\ IsFiniteSet(Pending(j)')
                      /\ Cardinality(Pending(j)') <= tries'[j]
                      /\ \A d \in Deltas :
                           Largest(d) => counted'[j] <= Spent(j)' * d
    BY DEF Budget, Largest
  <1>b. /\ IsFiniteSet(Pending(j)) /\ Cardinality(Pending(j)) <= tries[j]
        /\ \A d \in Deltas : Largest(d) => counted[j] <= Spent(j) * d
        /\ Cardinality(Pending(j)) \in Nat
        /\ tries[j] \in Nat /\ counted[j] \in Nat /\ Spent(j) \in Nat
    BY <1>i, FS_CardinalityType DEF Budget, Spent, TypeOK
  <1>1. CASE UNCHANGED <<tries, counted>> /\ Pending(j)' = Pending(j)
    BY <1>b, <1>1 DEF Spent
  <1>2. CASE UNCHANGED vars
    BY <1>1, <1>2 DEF vars, Pending
  <1>3. ASSUME NEW k \in Jobs, HandlerAct(k)
        PROVE  UNCHANGED <<tries, counted>> /\ Pending(j)' = Pending(j)
    <2>1. task' = task /\ pc' = pc
      BY <1>3, HandlerFrame
    <2>2. UNCHANGED <<tries, counted>>
      BY <1>3 DEF HandlerAct, CreateJob, EnqueueJob, EnqueueFails, RejectJob,
         HandlerDies, GiveUp, LeaseExpires
    <2> QED BY <2>1, <2>2 DEF Pending
  <1>4. ASSUME NEW k \in Jobs, NEW w \in Workers, Take(w, k)
        PROVE  /\ IsFiniteSet(Pending(j)')
               /\ Cardinality(Pending(j)') <= tries'[j]
               /\ \A d \in Deltas : Largest(d) => counted'[j] <= Spent(j)' * d
    <2>1. /\ counted' = counted /\ task[w] = NoJob /\ NoJob \notin Jobs
          /\ task' = [task EXCEPT ![w] = k] /\ pc' = [pc EXCEPT ![w] = "load"]
          /\ tries' = [tries EXCEPT ![k] = @ + 1]
      BY <1>4, ConstantsAssumption DEF Take
    <2>2. CASE j # k
      <3>1. Pending(j)' = Pending(j)
        BY <1>i, <2>1, <2>2 DEF Pending, TypeOK
      <3>2. tries'[j] = tries[j]
        BY <1>i, <2>1, <2>2 DEF TypeOK
      <3> QED BY <1>b, <2>1, <3>1, <3>2 DEF Spent
    <2>3. CASE j = k
      <3>1. w \notin Pending(j) /\ Pending(j)' = Pending(j) \cup {w}
        BY <1>i, <2>1, <2>3 DEF Pending, BeforeCount, TypeOK
      <3>2. /\ IsFiniteSet(Pending(j)')
            /\ Cardinality(Pending(j)') = Cardinality(Pending(j)) + 1
        BY <1>b, <3>1, FS_AddElement
      <3>3. tries'[j] = tries[j] + 1
        BY <1>i, <2>1, <2>3 DEF TypeOK
      <3>4. Spent(j)' = Spent(j)
        BY <1>b, <3>2, <3>3 DEF Spent
      <3> QED BY <1>b, <2>1, <3>2, <3>3, <3>4
    <2> QED BY <2>2, <2>3
  <1>5. ASSUME NEW w \in Workers, WorkerAct(w)
        PROVE  /\ IsFiniteSet(Pending(j)')
               /\ Cardinality(Pending(j)') <= tries'[j]
               /\ \A d \in Deltas : Largest(d) => counted'[j] <= Spent(j)' * d
    <2>1. /\ tries' = tries
          /\ j # task[w] => counted'[j] = counted[j]
          /\ ~Count(w) => counted' = counted
      BY <1>5, CountedFrame
    <2>2. CASE Pending(j)' = Pending(j) /\ counted'[j] = counted[j]
      BY <1>b, <2>1, <2>2 DEF Spent
    <2>3. CASE Pending(j)' = Pending(j) \ {w} /\ w \in Pending(j)
      <3>1. /\ IsFiniteSet(Pending(j)')
            /\ Cardinality(Pending(j)') = Cardinality(Pending(j)) - 1
        BY <1>b, <2>3, FS_RemoveElement
      <3>2. Spent(j)' = Spent(j) + 1
        BY <1>b, <2>1, <3>1 DEF Spent
      <3>3. ASSUME NEW d \in Deltas, Largest(d)
            PROVE  counted'[j] <= counted[j] + d
        <4>1. CASE counted'[j] = counted[j]
          BY <1>b, <1>i, <4>1
        <4>2. CASE Count(w) /\ j = task[w]
          <5>1. PICK e \in Deltas : Increment(w, j, e)
            BY <4>2 DEF Count
          <5>2. counted'[j] = counted[j] + e /\ e <= d
            BY <1>i, <3>3, <5>1 DEF Increment, Largest, TypeOK
          <5> QED BY <1>b, <1>i, <5>2
        <4> QED BY <2>1, <4>1, <4>2
      <3>4. ASSUME NEW d \in Deltas, Largest(d)
            PROVE  counted'[j] <= Spent(j)' * d
        <4>1. d \in Nat /\ counted[j] <= Spent(j) * d
          BY <1>b, <1>i, <3>4
        <4>2. Spent(j)' * d = Spent(j) * d + d /\ Spent(j) * d \in Nat
          BY <1>b, <3>2, <4>1, OneMore
        <4>3. counted'[j] <= counted[j] + d /\ counted'[j] \in Nat
          <5>1. TypeOK'
            BY NextInv, <1>5 DEF Inv, Next, WorkerAct, WorkerStep
          <5> QED BY <3>3, <3>4, <5>1 DEF TypeOK
        <4> QED BY <1>b, <4>1, <4>2, <4>3
      <3> QED BY <1>b, <2>1, <3>1, <3>4
    <2>4. \/ Pending(j)' = Pending(j) /\ counted'[j] = counted[j]
          \/ Pending(j)' = Pending(j) \ {w} /\ w \in Pending(j)
      <3>1. CASE Count(w) /\ j = task[w]
        BY <1>5, <3>1, PendingAfter
      <3>2. CASE ~(Count(w) /\ j = task[w])
        <4>1. counted'[j] = counted[j]
          BY <2>1, <3>2
        <4>2. Pending(j)' = Pending(j) \/ Pending(j)' = Pending(j) \ {w}
          BY <1>5, PendingAfter
        <4>3. w \notin Pending(j) => Pending(j) \ {w} = Pending(j)
          OBVIOUS
        <4> QED BY <4>1, <4>2, <4>3
      <3> QED BY <3>1, <3>2
    <2> QED BY <2>2, <2>3, <2>4
  <1> QED
    BY <1>1, <1>2, <1>3, <1>4, <1>5 DEF Next, HandlerAct, WorkerAct, WorkerStep

\* Lost leases, lost replies, crashes and stale objects may lose an increment and
\* never make one up; and however often arq delivers a job, each delivery adds no
\* more than one scan.
THEOREM CountersAreNotInvented == Spec => []ProgressNotInvented
  <1>1. Init => Behind /\ Budget
    <2> SUFFICES ASSUME Init PROVE Behind /\ Budget
      OBVIOUS
    <2>1. Behind
      BY DEF Init, Behind, NoRow, Sessions
    <2>2. ASSUME NEW j \in Jobs PROVE Pending(j) = {}
      BY DEF Init, Pending, BeforeCount
    <2>3. Cardinality({}) = 0 /\ IsFiniteSet({})
      BY FS_EmptySet
    <2>4. \A d \in Deltas : d \in Nat /\ 0 <= 0 * d
      BY ConstantsAssumption
    <2>5. \A j \in Jobs : Spent(j) = 0 /\ tries[j] = 0 /\ counted[j] = 0
      BY <2>2, <2>3 DEF Init, Spent
    <2>6. ASSUME NEW j \in Jobs
          PROVE  /\ IsFiniteSet(Pending(j))
                 /\ Cardinality(Pending(j)) <= tries[j]
                 /\ \A d \in Deltas : counted[j] <= Spent(j) * d
      <3>1. IsFiniteSet(Pending(j)) /\ Cardinality(Pending(j)) = 0
        BY <2>2, <2>3
      <3> QED BY <2>4, <2>5, <3>1
    <2> QED BY <2>1, <2>6 DEF Budget
  <1>2. Inv /\ Behind /\ Budget /\ [Next]_vars => Behind' /\ Budget'
    BY BehindStep, BudgetStep
  <1>3. Inv /\ Behind /\ Budget => ProgressNotInvented
    <2> SUFFICES ASSUME Inv, Behind, Budget, NEW j \in Jobs
                 PROVE  /\ row[j].docs <= counted[j]
                        /\ \A d \in Deltas :
                             Largest(d) => counted[j] <= tries[j] * d
      BY DEF ProgressNotInvented, Largest
    <2>1. row[j].docs <= counted[j]
      BY DEF Behind
    <2>2. ASSUME NEW d \in Deltas, Largest(d)
          PROVE  counted[j] <= tries[j] * d
      <3>1. d \in Nat /\ tries[j] \in Nat /\ counted[j] \in Nat
        BY ConstantsAssumption DEF Inv, TypeOK
      <3>2. Spent(j) \in Nat /\ Spent(j) <= tries[j]
        BY <3>1, FS_CardinalityType DEF Budget, Spent
      <3>3. Spent(j) * d <= tries[j] * d /\ Spent(j) * d \in Nat
        BY <3>1, <3>2, OneMore
      <3>4. counted[j] <= Spent(j) * d
        BY <2>2 DEF Budget
      <3>5. tries[j] * d \in Nat
        BY <3>1, OneMore
      <3> QED BY <3>1, <3>3, <3>4, <3>5
    <2> QED BY <2>1, <2>2
  <1> QED BY <1>1, <1>2, <1>3, Invariance, PTL DEF Spec

-------------------------------------------------------------------------------
(* AuditJobs implements AuditLedger when neither mishap can happen.          *)

Undisturbed == \A j \in Jobs : mishaps[j] = {}

LEMMA StaysUndisturbed ==
  ASSUME Faults \cap Mishaps = {}
  PROVE  Spec => []Undisturbed
  <1>1. Init => Undisturbed
    BY DEF Init, Undisturbed
  <1>2. ASSUME Undisturbed, [Next]_vars
        PROVE  Undisturbed'
    <2>1. "lost_reply" \notin Faults /\ "lease_loss" \notin Faults
      BY DEF Mishaps
    <2>2. mishaps' = mishaps
      BY <1>2, <2>1 DEF Next, vars, CreateJob, EnqueueJob, EnqueueFails,
         RejectJob, HandlerDies, GiveUp, LeaseExpires, Take, Load, Start,
         Refresh, Work, ScanRollsBack, Count, Complete, AlreadyComplete, Notify,
         Raise, Fail, Return, Timeout, Crash
    <2> QED BY <1>2, <2>2 DEF Undisturbed
  <1> QED BY <1>1, <1>2, PTL DEF Spec

\* While no lease is lost and Redis answers every call it took, nothing is ever
\* written to a completed job, whatever else fails: timeouts, crashes, handlers and
\* workers that die, scans that roll back.
THEOREM CompletedIsFinalWithoutMishaps ==
  ASSUME Faults \cap Mishaps = {}
  PROVE  Spec => CompletedIsFinal
  <1>1. ASSUME Inv, Undisturbed, [Next]_vars, NEW j \in Jobs,
               row[j].status = "completed"
        PROVE  row'[j] = row[j]
    <2>1. mishaps[j] = {}
      BY <1>1 DEF Undisturbed
    <2>2. RowStep(j)
      BY <1>1, <2>1, NextInv
    <2> QED BY <1>1, <2>1, <2>2 DEF RowStep, NoRow
  <1>2. Inv /\ Undisturbed /\ [Next]_vars =>
          [\A j \in Jobs : row[j].status = "completed" => row'[j] = row[j]]_vars
    BY <1>1
  <1> QED BY <1>2, Invariance, StaysUndisturbed, PTL DEF Spec, CompletedIsFinal

\* Every step touches at most one row.
LEMMA OneRow ==
  ASSUME Inv, [Next]_vars
  PROVE  row' = row \/ \E j \in Jobs : row' = [row EXCEPT ![j] = row'[j]]
  <1>t. row \in [Jobs -> Row] /\ row' \in [Jobs -> Row]
    <2>1. TypeOK /\ TypeOK'
      BY NextInv DEF Inv
    <2> QED BY <2>1 DEF TypeOK
  <1>e. ASSUME NEW j \in Jobs, \A k \in Jobs : k # j => row'[k] = row[k]
        PROVE  row' = [row EXCEPT ![j] = row'[j]]
    BY <1>t, <1>e
  <1>1. CASE UNCHANGED vars
    BY <1>1 DEF vars
  <1>2. ASSUME NEW j \in Jobs, HandlerAct(j)
        PROVE  row' = [row EXCEPT ![j] = row'[j]]
    BY <1>2, <1>e, HandlerFrame
  <1>3. ASSUME NEW j \in Jobs, NEW w \in Workers, Take(w, j)
        PROVE  row' = row
    BY <1>3 DEF Take
  <1>4. ASSUME NEW w \in Workers, WorkerAct(w)
        PROVE  \E j \in Jobs : row' = [row EXCEPT ![j] = row'[j]]
    <2>1. /\ task[w] \in Jobs
          /\ \A k \in Jobs : k # task[w] => row'[k] = row[k]
      BY <1>4, WorkerFrame
    <2> QED BY <2>1, <1>e
  <1> QED
    BY <1>1, <1>2, <1>3, <1>4 DEF Next, HandlerAct, WorkerAct, WorkerStep

LEMMA LedgerStep ==
  ASSUME Inv, Undisturbed, [Next]_vars
  PROVE  [Ledger!Next]_row
  <1> SUFFICES ASSUME row' # row PROVE Ledger!Next
    OBVIOUS
  <1>1. PICK j \in Jobs : row' = [row EXCEPT ![j] = row'[j]]
    BY OneRow
  <1>2. RowStep(j)
    BY NextInv DEF Undisturbed
  <1>3. row'[j] # row[j]
    <2>1. row \in [Jobs -> Row]
      BY DEF Inv, TypeOK
    <2> QED BY <1>1, <2>1
  <1>4. CASE row[j] = NoRow /\ row'[j] = PendingRow
    <2>1. Ledger!Create(j)
      BY <1>1, <1>4 DEF Ledger!Create, Ledger!Exists, Ledger!Set, NoRow,
         Ledger!PendingRow, PendingRow
    <2> QED BY <2>1 DEF Ledger!Next
  <1>5. CASE /\ row[j].status \notin {"none", "completed"}
             /\ row'[j] = Running(row[j])
    <2>1. Ledger!MarkRunning(j)
      BY <1>1, <1>5 DEF Ledger!MarkRunning, Ledger!Exists, Ledger!Set,
         Ledger!CanRun, Ledger!Immutable, Ledger!Running, Running
    <2> QED BY <2>1 DEF Ledger!Next
  <1>6. CASE /\ row[j].status = "running"
             /\ \E d \in Deltas : row'[j] = Incremented(row[j], d)
    <2>1. PICK d \in Deltas : row'[j] = Incremented(row[j], d)
      BY <1>6
    <2>2. Ledger!Increment(j, d)
      BY <1>1, <1>6, <2>1 DEF Ledger!Increment, Ledger!Set,
         Ledger!Incremented, Incremented
    <2> QED BY <2>2 DEF Ledger!Next
  <1>7. CASE row[j].status = "running" /\ row'[j] = Completed(row[j])
    <2>1. Ledger!MarkCompleted(j)
      BY <1>1, <1>7 DEF Ledger!MarkCompleted, Ledger!Set, Ledger!Completed,
         Completed
    <2> QED BY <2>1 DEF Ledger!Next
  <1>8. CASE /\ row[j].status \notin {"none", "completed", "failed"}
             /\ row'[j] = Failed(row[j])
    <2>1. Ledger!MarkFailed(j)
      BY <1>1, <1>8 DEF Ledger!MarkFailed, Ledger!Exists, Ledger!Set,
         Ledger!CanFail, Ledger!Terminal, Ledger!Failed, Failed
    <2> QED BY <2>1 DEF Ledger!Next
  <1> QED BY <1>2, <1>3, <1>4, <1>5, <1>6, <1>7, <1>8 DEF RowStep

\* With an enqueue that tells the truth and leases that outlive their tasks,
\* every commit of every session is an atomic step of the ledger: stale
\* objects, retries, crashes and rollbacks do not show.
THEOREM ImplementsLedger ==
  ASSUME Faults \cap Mishaps = {}
  PROVE  Spec => LedgerSpec
  <1>1. Init => Ledger!Init
    BY DEF Init, Ledger!Init, NoRow, Ledger!NoRow
  <1>2. Inv /\ Undisturbed /\ [Next]_vars => [Ledger!Next]_row
    BY LedgerStep
  <1> QED
    BY <1>1, <1>2, Invariance, StaysUndisturbed, PTL
    DEF Spec, LedgerSpec, Ledger!Spec

===============================================================================
