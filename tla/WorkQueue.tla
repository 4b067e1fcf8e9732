------------------------------ MODULE WorkQueue ------------------------------
(***************************************************************************)
(* The queue of background jobs as app/workers/queue.py uses it: a sorted  *)
(* set in Redis that arq's enqueue_job adds to and that a job leaves when  *)
(* its execution ends, and the results that arq keeps for a while and that *)
(* make enqueue_job refuse the same job id.                                *)
(*                                                                         *)
(* _enqueue_job reads the depth in one call and adds the job in another;   *)
(* checked is the set of the producers between the two.                    *)
(***************************************************************************)
EXTENDS Integers, FiniteSets

CONSTANTS
  Producers,  \* the requests and scans that enqueue
  JobIds,     \* the ids of jobs
  Uncounted,  \* the ids that arq's cron adds, without the check of the depth
  MaxDepth,   \* settings.worker_queue_max_depth
  MaxJobs     \* WorkerSettings.max_jobs

ASSUME QueueAssumption ==
  /\ IsFiniteSet(Producers)
  /\ IsFiniteSet(JobIds)
  /\ Uncounted \subseteq JobIds
  /\ MaxDepth \in Int
  /\ MaxJobs \in Nat \ {0}

VARIABLES
  queue,      \* the ids in the sorted set: jobs that wait or run
  running,    \* those that a worker executes
  kept,       \* ids whose result is kept
  accepted,   \* ids that Redis has ever taken
  checked     \* producers that found room and have not enqueued yet

queueVars == <<queue, running, kept, accepted, checked>>

QueueTypeOK ==
  /\ queue \subseteq JobIds
  /\ running \subseteq queue
  /\ kept \subseteq JobIds \ queue
  /\ accepted \subseteq JobIds
  /\ queue \cup kept \subseteq accepted
  /\ checked \subseteq Producers

QueueInit ==
  /\ queue = {} /\ running = {} /\ kept = {} /\ accepted = {} /\ checked = {}

\* Mutant: only the jobs in progress are counted.
HasRoomInProgress == MaxDepth <= 0 \/ Cardinality(running) < MaxDepth

HasRoom == MaxDepth <= 0 \/ Cardinality(queue) < MaxDepth

\* _ensure_queue_capacity returns: p goes on to enqueue_job.
FindRoom(p) ==
  /\ p \notin checked
  /\ HasRoom
  /\ checked' = checked \cup {p}
  /\ UNCHANGED <<queue, running, kept, accepted>>

\* _ensure_queue_capacity raises QueueCapacityError.
FindNoRoom(p) == p \notin checked /\ ~HasRoom /\ UNCHANGED queueVars

\* The read of the depth fails: there is none without a maximum.
DepthUnread(p) == p \notin checked /\ MaxDepth > 0 /\ UNCHANGED queueVars

\* A producer that hands no pool over, as the scan does, opens one before: that
\* fails.
PoolFails(p) == p \notin checked /\ UNCHANGED queueVars

\* enqueue_job returns None when the id is queued or has a result.
Known(id) == id \in queue \cup kept

\* Redis takes the job, unless it knows the id.
Take(id) ==
  /\ queue' = IF Known(id) THEN queue ELSE queue \cup {id}
  /\ accepted' = accepted \cup queue'
  /\ UNCHANGED <<running, kept>>

\* Mutant: the job id is not handed to arq, which then takes every job.
EnqueueAnonymous(p, id) ==
  /\ p \in checked
  /\ queue' = queue \cup {id}
  /\ accepted' = accepted \cup {id}
  /\ checked' = checked \ {p}
  /\ UNCHANGED <<running, kept>>

\* enqueue_job returns to p, with the job or with None.
Enqueue(p, id) == p \in checked /\ Take(id) /\ checked' = checked \ {p}

\* enqueue_job raises, before Redis took the job or after.
EnqueueFails(p, id) ==
  /\ p \in checked
  /\ checked' = checked \ {p}
  /\ Take(id) \/ UNCHANGED <<queue, running, kept, accepted>>

(***************************************************************************)
(* The worker: arq starts a job that waits, ends it and keeps its result,  *)
(* which expires.  The jobs of a worker that dies wait again.              *)
(***************************************************************************)
Start(id) ==
  /\ id \in queue \ running
  /\ Cardinality(running) < MaxJobs
  /\ running' = running \cup {id}
  /\ UNCHANGED <<queue, kept, accepted, checked>>

\* A cron job is declared with keep_result = 0.
Finish(id) ==
  /\ id \in running
  /\ queue' = queue \ {id}
  /\ running' = running \ {id}
  /\ kept' = IF id \in Uncounted THEN kept ELSE kept \cup {id}
  /\ UNCHANGED <<accepted, checked>>

ResultExpires(id) ==
  /\ id \in kept
  /\ kept' = kept \ {id}
  /\ UNCHANGED <<queue, running, accepted, checked>>

(***************************************************************************)
(* Reading the depth and adding the job are two calls, so MaxDepth is not  *)
(* a bound on the queue: the producers that read it together may all add   *)
(* their job.  No more than that can happen.                               *)
(***************************************************************************)
Counted == queue \ Uncounted

DepthBounded ==
  MaxDepth > 0 =>
    Cardinality(Counted) + Cardinality(checked) <=
      MaxDepth - 1 + Cardinality(Producers)
=============================================================================
