------------------------------ MODULE Admission ------------------------------
(***************************************************************************)
(* How work gets into the system: requests to the heavy endpoints pass the *)
(* rate limit and then enqueue a job (app/api/v1/audit.py, sources.py); the*)
(* nightly scan enqueues one per source; a worker runs the jobs.  All share*)
(* the queue and race for its room.                                        *)
(*                                                                         *)
(* What the jobs do is in AuditJobs and DocumentIngest.  Every request has *)
(* a job id of its own (audit-run:<job>, source-sync:<source>:<job>).      *)
(***************************************************************************)
EXTENDS RateLimit, NightlyScan

CONSTANTS
  Uploads,    \* requests to upload a document: limited, but nothing to enqueue
  SubjectOf,  \* request -> its subject
  MaxCrashes, \* bound on the deaths of the API and of the worker
  Faults      \* the faults considered, a subset of FaultKinds

FaultKinds ==
  {"database", "redis", "cancel", "api_dies", "worker_dies", "missed"}

RequestJob(r) == <<r, NoSource>>

ASSUME AdmissionAssumption ==
  /\ SubjectOf \in [Requests \cup Uploads -> Subjects]
  /\ Requests \cap Uploads = {}
  /\ MaxCrashes \in Nat
  /\ Faults \subseteq FaultKinds
  /\ JobIds = {RequestJob(r) : r \in Requests} \cup Uncounted
                \cup {IngestJob(d, s) : d \in Days, s \in Sources}

VARIABLES
  answer,     \* request -> "none" (not sent), "open", or how it ended
  crashes     \* deaths so far

vars == <<limitVars, queueVars, scanVars, answer, crashes>>

Answers == {"none", "open", "202", "429", "503", "gone"}
Clients == Requests \cup Uploads

TypeOK ==
  /\ LimitTypeOK /\ QueueTypeOK /\ ScanTypeOK
  /\ answer \in [Clients -> Answers]
  /\ crashes \in 0 .. MaxCrashes

Init ==
  /\ LimitInit /\ QueueInit /\ ScanInit
  /\ answer = [r \in Clients |-> "none"]
  /\ crashes = 0

Answer(r, a) == answer' = [answer EXCEPT ![r] = a]

(***************************************************************************)
(* A request: the rate limit, then the depth, then the queue.  (What an    *)
(* upload does once it is admitted is in DocumentIngest: here it is open.) *)
(***************************************************************************)
AdmitRequest(r) ==
  /\ answer[r] = "none"
  /\ Admit(SubjectOf[r])
  /\ Answer(r, "open")
  /\ UNCHANGED <<queueVars, scanVars, crashes>>

RefuseRequest(r) ==
  /\ answer[r] = "none"
  /\ Refuse(SubjectOf[r])
  /\ Answer(r, "429")
  /\ UNCHANGED <<queueVars, scanVars, crashes>>

RequestFindsRoom(r) ==
  /\ answer[r] = "open"
  /\ FindRoom(r)
  /\ UNCHANGED <<limitVars, scanVars, answer, crashes>>

RequestFindsNoRoom(r) ==
  /\ answer[r] = "open"
  /\ \/ FindNoRoom(r)
     \/ "redis" \in Faults /\ (PoolFails(r) \/ DepthUnread(r))
  /\ Answer(r, "503")
  /\ UNCHANGED <<limitVars, scanVars, crashes>>

RequestEnqueues(r) ==
  /\ answer[r] = "open"
  /\ Enqueue(r, RequestJob(r))
  /\ Answer(r, "202")
  /\ UNCHANGED <<limitVars, scanVars, crashes>>

RequestFails(r) ==
  /\ answer[r] = "open"
  /\ "redis" \in Faults
  /\ EnqueueFails(r, RequestJob(r))
  /\ Answer(r, "503")
  /\ UNCHANGED <<limitVars, scanVars, crashes>>

\* The API process dies with its deques and the requests it was serving.
ApiDies ==
  /\ "api_dies" \in Faults /\ crashes < MaxCrashes
  /\ crashes' = crashes + 1
  /\ Forget
  /\ answer' = [r \in Clients |->
                  IF answer[r] = "open" THEN "gone" ELSE answer[r]]
  /\ checked' = checked \ Requests
  /\ UNCHANGED <<queue, running, kept, accepted, scanVars>>

RequestStep ==
  \/ \E r \in Clients : AdmitRequest(r) \/ RefuseRequest(r)
  \/ \E r \in Requests :
       \/ RequestFindsRoom(r) \/ RequestFindsNoRoom(r)
       \/ RequestEnqueues(r) \/ RequestFails(r)
  \/ ApiDies

(***************************************************************************)
(* The scans, the jobs and the passing of time.                            *)
(***************************************************************************)
ScanRuns(n) ==
  /\ \/ BeginScan(n) \/ GiveUpScan(n) \/ ListSources(n) \/ ReturnEmpty(n)
     \/ OpenPool(n) \/ FindRoomFor(n) \/ NoRoomFor(n)
     \/ EnqueueSource(n) \/ EndScan(n)
  /\ UNCHANGED <<limitVars, answer, crashes>>

ScanFails(n) ==
  /\ \/ "database" \in Faults /\ ListFails(n)
     \/ /\ "redis" \in Faults
        /\ OpenPoolFails(n) \/ DepthUnreadFor(n) \/ EnqueueSourceFails(n)
     \/ "cancel" \in Faults /\ CancelScan(n)
  /\ UNCHANGED <<limitVars, answer, crashes>>

WorkerCrash ==
  /\ "worker_dies" \in Faults /\ crashes < MaxCrashes
  /\ crashes' = crashes + 1
  /\ WorkerDies
  /\ UNCHANGED <<limitVars, answer>>

ScanStep ==
  \/ \E n \in Nights :
       \/ Fire(n) /\ UNCHANGED <<limitVars, answer, crashes>>
       \/ ScanRuns(n) \/ ScanFails(n)
  \/ WorkerCrash

StartJob(id) ==
  /\ id \notin Uncounted
  /\ Start(id)
  /\ UNCHANGED <<limitVars, scanVars, answer, crashes>>

FinishJob(id) ==
  /\ id \notin Uncounted
  /\ Finish(id)
  /\ UNCHANGED <<limitVars, scanVars, answer, crashes>>

\* No id of a request is used again, so it does not matter when its result goes.
ForgetResult(id) ==
  /\ id \notin {RequestJob(r) : r \in Requests}
  /\ ResultExpires(id)
  /\ UNCHANGED <<limitVars, scanVars, answer, crashes>>

JobStep == \E id \in JobIds : StartJob(id) \/ FinishJob(id) \/ ForgetResult(id)

\* The clock of the limit, and the date; a cron job that is due is added
\* before midnight unless no worker runs.
TimeStep ==
  \/ Elapse /\ UNCHANGED <<queueVars, scanVars, answer, crashes>>
  \/ /\ day \in Nights => scan[day].state # "idle" \/ "missed" \in Faults
     /\ Midnight
     /\ UNCHANGED <<limitVars, answer, crashes>>

Next == RequestStep \/ ScanStep \/ JobStep \/ TimeStep

Spec == Init /\ [][Next]_vars

(***************************************************************************)
(* arq polls: it starts what waits while it has a slot, its executions end *)
(* (each has a timeout), and the loop of a scan goes on.  Nothing obliges a*)
(* client to send, time to pass or a result to expire.                     *)
(***************************************************************************)
Fairness ==
  /\ WF_vars(\E id \in JobIds : StartJob(id))
  /\ WF_vars(\E id \in JobIds : FinishJob(id))
  /\ \A n \in Nights : WF_vars(ScanRuns(n))

LiveSpec == Spec /\ Fairness

(***************************************************************************)
(* Properties                                                              *)
(***************************************************************************)
\* A request is refused with 429 only when Limit requests of its subject were
\* admitted less than a window ago, and not because older ones still count.
RefusedAtLimit ==
  [][\A r \in Clients :
       answer[r] # "429" /\ answer'[r] = "429" => AtLimit(SubjectOf[r])]_vars

\* A scan that the cron fired ends, and if it got to its loop and was not lost,
\* then every source it did not report as failed is ingested: no job it enqueued
\* waits for ever.
NightEnds ==
  \A n \in Nights :
    scan[n].state = "queued" ~>
      /\ scan[n].state \in Ended
      /\ scan[n].state \in {"done", "raised"} =>
           \A s \in scan[n].listed \ scan[n].failed :
             IngestJob(scan[n].day, s) \in accepted \ queue
=============================================================================
