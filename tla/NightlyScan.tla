----------------------------- MODULE NightlyScan -----------------------------
(***************************************************************************)
(* The nightly scan: arq's cron adds one job per night                     *)
(* (app/workers/runtime.py), and nightly_scan (app/workers/nightly_scan.py)*)
(* lists the sources and enqueues one ingest job for each, under an id     *)
(* made of the day it runs on and the source.  A source whose job cannot   *)
(* be enqueued is put aside, and the scan raises at its end.               *)
(***************************************************************************)
EXTENDS WorkQueue

CONSTANTS
  Sources,    \* the rows of the table sources
  Requests,   \* the requests that also enqueue (see Admission)
  NoSource,   \* in the place of the source, in the id of a scan itself
  MaxDay,     \* bound on the UTC date
  Nights,     \* the days whose scan is considered; a scan is named by its day
  ScanTries   \* tries that arq gives a scan (1 for a cron job)

Days == 1 .. MaxDay
CronJob(n) == <<n, NoSource>>
IngestJob(d, s) == <<d, s>>             \* nightly-ingest:<day>:<source>

ASSUME ScanAssumption ==
  /\ IsFiniteSet(Sources)
  /\ NoSource \notin Sources
  /\ MaxDay \in Nat \ {0}
  /\ Nights \subseteq Days
  /\ ScanTries \in Nat \ {0}
  /\ Producers = Requests \cup Nights
  /\ Requests \cap Nights = {}
  /\ Uncounted = {CronJob(n) : n \in Nights}
  /\ {IngestJob(d, s) : d \in Days, s \in Sources} \subseteq JobIds

VARIABLES
  day,        \* the UTC date
  scan        \* night -> its nightly_scan

scanVars == <<day, scan>>

(***************************************************************************)
(* state: "idle" until the cron fires, "queued", "started" (the sources are*)
(*   not listed yet), "listed" (the pool is not open yet), "running" (the  *)
(*   loop), and then                                                       *)
(*   "done" (it returned), "raised" (at its end, for failed_sources),      *)
(*   "aborted" (it raised before the loop), or "lost" (cancelled by arq's  *)
(*   timeout, or out of tries after crashes);                              *)
(* day: the date it took scan_run_id from;  listed: the sources it read;   *)
(* todo: those its loop has still to enqueue (the order of creation, which *)
(* nothing depends on, is any order here);  failed: failed_sources.        *)
(***************************************************************************)
InSlot == {"started", "listed", "running"}
Ended == {"done", "raised", "aborted", "lost"}

Scan == [state : {"idle", "queued"} \cup InSlot \cup Ended,
         day : Days \cup {0}, todo : SUBSET Sources,
         listed : SUBSET Sources, failed : SUBSET Sources, tries : Nat]

IdleScan == [state |-> "idle", day |-> 0, todo |-> {},
             listed |-> {}, failed |-> {}, tries |-> 0]

ScanTypeOK == day \in Days /\ scan \in [Nights -> Scan]

ScanInit == day = 1 /\ scan = [n \in Nights |-> IdleScan]

\* A day passes; the scan of the day before may have been missed.
Midnight == day < MaxDay /\ day' = day + 1 /\ UNCHANGED <<scan, queueVars>>

\* arq's cron, on the day, without a look at the depth of the queue.
Fire(n) ==
  /\ day = n
  /\ scan[n].state = "idle"
  /\ Take(CronJob(n))
  /\ scan' = [scan EXCEPT ![n].state = "queued"]
  /\ UNCHANGED <<day, checked>>

\* The scan starts, and takes the date.
BeginScan(n) ==
  /\ scan[n].state = "queued"
  /\ scan[n].tries < ScanTries
  /\ Start(CronJob(n))
  /\ scan' = [scan EXCEPT ![n] =
                [IdleScan EXCEPT !.state = "started", !.day = day,
                                 !.tries = scan[n].tries + 1]]
  /\ UNCHANGED day

\* A scan that was redelivered too often is not run again.
GiveUpScan(n) ==
  /\ scan[n].state = "queued"
  /\ scan[n].tries >= ScanTries
  /\ scan' = [scan EXCEPT ![n].state = "lost"]
  /\ queue' = queue \ {CronJob(n)}
  /\ UNCHANGED <<day, running, kept, accepted, checked>>

Running(n) == scan[n].state = "running"

\* The execution of the scan ends.
Leave(n, state) ==
  /\ scan' = [scan EXCEPT ![n].state = state]
  /\ Finish(CronJob(n))
  /\ UNCHANGED day

\* The sources there are.
ListSources(n) ==
  /\ scan[n].state = "started"
  /\ \E S \in SUBSET Sources :
       scan' = [scan EXCEPT ![n].state = "listed", ![n].listed = S, ![n].todo = S]
  /\ UNCHANGED <<day, queueVars>>

\* _list_source_ids raises: nothing catches it.
ListFails(n) == scan[n].state = "started" /\ Leave(n, "aborted")

\* Without sources it returns and opens no pool.
ReturnEmpty(n) ==
  scan[n].state = "listed" /\ scan[n].listed = {} /\ Leave(n, "done")

\* The one pool for all sources.
OpenPool(n) ==
  /\ scan[n].state = "listed"
  /\ scan[n].listed # {}
  /\ scan' = [scan EXCEPT ![n].state = "running"]
  /\ UNCHANGED <<day, queueVars>>

\* Mutant: a pool that fails is logged, and the summary is returned.
OpenPoolFailsQuietly(n) ==
  scan[n].state = "listed" /\ scan[n].listed # {} /\ Leave(n, "done")

\* get_redis_pool raises: nothing catches it, and failed_sources is empty.
OpenPoolFails(n) ==
  scan[n].state = "listed" /\ scan[n].listed # {} /\ Leave(n, "aborted")

\* Mutant: a source that fails is logged and forgotten.
PassFailedForgets(n, s) == scan' = [scan EXCEPT ![n].todo = @ \ {s}]

\* The loop goes on: the source failed, or its job was enqueued or skipped.
PassFailed(n, s) ==
  scan' = [scan EXCEPT ![n].failed = @ \cup {s}, ![n].todo = @ \ {s}]
Pass(n, s) == scan' = [scan EXCEPT ![n].todo = @ \ {s}]

FindRoomFor(n) ==
  /\ Running(n) /\ scan[n].todo # {}
  /\ FindRoom(n)
  /\ UNCHANGED scanVars

\* Mutant: a scan that finds no room keeps its slot and tries again.
NoRoomForWaits(n) ==
  Running(n) /\ scan[n].todo # {} /\ FindNoRoom(n) /\ UNCHANGED scanVars

NoRoomFor(n) ==
  \E s \in scan[n].todo :
    Running(n) /\ FindNoRoom(n) /\ PassFailed(n, s) /\ UNCHANGED day

DepthUnreadFor(n) ==
  \E s \in scan[n].todo :
    Running(n) /\ DepthUnread(n) /\ PassFailed(n, s) /\ UNCHANGED day

EnqueueSource(n) ==
  \E s \in scan[n].todo :
    /\ Running(n)
    /\ Enqueue(n, IngestJob(scan[n].day, s))
    /\ Pass(n, s)
    /\ UNCHANGED day

EnqueueSourceFails(n) ==
  \E s \in scan[n].todo :
    /\ Running(n)
    /\ EnqueueFails(n, IngestJob(scan[n].day, s))
    /\ PassFailed(n, s)
    /\ UNCHANGED day

\* The scan returns its summary, or raises QueueEnqueueError.
EndScan(n) ==
  /\ Running(n)
  /\ scan[n].todo = {}
  /\ Leave(n, IF scan[n].failed = {} THEN "done" ELSE "raised")

\* arq cancels a scan after job_timeout and does not run it again.
CancelScan(n) ==
  /\ scan[n].state \in InSlot
  /\ scan' = [scan EXCEPT ![n].state = "lost"]
  /\ queue' = queue \ {CronJob(n)}
  /\ running' = running \ {CronJob(n)}
  /\ checked' = checked \ {n}
  /\ UNCHANGED <<day, kept, accepted>>

\* The worker dies: what it ran waits again.
WorkerDies ==
  /\ running' = {}
  /\ checked' = checked \ Nights
  /\ scan' = [n \in Nights |->
                IF scan[n].state \in InSlot
                THEN [scan[n] EXCEPT !.state = "queued"] ELSE scan[n]]
  /\ UNCHANGED <<day, queue, kept, accepted>>

(***************************************************************************)
(* Whatever failed on the way, and however often the scan was started:     *)
(* when it returns, Redis took the ingest job of every source it listed;   *)
(* when it raises for failed_sources, of every source but those, of which  *)
(* there is one at least.  Of a scan that raises before its loop nothing is*)
(* said: it names no source and enqueues none.                             *)
(***************************************************************************)
ScanCovers ==
  \A n \in Nights :
    scan[n].state \in {"done", "raised"} =>
      /\ scan[n].state = "done" <=> scan[n].failed = {}
      /\ \A s \in scan[n].listed \ scan[n].failed :
           IngestJob(scan[n].day, s) \in accepted
=============================================================================
