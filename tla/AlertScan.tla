------------------------------ MODULE AlertScan ------------------------------
(***************************************************************************)
(* The alerts table and the runbook scores under audit scans               *)
(* (scan_all_documents, inside audit_run_task), under the API's            *)
(* PATCH /alerts/{id}/resolve, and under DELETE /documents/{id}.           *)
(*                                                                         *)
(* A scan goes through the documents it listed at its start.  For each it  *)
(* collects the evidence, evaluates the rules, inserts the alerts that are *)
(* new, resolves the alerts that the rules no longer raise, and takes a    *)
(* score snapshot.  An alert is identified by its dedup key, on which the  *)
(* scan takes a PostgreSQL advisory lock until its transaction ends.       *)
(***************************************************************************)
EXTENDS Naturals, Sequences, FiniteSets

CONSTANTS
  Docs,       \* documents, numbered in the order of their creation
  Keys,       \* dedup keys of the alerts the rules may raise
  DocOf,      \* [Keys -> Docs]
  Rank,       \* [Keys -> Nat]: the order in which the rules raise them
  Scans,      \* audit_run_task executions
  Resolvers,  \* requests that resolve an alert
  NoDoc,      \* what a scan is at between documents
  NoScan,     \* who holds a free lock
  MaxDrifts,  \* bound on the changes of the world
  MaxCrashes, \* bound on the crashes of workers
  Faults      \* what the environment may do

FaultKinds ==
  {"error",   \* a statement fails or a task is cancelled
   "crash",   \* a worker dies under a scan, which arq runs again
   "delete"}  \* a user deletes a document

ASSUME AlertScanAssumption ==
  /\ Docs \subseteq Nat
  /\ DocOf \in [Keys -> Docs]
  /\ Rank \in [Keys -> Nat]
  /\ \A k, l \in Keys : DocOf[k] = DocOf[l] /\ Rank[k] = Rank[l] => k = l
  /\ Scans \cap Resolvers = {}
  /\ NoDoc \notin Docs
  /\ NoScan \notin Scans
  /\ MaxDrifts \in Nat
  /\ MaxCrashes \in Nat
  /\ Faults \subseteq FaultKinds

Sessions == Scans \cup Resolvers

VARIABLES
  world,    \* SUBSET Keys: what the rules would find in a document now
  drifts,   \* Nat: how often the world changed (bound)
  deleted,  \* SUBSET Docs: is_deleted, as committed
  alert,    \* [Keys -> Seq(RowState)]: the rows with this key, as committed
  score,    \* [Docs -> SUBSET Alerts]: what the latest snapshot deducts for
  lock,     \* [Keys -> Scans \cup {NoScan}]: the advisory locks
  pc,       \* [Sessions -> PC]: where the scan or the request is
  then,     \* [Sessions -> Then]: what follows the score snapshot
  at,       \* [Sessions -> Docs \cup {NoDoc}]: the document it works on
  todo,     \* [Scans -> SUBSET Docs]: the documents still to scan
  drafts,   \* [Scans -> SUBSET Keys]: what the rules raised
  left,     \* [Scans -> SUBSET Keys]: the drafts not looked up yet
  missing,  \* [Scans -> SUBSET Keys]: the drafts without an open alert
  read,     \* [Sessions -> SUBSET Alerts]: rows the last SELECT returned
  created,  \* [Scans -> SUBSET Alerts]: created_alerts of the scan's result
  expired,  \* [Scans -> SUBSET Docs]: documents a rollback expired
  notified, \* SUBSET Alerts: passed on to the notifications (history)
  crashes,  \* Nat: how many workers crashed (bound)
  alone,    \* [Scans -> BOOLEAN]: no other scan wrote alerts of its document
            \* since it collected the evidence (history)
  lagging   \* SUBSET Docs: the score was out of date when it was written, or
            \* a change of the alerts was not followed by one (history)

tableVars == <<alert, score, lock>>
scanVars == <<todo, drafts, left, missing, created, expired>>
worldVars == <<world, drifts, deleted>>
historyVars == <<alone, lagging>>
vars == <<worldVars, tableVars, pc, then, at, scanVars, read, notified, crashes,
          historyVars>>

\* An open row, and a resolved one with the writer of its resolved_at
RowState == {"open", "resolved_by_scan", "resolved_by_api"}
Alerts == Keys \X Nat
ScanPC == {"list", "evaluate", "persist", "reconcile", "resolve", "failed", "done"}
RequestPC == {"idle", "loaded", "answered", "error"}
PC == ScanPC \cup RequestPC \cup {"score", "snapshot"}
Then == {"reconcile", "next", "final", "answered"}

Init ==
  /\ world \in SUBSET Keys
  /\ drifts = 0
  /\ deleted = {}
  /\ alert = [k \in Keys |-> <<>>]
  /\ score = [d \in Docs |-> {}]
  /\ lock = [k \in Keys |-> NoScan]
  /\ pc = [x \in Sessions |-> IF x \in Scans THEN "list" ELSE "idle"]
  /\ then = [x \in Sessions |-> "final"]
  /\ at = [x \in Sessions |-> NoDoc]
  /\ todo = [s \in Scans |-> {}]
  /\ drafts = [s \in Scans |-> {}]
  /\ left = [s \in Scans |-> {}]
  /\ missing = [s \in Scans |-> {}]
  /\ read = [x \in Sessions |-> {}]
  /\ created = [s \in Scans |-> {}]
  /\ expired = [s \in Scans |-> {}]
  /\ notified = {}
  /\ crashes = 0
  /\ alone = [s \in Scans |-> FALSE]
  /\ lagging = {}

-----------------------------------------------------------------------------
(* What a SELECT sees, and the end of a transaction.                       *)

HasOpen(k) == \E i \in DOMAIN alert[k] : alert[k][i] = "open"
KeysOf(d) == {k \in Keys : DocOf[k] = d}

\* the unresolved alerts of a document
OpenOf(d) ==
  UNION {{k} \X {i \in DOMAIN alert[k] : alert[k][i] = "open"} : k \in KeysOf(d)}

\* pg_advisory_xact_lock is held until commit, rollback or disconnection
Unlock(s) == lock' = [k \in Keys |-> IF lock[k] = s THEN NoScan ELSE lock[k]]

Goto(x, label) == pc' = [pc EXCEPT ![x] = label]
Score(x, afterwards) ==
  /\ Goto(x, "score")
  /\ then' = [then EXCEPT ![x] = afterwards]

\* the table after INSERTs with the keys S, after an UPDATE of the rows S
Inserted(S) ==
  [k \in Keys |-> IF k \in S THEN Append(alert[k], "open") ELSE alert[k]]
Marked(S, state) ==
  [k \in Keys |-> [i \in DOMAIN alert[k] |->
     IF <<k, i>> \in S THEN state ELSE alert[k][i]]]

\* Mutant: the pooled connection keeps the locks.
CloseKeepingLocks(s) ==
  /\ UNCHANGED lock
  /\ at' = [at EXCEPT ![s] = NoDoc]
  /\ todo' = [todo EXCEPT ![s] = {}]
  /\ drafts' = [drafts EXCEPT ![s] = {}]
  /\ left' = [left EXCEPT ![s] = {}]
  /\ missing' = [missing EXCEPT ![s] = {}]
  /\ read' = [read EXCEPT ![s] = {}]
  /\ created' = [created EXCEPT ![s] = {}]
  /\ expired' = [expired EXCEPT ![s] = {}]
  /\ alone' = [alone EXCEPT ![s] = FALSE]

\* the session of s is closed: its locks and what it knew are gone
Close(s) ==
  /\ Unlock(s)
  /\ at' = [at EXCEPT ![s] = NoDoc]
  /\ todo' = [todo EXCEPT ![s] = {}]
  /\ drafts' = [drafts EXCEPT ![s] = {}]
  /\ left' = [left EXCEPT ![s] = {}]
  /\ missing' = [missing EXCEPT ![s] = {}]
  /\ read' = [read EXCEPT ![s] = {}]
  /\ created' = [created EXCEPT ![s] = {}]
  /\ expired' = [expired EXCEPT ![s] = {}]
  /\ alone' = [alone EXCEPT ![s] = FALSE]

\* the scans of the document of s other than s are no longer alone
Disturb(s) ==
  alone' = [t \in Scans |-> alone[t] /\ (t = s \/ at[t] # at[s])]

-----------------------------------------------------------------------------
(* The world.                                                              *)

\* a dashboard dies or comes back, a new version of a document is ingested
Drift(k) ==
  /\ drifts < MaxDrifts
  /\ drifts' = drifts + 1
  /\ world' = IF k \in world THEN world \ {k} ELSE world \cup {k}
  /\ UNCHANGED <<deleted, tableVars, pc, then, at, scanVars, read, notified,
                 crashes, historyVars>>

\* DELETE /documents/{id}: the alerts stay
Delete(d) ==
  /\ "delete" \in Faults
  /\ d \notin deleted
  /\ deleted' = deleted \cup {d}
  /\ UNCHANGED <<world, drifts, tableVars, pc, then, at, scanVars, read, notified,
                 crashes, historyVars>>

-----------------------------------------------------------------------------
(* scan_all_documents.                                                     *)

List(s) ==
  /\ pc[s] = "list"
  /\ todo' = [todo EXCEPT ![s] = Docs \ deleted]
  /\ Goto(s, "evaluate")
  /\ UNCHANGED <<worldVars, tableVars, then, at, drafts, left, missing, created,
                 expired, read, notified, crashes, historyVars>>

\* the entities are read, the evidence is collected, the rules are evaluated
Evaluate(s) ==
  /\ pc[s] = "evaluate"
  /\ \E d \in todo[s] \ expired[s] :
       /\ \A e \in todo[s] : d <= e
       /\ at' = [at EXCEPT ![s] = d]
       /\ todo' = [todo EXCEPT ![s] = @ \ {d}]
       /\ drafts' = [drafts EXCEPT ![s] = KeysOf(d) \cap world]
       /\ left' = [left EXCEPT ![s] = KeysOf(d) \cap world]
  /\ alone' = [alone EXCEPT ![s] = TRUE]
  /\ Goto(s, "persist")
  /\ UNCHANGED <<worldVars, tableVars, then, missing, created, expired, read,
                 notified, crashes, lagging>>

\* Mutant: the drafts are looked up in any order.
AnyOf(k, S) == k \in S

First(k, S) == k \in S /\ \A l \in S : Rank[k] <= Rank[l]

\* Mutant: the lookup does not wait for the lock.
ProbeUnlocked(s) ==
  /\ pc[s] = "persist"
  /\ \E k \in left[s] :
       /\ First(k, left[s])
       /\ left' = [left EXCEPT ![s] = @ \ {k}]
       /\ missing' = [missing EXCEPT ![s] = IF HasOpen(k) THEN @ ELSE @ \cup {k}]
  /\ UNCHANGED <<worldVars, tableVars, pc, then, at, todo, drafts, created,
                 expired, read, notified, crashes, historyVars>>

\* _acquire_dedup_lock, and _get_matching_unresolved_alert once it has it
Probe(s) ==
  /\ pc[s] = "persist"
  /\ \E k \in left[s] :
       /\ First(k, left[s])
       /\ lock[k] = NoScan
       /\ lock' = [lock EXCEPT ![k] = s]
       /\ left' = [left EXCEPT ![s] = @ \ {k}]
       /\ missing' = [missing EXCEPT ![s] = IF HasOpen(k) THEN @ ELSE @ \cup {k}]
  /\ UNCHANGED <<worldVars, alert, score, pc, then, at, todo, drafts, created,
                 expired, read, notified, crashes, historyVars>>

\* Mutant: the result does not name the alerts that were inserted.
InsertUncounted(s) ==
  /\ pc[s] = "persist" /\ left[s] = {} /\ missing[s] # {}
  /\ alert' = Inserted(missing[s])
  /\ Unlock(s)
  /\ missing' = [missing EXCEPT ![s] = {}]
  /\ Score(s, "reconcile")
  /\ Disturb(s)
  /\ UNCHANGED <<worldVars, score, at, todo, drafts, left, created, expired,
                 read, notified, crashes, lagging>>

\* the new alerts are committed together
Insert(s) ==
  /\ pc[s] = "persist" /\ left[s] = {} /\ missing[s] # {}
  /\ alert' = Inserted(missing[s])
  /\ created' = [created EXCEPT ![s] =
                   @ \cup {<<k, Len(alert[k]) + 1>> : k \in missing[s]}]
  /\ Unlock(s)
  /\ missing' = [missing EXCEPT ![s] = {}]
  /\ Score(s, "reconcile")
  /\ Disturb(s)
  /\ UNCHANGED <<worldVars, score, at, todo, drafts, left, expired, read,
                 notified, crashes, lagging>>

\* Mutant: with nothing to insert there is nothing to reconcile.
NothingNewDone(s) ==
  /\ pc[s] = "persist" /\ left[s] = {} /\ missing[s] = {}
  /\ Score(s, "next")
  /\ UNCHANGED <<worldVars, tableVars, at, scanVars, read, notified, crashes,
                 historyVars>>

\* persist_alerts returns without a commit: the locks stay
NothingNew(s) ==
  /\ pc[s] = "persist" /\ left[s] = {} /\ missing[s] = {}
  /\ Goto(s, "reconcile")
  /\ UNCHANGED <<worldVars, tableVars, then, at, scanVars, read, notified, crashes,
                 historyVars>>

\* reconcile_stale_alerts: the SELECT
Reconcile(s) ==
  /\ pc[s] = "reconcile"
  /\ LET stale == {a \in OpenOf(at[s]) : a[1] \notin drafts[s]} IN
       /\ read' = [read EXCEPT ![s] = stale]
       /\ IF stale = {} THEN Score(s, "next")
                        ELSE Goto(s, "resolve") /\ UNCHANGED then
  /\ UNCHANGED <<worldVars, tableVars, at, scanVars, notified, crashes,
                 historyVars>>

\* Mutant: resolved_at is not set.
ResolveUnstamped(s) ==
  /\ pc[s] = "resolve"
  /\ alert' = Marked(read[s], "resolved")
  /\ Unlock(s)
  /\ Score(s, "final")
  /\ Disturb(s)
  /\ read' = [read EXCEPT ![s] = {}]
  /\ UNCHANGED <<worldVars, score, at, scanVars, notified, crashes, lagging>>

\* and the UPDATE by primary key, whoever resolved the rows in between
Resolve(s) ==
  /\ pc[s] = "resolve"
  /\ alert' = Marked(read[s], "resolved_by_scan")
  /\ Unlock(s)
  /\ Score(s, "final")
  /\ Disturb(s)
  /\ read' = [read EXCEPT ![s] = {}]
  /\ UNCHANGED <<worldVars, score, at, scanVars, notified, crashes, lagging>>

\* Objects of the session that a rollback expired cannot be read: there is no
\* implicit I/O in an async session.
Unreadable(s) ==
  \/ pc[s] = "evaluate" /\ \E d \in todo[s] \cap expired[s] : \A e \in todo[s] : d <= e
  \/ pc[s] = "score" /\ then[s] = "next" /\ at[s] \in expired[s]
  \/ /\ pc[s] = "evaluate" /\ todo[s] = {}
     /\ \E a \in created[s] : DocOf[a[1]] \in expired[s]

\* The audit job is completed, and its notifications are created for the
\* alerts that this execution created.
Report(s) ==
  /\ pc[s] = "evaluate" /\ todo[s] = {} /\ ~Unreadable(s)
  /\ notified' = notified \cup created[s]
  /\ Goto(s, "done")
  /\ Close(s)
  /\ UNCHANGED <<worldVars, alert, score, then, crashes, lagging>>

\* x has changed alerts and still has to score their document
Owes(x) == pc[x] \in {"score", "snapshot"} /\ then[x] # "next"

CutOff(x) ==
  lagging' = IF Owes(x) THEN lagging \cup {at[x]} ELSE lagging

\* the exception ends the task, and the session is closed
Raise(s) ==
  /\ pc[s] \notin {"failed", "done"}
  /\ "error" \in Faults \/ Unreadable(s)
  /\ Goto(s, "failed")
  /\ Close(s)
  /\ CutOff(s)
  /\ UNCHANGED <<worldVars, alert, score, then, notified, crashes>>

\* arq runs the task again, with nothing of what it knew
Crash(s) ==
  /\ "crash" \in Faults
  /\ crashes < MaxCrashes
  /\ pc[s] \notin {"failed", "done"}
  /\ crashes' = crashes + 1
  /\ Goto(s, "list")
  /\ Close(s)
  /\ CutOff(s)
  /\ UNCHANGED <<worldVars, alert, score, then, notified>>

-----------------------------------------------------------------------------
(* PATCH /alerts/{id}/resolve.                                             *)

Get(u) ==
  /\ pc[u] = "idle"
  /\ \E k \in Keys : \E i \in DOMAIN alert[k] :
       /\ read' = [read EXCEPT ![u] = {<<k, i>>}]
       /\ at' = [at EXCEPT ![u] = DocOf[k]]
       /\ Goto(u, IF alert[k][i] = "open" THEN "loaded" ELSE "answered")
  /\ UNCHANGED <<worldVars, tableVars, then, scanVars, notified, crashes,
                 historyVars>>

\* Mutant: the score is not refreshed.
UpdateUnscored(u) ==
  /\ pc[u] = "loaded"
  /\ Goto(u, "answered")
  /\ alert' = Marked(read[u] \cap OpenOf(at[u]), "resolved_by_api")
  /\ UNCHANGED <<worldVars, score, lock, then, at, scanVars, read, notified,
                 crashes, historyVars>>

\* the conditional UPDATE
Update(u) ==
  /\ pc[u] = "loaded"
  /\ IF read[u] \subseteq OpenOf(at[u])
       THEN /\ alert' = Marked(read[u], "resolved_by_api")
            /\ Score(u, "answered")
       ELSE Goto(u, "answered") /\ UNCHANGED <<alert, then>>
  /\ UNCHANGED <<worldVars, score, lock, at, scanVars, read, notified, crashes,
                 historyVars>>

\* the request fails, but not in the refresh of the score
RequestFails(u) ==
  /\ "error" \in Faults
  /\ pc[u] \in {"loaded", "score"}
  /\ Goto(u, "error")
  /\ CutOff(u)
  /\ UNCHANGED <<worldVars, tableVars, then, at, scanVars, read, notified, crashes,
                 alone>>

-----------------------------------------------------------------------------
(* score_document, and _refresh_document_scores around it.                 *)

\* db.get reads the document from the database unless the session has it
Reloads(x) == x \in Scans => at[x] \in expired[x]
NotFound(x) == Reloads(x) /\ at[x] \in deleted

\* compute_score_inputs
ReadAlerts(x) ==
  /\ pc[x] = "score" /\ ~NotFound(x)
  /\ x \in Scans => ~Unreadable(x)
  /\ read' = [read EXCEPT ![x] = OpenOf(at[x])]
  /\ IF x \in Scans THEN expired' = [expired EXCEPT ![x] = @ \ {at[x]}]
                     ELSE UNCHANGED expired
  /\ Goto(x, "snapshot")
  /\ UNCHANGED <<worldVars, tableVars, then, at, todo, drafts, left, missing,
                 created, notified, crashes, historyVars>>

AfterScore(x) ==
  CASE then[x] = "reconcile" -> Goto(x, "reconcile") /\ UNCHANGED <<then, at>>
    [] then[x] = "final" -> Score(x, "next") /\ UNCHANGED at
    [] then[x] = "next" -> /\ Goto(x, "evaluate") /\ UNCHANGED then
                           /\ at' = [at EXCEPT ![x] = NoDoc]
    [] then[x] = "answered" -> Goto(x, "answered") /\ UNCHANGED <<then, at>>

\* persist_score_snapshot
Snapshot(x) ==
  /\ pc[x] = "snapshot"
  /\ score' = [score EXCEPT ![at[x]] = read[x]]
  /\ lagging' = IF read[x] = OpenOf(at[x]) THEN lagging \ {at[x]}
                                           ELSE lagging \cup {at[x]}
  /\ Unlock(x)
  /\ AfterScore(x)
  /\ read' = [read EXCEPT ![x] = {}]
  /\ UNCHANGED <<worldVars, alert, scanVars, notified, crashes, alone>>

\* A refresh after a write of alerts fails and is rolled back.  The scan goes
\* on as far as the rollback lets it; the answer of the request cannot be
\* built from the expired alert.
RefreshFails(x) ==
  /\ Owes(x)
  /\ \/ "error" \in Faults
     \/ pc[x] = "score" /\ NotFound(x)
  /\ IF x \in Scans
       THEN expired' = [expired EXCEPT ![x] = Docs] /\ AfterScore(x)
       ELSE Goto(x, "error") /\ UNCHANGED <<expired, then, at>>
  /\ CutOff(x)
  /\ read' = [read EXCEPT ![x] = {}]
  /\ UNCHANGED <<worldVars, tableVars, todo, drafts, left, missing, created,
                 notified, crashes, alone>>

-----------------------------------------------------------------------------
\* what a scan does of itself; that a statement fails is nobody's duty
ScanStep(s) ==
  \/ List(s) \/ Evaluate(s) \/ Probe(s) \/ Insert(s) \/ NothingNew(s)
  \/ Reconcile(s) \/ Resolve(s) \/ Report(s) \/ ReadAlerts(s) \/ Snapshot(s)
  \/ Unreadable(s) /\ Raise(s)
  \/ NotFound(s) /\ RefreshFails(s)

Next ==
  \/ \E k \in Keys : Drift(k)
  \/ \E d \in Docs : Delete(d)
  \/ \E s \in Scans :
       \/ List(s)
       \/ Evaluate(s)
       \/ Probe(s)
       \/ Insert(s)
       \/ NothingNew(s)
       \/ Reconcile(s)
       \/ Resolve(s)
       \/ Report(s)
       \/ Raise(s)
       \/ Crash(s)
  \/ \E u \in Resolvers : Get(u) \/ Update(u) \/ RequestFails(u)
  \/ \E x \in Sessions : ReadAlerts(x) \/ Snapshot(x) \/ RefreshFails(x)

Spec == Init /\ [][Next]_vars

\* the event loop of a worker that lives runs its tasks
Fairness == \A s \in Scans : WF_vars(ScanStep(s))

LiveSpec == Spec /\ Fairness

-----------------------------------------------------------------------------
(* Properties.                                                             *)

\* The type invariant; an alert that is resolved has a resolved_at.
TypeOK ==
  /\ world \in SUBSET Keys
  /\ drifts \in Nat
  /\ deleted \in SUBSET Docs
  /\ alert \in [Keys -> Seq(RowState)]
  /\ score \in [Docs -> SUBSET Alerts]
  /\ lock \in [Keys -> Scans \cup {NoScan}]
  /\ pc \in [Sessions -> PC]
  /\ then \in [Sessions -> Then]
  /\ at \in [Sessions -> Docs \cup {NoDoc}]
  /\ todo \in [Scans -> SUBSET Docs]
  /\ drafts \in [Scans -> SUBSET Keys]
  /\ left \in [Scans -> SUBSET Keys]
  /\ missing \in [Scans -> SUBSET Keys]
  /\ read \in [Sessions -> SUBSET Alerts]
  /\ created \in [Scans -> SUBSET Alerts]
  /\ expired \in [Scans -> SUBSET Docs]
  /\ notified \in SUBSET Alerts
  /\ crashes \in Nat
  /\ alone \in [Scans -> BOOLEAN]
  /\ lagging \in SUBSET Docs

\* No two unresolved alerts say the same of the same document, however many
\* scans find it at the same time, crash, and find it again.
AtMostOneOpen ==
  \A k \in Keys : \A i, j \in DOMAIN alert[k] :
    alert[k][i] = "open" /\ alert[k][j] = "open" => i = j

\* A scan holds no lock that comes after one it waits for, on whatever
\* document and since whichever transaction: along a chain of waiting scans
\* the locks grow, and no chain closes to a deadlock.
LocksInOrder ==
  \A s, t \in Scans : \A k \in left[s], l \in Keys :
    /\ pc[s] = "persist" /\ First(k, left[s]) /\ lock[l] = s
    => DocOf[l] = DocOf[k] /\ Rank[l] < Rank[k]

\* s waits for the advisory lock of the next dedup key, which t holds
WaitsFor(s, t) ==
  pc[s] = "persist" /\ \E k \in left[s] : First(k, left[s]) /\ lock[k] = t

\* No scans wait for each other in a circle, nor one for itself: although each keeps
\* the locks of all its drafts until it commits, PostgreSQL never has to break a
\* deadlock (persist_alerts takes them in the order of the rules).
NoDeadlock ==
  \A S \in SUBSET Scans :
    IsFiniteSet(S) /\ S # {} => \E s \in S : \A t \in S : ~WaitsFor(s, t)

\* After a scan that no other scan disturbed, the open alerts of the document
\* are those that it raised, except for what users have resolved since.
ScanIsExact ==
  \A s \in Scans :
    alone[s] /\ pc[s] \in {"score", "snapshot"} /\ then[s] = "next" =>
      \A k \in KeysOf(at[s]) :
        /\ HasOpen(k) => k \in drafts[s]
        /\ k \in drafts[s] => HasOpen(k) \/ \E i \in DOMAIN alert[k] :
                                            alert[k][i] = "resolved_by_api"

\* The latest score of a document deducts for its open alerts, except while a
\* session that changed them has yet to score it, after one that could not,
\* and after a snapshot of alerts read before the change.
ScoreUpToDate ==
  \A d \in Docs \ lagging :
    (\A x \in Sessions : at[x] = d => ~Owes(x)) => score[d] = OpenOf(d)

\* Every scan ends: none waits for ever for the lock of another.
ScanEnds == \A s \in Scans : <>(pc[s] \in {"failed", "done"})

\* When every scan has ended well and no worker died, every alert that was
\* raised is handed to the notifications, whichever scan raised it and whatever
\* became of it since.  (A retry after a crash, or the scan after one that
\* failed, finds the alert open and does not count it as created.)
CreatedIsNotified ==
  crashes = 0 /\ (\A s \in Scans : pc[s] = "done") =>
    \A k \in Keys : \A i \in DOMAIN alert[k] : <<k, i>> \in notified

\* A request to resolve an alert that exists is answered 200.
ResolveAnswers == \A u \in Resolvers : pc[u] # "error"

==============================================================================
