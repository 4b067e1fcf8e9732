--------------------------- MODULE DocumentIngest ---------------------------
(***************************************************************************)
(* Documents and their versions under synchronisations of a Git source     *)
(* (sync_source, from ingest_task and audit_run_task), uploads             *)
(* (POST /documents/upload) and deletions (DELETE /documents/{id}).        *)
(*                                                                         *)
(* An ingestion reads its files, then upserts them one after the other in  *)
(* one transaction.  Each upsert takes the advisory lock of the document's *)
(* identity, looks the live document up or inserts one, takes the advisory *)
(* lock of the document's versions, and inserts the next version if the    *)
(* content changed.  All locks are held until the transaction ends, and    *)
(* nobody else sees its rows before.  A path stands for an identity, a     *)
(* source with a path or an uploaded path without a source: paths of       *)
(* different sources never meet.                                           *)
(***************************************************************************)
EXTENDS Naturals, Sequences

CONSTANTS
  NumPaths,   \* number of paths, in the order in which they are listed
  Contents,   \* what a file may hold
  NoContent,  \* of a file that does not exist
  Syncs,      \* synchronisations
  Uploads,    \* upload requests
  Files,      \* [Syncs \cup Uploads -> SUBSET Paths]: what each may touch
  NoIngest,   \* who holds a free lock
  MaxPushes,  \* bound on the commits to the repositories
  MaxCrashes, \* bound on the crashes of workers
  Faults      \* what the environment may do

FaultKinds ==
  {"error",   \* a call fails, a task is cancelled, a budget is exceeded
   "crash",   \* a worker dies under a synchronisation, which arq runs again
   "delete"}  \* a user deletes a document

Ingests == Syncs \cup Uploads
Paths == 1..NumPaths

ASSUME DocumentIngestAssumption ==
  /\ NumPaths \in Nat
  /\ NoContent \notin Contents
  /\ Syncs \cap Uploads = {}
  /\ Files \in [Ingests -> SUBSET Paths]
  /\ NoIngest \notin Ingests
  /\ MaxPushes \in Nat
  /\ MaxCrashes \in Nat
  /\ Faults \subseteq FaultKinds

VARIABLES
  repo,     \* [Paths -> Contents \cup {NoContent}]: the branch on
            \* GitHub, or the files that users upload
  pushes,   \* Nat: how often it changed (bound)
  docs,     \* [Paths -> Seq(Document)]: the committed rows of a path
  lock,     \* [Paths -> Ingests \cup {NoIngest}]: the document_upsert locks
  pc,       \* [Ingests -> PC]: where the ingestion is
  batch,    \* [Ingests -> Batches]: the contents it has read
  todo,     \* [Ingests -> SUBSET Paths]: files to read, then to upsert
  at,       \* [Ingests -> Paths \cup {0}]: the file being upserted
  found,    \* [Ingests -> [Paths -> Nat]]: the document of each upserted file
  made,     \* [Ingests -> SUBSET Paths]: the documents it inserted
  seen,     \* [Ingests -> Nat]: the latest version of the document at hand
  written,  \* [Ingests -> [Paths -> Seq(Version)]]: the version it inserted
  vlocks,   \* [Ingests -> SUBSET (Paths \X Nat)]: the document_version locks
  crashes   \* Nat: how many workers crashed (bound)

sessionVars == <<todo, at, found, made, seen, written, vlocks>>
vars == <<repo, pushes, docs, lock, pc, batch, sessionVars, crashes>>

PC == {"fetch", "next", "lock", "find", "create", "write", "committed",
       "done", "failed", "conflict"}
Ended == {"done", "failed", "conflict"}

Version == [number : Nat, content : Contents]
Document == [deleted : BOOLEAN, versions : Seq(Version)]
NoFiles == [p \in Paths |-> NoContent]

\* The files that s upserts into a document that was deleted since it found it.
Outdated(s) ==
  {p \in Paths : /\ found[s][p] # 0 /\ p \notin made[s]
                 /\ docs[p][found[s][p]].deleted}

Catalog ==
  INSTANCE DocumentCatalog
    WITH Ingests <- Ingests, docs <- docs, batch <- batch,
         outdated <- [s \in Ingests |-> Outdated(s)]

Init ==
  /\ repo \in [Paths -> Contents \cup {NoContent}]
  /\ pushes = 0
  /\ docs = [p \in Paths |-> <<>>]
  /\ lock = [p \in Paths |-> NoIngest]
  /\ pc = [s \in Ingests |-> "fetch"]
  /\ batch = [s \in Ingests |-> NoFiles]
  /\ todo = [s \in Ingests |-> Files[s]]
  /\ at = [s \in Ingests |-> 0]
  /\ found = [s \in Ingests |-> [p \in Paths |-> 0]]
  /\ made = [s \in Ingests |-> {}]
  /\ seen = [s \in Ingests |-> 0]
  /\ written = [s \in Ingests |-> [p \in Paths |-> <<>>]]
  /\ vlocks = [s \in Ingests |-> {}]
  /\ crashes = 0

-----------------------------------------------------------------------------
(* Helpers.                                                                *)

Goto(s, label) == pc' = [pc EXCEPT ![s] = label]

\* Mutant: the files come in no particular order.
AnyOf(s, p) == p \in todo[s]

\* the file that comes first in the listing
FirstOf(s, p) == p \in todo[s] /\ \A q \in todo[s] : p <= q

\* Mutant: the lookup does not leave deleted documents out.
FindsDeleted(p, i) == i \in DOMAIN docs[p] /\ \A j \in DOMAIN docs[p] : j <= i

\* find_existing_document: is_deleted = false, the newest first
Finds(p, i) ==
  /\ i \in DOMAIN docs[p]
  /\ ~docs[p][i].deleted
  /\ \A j \in DOMAIN docs[p] : ~docs[p][j].deleted => j <= i
FindsNone(p) == \A i \in DOMAIN docs[p] : docs[p][i].deleted

\* commit and rollback end the transaction, whose advisory locks are released
EndTransaction(s) ==
  /\ lock' = [p \in Paths |-> IF lock[p] = s THEN NoIngest ELSE lock[p]]
  /\ batch' = [batch EXCEPT ![s] = NoFiles]
  /\ todo' = [todo EXCEPT ![s] = Files[s]]
  /\ at' = [at EXCEPT ![s] = 0]
  /\ found' = [found EXCEPT ![s] = [p \in Paths |-> 0]]
  /\ made' = [made EXCEPT ![s] = {}]
  /\ seen' = [seen EXCEPT ![s] = 0]
  /\ written' = [written EXCEPT ![s] = [p \in Paths |-> <<>>]]
  /\ vlocks' = [vlocks EXCEPT ![s] = {}]

-----------------------------------------------------------------------------
(* Reading the files.                                                      *)

\* A synchronisation requests each file when its turn comes, at the branch as
\* it is then: its files may be of different commits.  A request carries one.
FetchFile(s) ==
  /\ pc[s] = "fetch"
  /\ \E p \in Paths :
       /\ FirstOf(s, p)
       /\ s \in Uploads => repo[p] # NoContent
       /\ batch' = [batch EXCEPT ![s][p] = repo[p]]
       /\ todo' = [todo EXCEPT ![s] = @ \ {p}]
  /\ UNCHANGED <<repo, pushes, docs, lock, pc, at, found, made, seen, written,
                 vlocks, crashes>>

\* Mutant: files that do not exist are upserted too.
StartAllFiles(s) ==
  /\ pc[s] = "fetch"
  /\ todo[s] = {}
  /\ todo' = [todo EXCEPT ![s] = Files[s]]
  /\ Goto(s, "next")
  /\ UNCHANGED <<repo, pushes, docs, lock, batch, at, found, made, seen,
                 written, vlocks, crashes>>

StartUpserts(s) ==
  /\ pc[s] = "fetch"
  /\ todo[s] = {}
  /\ todo' = [todo EXCEPT ![s] = {p \in Paths : batch[s][p] # NoContent}]
  /\ Goto(s, "next")
  /\ UNCHANGED <<repo, pushes, docs, lock, batch, at, found, made, seen,
                 written, vlocks, crashes>>

-----------------------------------------------------------------------------
(* upsert_document, for each file in turn.                                 *)

NextFile(s) ==
  /\ pc[s] = "next"
  /\ \E p \in Paths : FirstOf(s, p) /\ at' = [at EXCEPT ![s] = p]
  /\ Goto(s, "lock")
  /\ UNCHANGED <<repo, pushes, docs, lock, batch, todo, found, made, seen,
                 written, vlocks, crashes>>

\* Mutant: no lock is taken.
SkipDocumentLock(s) ==
  /\ pc[s] = "lock"
  /\ Goto(s, "find")
  /\ UNCHANGED <<repo, pushes, docs, lock, batch, sessionVars, crashes>>

\* _acquire_document_lock waits for the session that has the lock
LockDocument(s) ==
  /\ pc[s] = "lock"
  /\ lock[at[s]] \in {NoIngest, s}
  /\ lock' = [lock EXCEPT ![at[s]] = s]
  /\ Goto(s, "find")
  /\ UNCHANGED <<repo, pushes, docs, batch, sessionVars, crashes>>

\* the lookup also loads the id of the latest version, read again by nobody
Find(s) ==
  /\ pc[s] = "find"
  /\ \/ \E i \in DOMAIN docs[at[s]] :
          /\ Finds(at[s], i)
          /\ found' = [found EXCEPT ![s][at[s]] = i]
          /\ seen' = [seen EXCEPT ![s] = Len(docs[at[s]][i].versions)]
          /\ Goto(s, "write")
     \/ /\ FindsNone(at[s])
        /\ Goto(s, "create")
        /\ UNCHANGED <<found, seen>>
  /\ UNCHANGED <<repo, pushes, docs, lock, batch, todo, at, made, written,
                 vlocks, crashes>>

\* The partial unique index on the live documents of a path makes an INSERT
\* wait for another that is not committed yet, and fail if there is one.
Create(s) ==
  /\ pc[s] = "create"
  /\ \A r \in Ingests \ {s} : at[s] \notin made[r]
  /\ IF FindsNone(at[s])
     THEN /\ made' = [made EXCEPT ![s] = @ \cup {at[s]}]
          /\ found' = [found EXCEPT ![s][at[s]] = Len(docs[at[s]]) + 1]
          /\ seen' = [seen EXCEPT ![s] = 0]
          /\ Goto(s, "write")
          /\ UNCHANGED <<lock, batch, todo, at, written, vlocks>>
     ELSE EndTransaction(s) /\ Goto(s, "conflict")
  /\ UNCHANGED <<repo, pushes, docs, crashes>>

\* _acquire_version_lock waits for the session that has the lock
LockVersions(s) ==
  /\ \A r \in Ingests \ {s} : <<at[s], found[s][at[s]]>> \notin vlocks[r]
  /\ vlocks' = [vlocks EXCEPT ![s] = @ \cup {<<at[s], found[s][at[s]]>>}]

\* rows of document_versions are never changed: reading one again is the same
LatestSeen(s) == docs[at[s]][found[s][at[s]]].versions[seen[s]]

\* the file at hand is dealt with
FileDone(s) ==
  /\ todo' = [todo EXCEPT ![s] = @ \ {at[s]}]
  /\ at' = [at EXCEPT ![s] = 0]
  /\ Goto(s, "next")

KeepVersion(s) ==
  /\ pc[s] = "write"
  /\ LockVersions(s)
  /\ seen[s] # 0
  /\ LatestSeen(s).content = batch[s][at[s]]
  /\ FileDone(s)
  /\ UNCHANGED <<repo, pushes, docs, lock, batch, found, made, seen, written,
                 crashes>>

\* the version with its entities, and latest_version_id
WriteVersion(s) ==
  /\ pc[s] = "write"
  /\ LockVersions(s)
  /\ seen[s] # 0 => LatestSeen(s).content # batch[s][at[s]]
  /\ written' = [written EXCEPT ![s][at[s]] =
       <<[number |-> IF seen[s] = 0 THEN 1 ELSE LatestSeen(s).number + 1,
          content |-> batch[s][at[s]]]>>]
  /\ FileDone(s)
  /\ UNCHANGED <<repo, pushes, docs, lock, batch, found, made, seen, crashes>>

-----------------------------------------------------------------------------
(* The end of an ingestion, and its failures.                              *)

\* Mutant: the whole row of a document is written, as it was looked up.
CommittedAsRead(s, p) ==
  IF p \in made[s]
  THEN Append(docs[p], [deleted |-> FALSE, versions |-> written[s][p]])
  ELSE IF written[s][p] # <<>>
  THEN [docs[p] EXCEPT ![found[s][p]] =
          [deleted |-> FALSE,
           versions |-> Append(@.versions, written[s][p][1])]]
  ELSE docs[p]

\* the rows of path p after the commit of s, which wrote changed columns only
Committed(s, p) ==
  IF p \in made[s]
  THEN Append(docs[p], [deleted |-> FALSE, versions |-> written[s][p]])
  ELSE IF written[s][p] # <<>>
  THEN [docs[p] EXCEPT ![found[s][p]].versions = Append(@, written[s][p][1])]
  ELSE docs[p]

\* Mutant: the loop is left before its last file.
CommitEarly(s) ==
  /\ pc[s] = "next"
  /\ docs' = [p \in Paths |-> Committed(s, p)]
  /\ EndTransaction(s)
  /\ Goto(s, "committed")
  /\ UNCHANGED <<repo, pushes, crashes>>

Commit(s) ==
  /\ pc[s] = "next"
  /\ todo[s] = {}
  /\ docs' = [p \in Paths |-> Committed(s, p)]
  /\ EndTransaction(s)
  /\ Goto(s, "committed")
  /\ UNCHANGED <<repo, pushes, crashes>>

\* the task or the request returns
Return(s) ==
  /\ pc[s] = "committed"
  /\ Goto(s, "done")
  /\ UNCHANGED <<repo, pushes, docs, lock, batch, sessionVars, crashes>>

\* An exception anywhere rolls back; arq does not run the task again.
Raise(s) ==
  /\ "error" \in Faults
  /\ pc[s] \notin Ended
  /\ EndTransaction(s)
  /\ Goto(s, "failed")
  /\ UNCHANGED <<repo, pushes, docs, crashes>>

\* A worker dies: PostgreSQL rolls back, and arq runs the task again, also
\* when it had committed but not returned.
Crash(s) ==
  /\ "crash" \in Faults
  /\ s \in Syncs
  /\ crashes < MaxCrashes
  /\ pc[s] \notin Ended
  /\ EndTransaction(s)
  /\ Goto(s, "fetch")
  /\ crashes' = crashes + 1
  /\ UNCHANGED <<repo, pushes, docs>>

\* A commit to the branch, or the user who uploads it, changes, adds or removes
\* a file.
Push ==
  /\ pushes < MaxPushes
  /\ \E p \in Paths, content \in Contents \cup {NoContent} :
       repo' = [repo EXCEPT ![p] = content]
  /\ pushes' = pushes + 1
  /\ UNCHANGED <<docs, lock, pc, batch, sessionVars, crashes>>

\* delete_document loads the row and marks it, without any advisory lock
Delete(p, i) ==
  /\ "delete" \in Faults
  /\ i \in DOMAIN docs[p]
  /\ ~docs[p][i].deleted
  /\ docs' = [docs EXCEPT ![p][i].deleted = TRUE]
  /\ UNCHANGED <<repo, pushes, lock, pc, batch, sessionVars, crashes>>

Step(s) ==
  \/ FetchFile(s) \/ StartUpserts(s) \/ NextFile(s)
  \/ LockDocument(s) \/ Find(s) \/ Create(s)
  \/ KeepVersion(s) \/ WriteVersion(s) \/ Commit(s) \/ Return(s)

Next ==
  \/ \E s \in Ingests : Step(s) \/ Raise(s) \/ Crash(s)
  \/ Push
  \/ \E p \in Paths : \E i \in DOMAIN docs[p] : Delete(p, i)

Spec == Init /\ [][Next]_vars

\* Tasks and requests make progress when they can; PostgreSQL grants a free
\* lock.  Nothing makes a user push or delete, or a worker fail.
Fairness == \A s \in Ingests : WF_vars(Step(s))
FairSpec == Spec /\ Fairness

-----------------------------------------------------------------------------
(* Properties.                                                             *)

\* Every variable has its type.
TypeOK ==
  /\ repo \in [Paths -> Contents \cup {NoContent}]
  /\ pushes \in 0..MaxPushes
  /\ docs \in [Paths -> Seq(Document)]
  /\ lock \in [Paths -> Ingests \cup {NoIngest}]
  /\ pc \in [Ingests -> PC]
  /\ batch \in [Ingests -> [Paths -> Contents \cup {NoContent}]]
  /\ todo \in [Ingests -> SUBSET Paths]
  /\ at \in [Ingests -> Paths \cup {0}]
  /\ found \in [Ingests -> [Paths -> Nat]]
  /\ made \in [Ingests -> SUBSET Paths]
  /\ seen \in [Ingests -> Nat]
  /\ written \in [Ingests -> [Paths -> Seq(Version)]]
  /\ vlocks \in [Ingests -> SUBSET (Paths \X Nat)]
  /\ crashes \in 0..MaxCrashes

\* Ingestions look as if each took effect at once, one after the other: no
\* version is lost, skipped or written twice, no batch is applied in part, and a
\* deleted document gets a version only from an ingestion that found it before the
\* deletion (upsert_document under its locks, and the commit after the last file).
CatalogSpec == Catalog!Spec

\* The unique index never has to refuse a document: the lock of the identity,
\* taken before the lookup, keeps a second upsert from finding none as well.
NeverConflicts == \A s \in Ingests : pc[s] # "conflict"

\* s waits for r: for the lock of a document, for the row of a new one to be
\* committed, or for the lock of a document's versions
WaitsFor(s, r) ==
  /\ s # r
  /\ \/ pc[s] = "lock" /\ lock[at[s]] = r
     \/ pc[s] = "create" /\ at[s] \in made[r]
     \/ pc[s] = "write" /\ <<at[s], found[s][at[s]]>> \in vlocks[r]

\* No set of ingestions waits for itself: although each keeps the locks of all
\* its files until it commits, PostgreSQL never has to break a deadlock.
NoDeadlock ==
  \A S \in SUBSET Ingests :
    S # {} => \E s \in S : \A r \in S : ~WaitsFor(s, r)

\* of the rows of a path, only the newest may be live, and each has a version
GoodRows(rows) ==
  \A i \in DOMAIN rows : /\ rows[i].versions # <<>>
                         /\ i < Len(rows) => rows[i].deleted

\* numbered from 1, each with other content than the one before
Numbered(versions) ==
  \A n \in DOMAIN versions :
    /\ versions[n].number = n
    /\ n > 1 => versions[n].content # versions[n - 1].content

\* However many ingestions of a file run at once, fail and run again, its versions
\* count up without a gap or a double, none repeats the one before, and at most one
\* document of the file is live (upsert_document reads the latest version before it
\* has the lock on the versions, and no constraint keeps their numbers apart).
InOrder(rows) == GoodRows(rows) /\ \A i \in DOMAIN rows : Numbered(rows[i].versions)
CatalogInOrder == \A p \in Paths : InOrder(docs[p])

\* The lock on a document's versions is always free when it is asked for: its
\* holder would hold the lock of the document's identity as well.
VersionLockIsFree ==
  \A s, r \in Ingests :
    pc[s] = "write" /\ r # s => <<at[s], found[s][at[s]]>> \notin vlocks[r]

\* A deletion is final: an ingestion that looked the document up before and
\* commits after it may add a version, and does not revive the document.
DeletionIsFinal ==
  [][\A p \in Paths : \A i \in DOMAIN docs[p] :
       docs[p][i].deleted => docs'[p][i].deleted]_vars

\* Every ingestion ends, if workers stop crashing.
IngestEnds == \A s \in Ingests : <>(pc[s] \in Ended)
=============================================================================
