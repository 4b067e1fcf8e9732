----------------------------- MODULE AuditReport -----------------------------
(***************************************************************************)
(* GET /audit/report and GET /audit/service/{name}                         *)
(* (app/services/audit/audit_report_service.py): one report, made of       *)
(* queries that run one after the other at READ COMMITTED, so each sees    *)
(* what was committed when it began, while documents are ingested and      *)
(* deleted, alerts come and go, scores are taken and audits run.           *)
(*                                                                         *)
(* Nothing in the program writes documents.service_name or an alert        *)
(* without a document, so a document is in the scope of a service by the   *)
(* service entities of its latest version alone, and an alert by its       *)
(* document.  Names are compared stripped and in lower case: a service here*)
(* is such a name.                                                         *)
(***************************************************************************)
EXTENDS Naturals, Sequences, FiniteSets, FiniteSetsExt, Functions

CONSTANTS
  Docs, Services, Severities, Jobs,
  Alerts,      \* what may be wrong with a document: the dedup keys of its alerts
  SeverityOf,  \* [Alerts -> Severities]
  Scores,      \* the scores a document may be given
  Global,      \* the scope of the report over all documents
  BlankName,   \* the name of a service that has nothing but spaces
  NoJob,
  Limit,       \* LOWEST_SCORE_LIMIT
  MaxWrites    \* bound on the writes by others

ASSUME ReportAssumption ==
  /\ IsFiniteSet(Docs) /\ IsFiniteSet(Alerts)
  /\ SeverityOf \in [Alerts -> Severities]
  /\ Scores \subseteq 0 .. 100
  /\ Global \notin Services /\ BlankName \notin Services /\ Global # BlankName
  /\ NoJob \notin Jobs
  /\ Limit \in Nat \ {0} /\ MaxWrites \in Nat

VARIABLES
  live,        \* the documents that are not deleted
  deleted,     \* the documents that are
  tags,        \* [Docs -> SUBSET Services]: entities of the latest version
  open,        \* SUBSET (Docs \X Alerts): the unresolved alerts (one per dedup key)
  snapshots,   \* Seq([doc, score]): runbook_scores in the order of scored_at
  requested,   \* SUBSET Jobs: the audit jobs
  started,     \* Seq(Jobs): those with a started_at, in its order
  pc,          \* the query of the report that is next
  scope,       \* what it is about
  report,      \* the figures it has so far
  writes,      \* number of writes by others (bound)
  disturbed,   \* history: something was written since the first query
  present,     \* history: documents in the scope at some moment since then
  alerted,     \* history: the alerts that were open at some moment since then
  newest       \* history: [Docs -> the score taken last], 101 before any

data == <<live, deleted, tags, open, snapshots, requested, started>>
history == <<disturbed, present, alerted, newest>>
vars == <<data, pc, scope, report, writes, history>>

NoReport == [job |-> NoJob, documents |-> 0, alerts |-> [v \in Severities |-> 0],
             scored |-> 0, total |-> 0, lowest |-> <<>>]

Init ==
  /\ live = {} /\ deleted = {} /\ tags = [d \in Docs |-> {}]
  /\ open = {} /\ snapshots = <<>> /\ requested = {} /\ started = <<>>
  /\ pc = "request" /\ scope = Global /\ report = NoReport
  /\ writes = 0
  /\ disturbed = FALSE /\ present = {} /\ alerted = {}
  /\ newest = [d \in Docs |-> 101]

(***************************************************************************)
(* What the queries return of what is committed now.                       *)
(***************************************************************************)
InScope(d, s) == s = Global \/ s \in tags[d]
Active(s) == {d \in live : InScope(d, s)}

\* Mutant: the alerts of deleted documents are counted.
CountedAlways(s) == {a \in open : InScope(a[1], s)}

Counted(s) == {a \in open : a[1] \in Active(s)}

\* Those of a severity.
OfSeverity(A, v) == {a \in A : SeverityOf[a[2]] = v}

\* Mutant: the snapshots are ranked by scored_at, oldest first.
LatestOfFirst(d) ==
  {i \in DOMAIN snapshots :
     /\ snapshots[i].doc = d
     /\ \A j \in DOMAIN snapshots : snapshots[j].doc = d => i <= j}

LatestOf(d) ==
  {i \in DOMAIN snapshots :
     /\ snapshots[i].doc = d
     /\ \A j \in DOMAIN snapshots : snapshots[j].doc = d => j <= i}

Ranked(s) == UNION {LatestOf(d) : d \in Active(s)}

Before(i, j) ==
  \/ snapshots[i].score < snapshots[j].score
  \/ snapshots[i].score = snapshots[j].score /\ i > j

\* The first rows of all those in the scope, in their order.
Lowest(f) ==
  /\ \A i, j \in DOMAIN f : i < j => Before(f[i], f[j])
  /\ \A i \in DOMAIN f, j \in Ranked(scope) \ Range(f) : Before(f[i], j)

\* The job that was started last, after any that was not: of those, any, as their
\* order is that of random identifiers.
LatestJobs ==
  IF requested # Range(started) THEN requested \ Range(started)
  ELSE IF started = <<>> THEN {NoJob} ELSE {started[Len(started)]}

\* The unresolved alerts of the documents in a scope that are not deleted.
OpenIn(s) == UNION {open \cap ({d} \X Alerts) : d \in Active(s)}

(***************************************************************************)
(* The request.                                                            *)
(***************************************************************************)
Answer(status) == pc' = status

Request(s) ==
  /\ pc = "request"
  /\ scope' = s
  /\ IF s = BlankName THEN Answer("invalid")
     ELSE IF s = Global THEN pc' = "job" ELSE pc' = "scope"
  /\ disturbed' = FALSE
  /\ present' = Active(s)
  /\ alerted' = OpenIn(s)
  /\ UNCHANGED <<data, report, writes, newest>>

Query(from, to) ==
  /\ pc = from /\ pc' = to
  /\ UNCHANGED <<data, scope, writes, history>>

CheckScope ==
  /\ Query("scope", IF Active(scope) = {} THEN "unknown" ELSE "job")
  /\ UNCHANGED report

ReadJob ==
  /\ Query("job", "documents")
  /\ \E j \in LatestJobs : report' = [report EXCEPT !.job = j]

CountDocuments ==
  /\ Query("documents", "alerts")
  /\ report' = [report EXCEPT !.documents = Cardinality(Active(scope))]

CountAlerts ==
  /\ Query("alerts", "scores")
  /\ report' = [report EXCEPT !.alerts =
       [v \in Severities |-> Cardinality(OfSeverity(Counted(scope), v))]]

\* The average is the total by the number of documents scored.
ReadScores ==
  /\ Query("scores", "lowest")
  /\ report' = [report EXCEPT
       !.scored = Cardinality(Ranked(scope)),
       !.total = MapThenSumSet(LAMBDA i : snapshots[i].score, Ranked(scope))]

ReadLowest ==
  /\ Query("lowest", "answered")
  /\ \E f \in [1 .. Min({Limit, Cardinality(Ranked(scope))}) -> Ranked(scope)] :
       /\ Lowest(f)
       /\ report' = [report EXCEPT !.lowest = [k \in DOMAIN f |-> snapshots[f[k]]]]

Report == \/ \E s \in Services \cup {Global, BlankName} : Request(s)
          \/ CheckScope \/ ReadJob \/ CountDocuments \/ CountAlerts
          \/ ReadScores \/ ReadLowest

(***************************************************************************)
(* The others, each by what it commits (see DocumentIngest, AlertScan and  *)
(* AuditJobs).                                                             *)
(***************************************************************************)
Write ==
  /\ writes < MaxWrites /\ writes' = writes + 1
  /\ UNCHANGED <<pc, scope, report>>
  /\ disturbed' = TRUE
  /\ present' = present \cup Active(scope)'
  /\ alerted' = alerted \cup OpenIn(scope)'

Ingest(d) ==
  /\ d \notin deleted
  /\ live' = live \cup {d}
  /\ \E T \in SUBSET Services : tags' = [tags EXCEPT ![d] = T]
  /\ UNCHANGED <<deleted, open, snapshots, requested, started, newest>>
  /\ Write

Delete(d) ==
  /\ d \in live
  /\ live' = live \ {d} /\ deleted' = deleted \cup {d}
  /\ UNCHANGED <<tags, open, snapshots, requested, started, newest>>
  /\ Write

\* A scan may still be at a document that was deleted since it was listed.
Raise(d, k) ==
  /\ d \in live \cup deleted /\ <<d, k>> \notin open
  /\ open' = open \cup {<<d, k>>}
  /\ UNCHANGED <<live, deleted, tags, snapshots, requested, started, newest>>
  /\ Write

Resolve(d, k) ==
  /\ <<d, k>> \in open
  /\ open' = open \ {<<d, k>>}
  /\ UNCHANGED <<live, deleted, tags, snapshots, requested, started, newest>>
  /\ Write

\* The document may have been deleted since the inputs were read.
TakeScore(d, x) ==
  /\ d \in live \cup deleted
  /\ snapshots' = Append(snapshots, [doc |-> d, score |-> x])
  /\ newest' = [newest EXCEPT ![d] = x]
  /\ UNCHANGED <<live, deleted, tags, open, requested, started>>
  /\ Write

RequestJob(j) ==
  /\ j \notin requested
  /\ requested' = requested \cup {j}
  /\ UNCHANGED <<live, deleted, tags, open, snapshots, started, newest>>
  /\ Write

StartJob(j) ==
  /\ j \in requested \ Range(started)
  /\ started' = Append(started, j)
  /\ UNCHANGED <<live, deleted, tags, open, snapshots, requested, newest>>
  /\ Write

Others ==
  \/ \E d \in Docs : \/ Ingest(d) \/ Delete(d)
                     \/ \E k \in Alerts : Raise(d, k) \/ Resolve(d, k)
                     \/ \E x \in Scores : TakeScore(d, x)
  \/ \E j \in Jobs : RequestJob(j) \/ StartJob(j)

Next == Report \/ Others
Spec == Init /\ [][Next]_vars

(***************************************************************************)
(* Properties                                                              *)
(***************************************************************************)
ListedDocs == {report.lowest[k].doc : k \in DOMAIN report.lowest}
Score(d) == newest[d]
Scored == {d \in Active(scope) : Score(d) # 101}

\* When nothing was written since its first query, the figures of a report agree
\* with each other and with the documents one by one: no document is scored that
\* is not counted, the average is that of the newest scores, and the documents
\* listed are those with the lowest, each once and lowest first.
ReportAgrees ==
  pc = "answered" /\ ~disturbed =>
    /\ report.scored <= report.documents
    /\ \A v \in Severities :
         report.alerts[v] = Cardinality(OfSeverity(OpenIn(scope), v))
    /\ report.scored = Cardinality(Scored)
    /\ report.total = MapThenSumSet(Score, Scored)
    /\ Len(report.lowest) = Cardinality(ListedDocs)
    /\ Len(report.lowest) = Min({Limit, report.scored})
    /\ ListedDocs \subseteq Scored
    /\ \A d \in Scored \ ListedDocs : \A e \in ListedDocs : Score(e) <= Score(d)
    /\ \A k \in DOMAIN report.lowest :
         /\ report.lowest[k].score = Score(report.lowest[k].doc)
         /\ \A j \in 1 .. k : report.lowest[j].score <= report.lowest[k].score

\* Whatever is written in between, a report speaks of no more than what was there:
\* it counts no more documents and alerts than there were since its first query,
\* lists no document that was out of its scope or deleted all the time, and a service
\* is reported on only if a document named it.
NothingInvented ==
  pc = "answered" =>
    /\ ListedDocs \subseteq present
    /\ report.documents <= Cardinality(present)
    /\ report.scored <= Cardinality(present)
    /\ \A v \in Severities :
         report.alerts[v] <= Cardinality(OfSeverity(alerted, v))
    /\ scope # Global => present # {}
=============================================================================
