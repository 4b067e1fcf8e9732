--------------------------- MODULE AuditReport_proofs ---------------------------
(***************************************************************************)
(* Proofs about AuditReport: whatever is committed between its queries, a  *)
(* report speaks of nothing that was never there.                          *)
(***************************************************************************)
EXTENDS AuditReport, FiniteSums, FiniteSetTheorems, TLAPS

Figures == {"documents", "alerts", "scores", "lowest", "answered"}

\* The tables hold documents, alerts of documents and scores of documents, and so
\* does what the history remembers of them.
Tables ==
  /\ live \subseteq Docs
  /\ open \subseteq Docs \X Alerts
  /\ snapshots \in Seq([doc : Docs, score : Nat])
  /\ present \subseteq Docs
  /\ alerted \subseteq Docs \X Alerts

Fields == {"job", "documents", "alerts", "scored", "total", "lowest"}

AlertedOf(v) == OfSeverity(alerted, v)

\* What the history remembers covers what is there now, from the first query on, and
\* what the report says so far.
Covered ==
  /\ pc # "request" => Active(scope) \subseteq present
                         /\ OpenIn(scope) \subseteq alerted
  /\ pc = "request" => report = NoReport
  /\ report.documents <= Cardinality(present)
  /\ report.scored <= Cardinality(present)
  /\ \A v \in Severities : report.alerts[v] <= Cardinality(AlertedOf(v))
  /\ DOMAIN report = Fields /\ DOMAIN report.alerts = Severities
  /\ ListedDocs \subseteq present
  /\ report.documents \in Nat /\ report.scored \in Nat
  /\ \A v \in Severities : report.alerts[v] \in Nat
  /\ scope # Global /\ pc \in Figures \cup {"job"} => present # {}

RInv == Tables /\ Covered

-----------------------------------------------------------------------------
(* Sets that are finite, and what their sizes bound.                       *)

LEMMA Sizes ==
  ASSUME NEW P, NEW A, P \subseteq Docs, A \subseteq Docs \X Alerts
  PROVE  /\ \A S : S \subseteq P => /\ IsFiniteSet(S) /\ Cardinality(S) \in Nat
                                    /\ Cardinality(S) <= Cardinality(P)
         /\ \A S, T : S \subseteq T /\ T \subseteq A
                        => Cardinality(S) \in Nat /\ Cardinality(S) <= Cardinality(T)
         /\ Cardinality(P) \in Nat
  <1>1. IsFiniteSet(Docs) /\ IsFiniteSet(Alerts)
    BY ReportAssumption DEF ReportAssumption
  <1>2. IsFiniteSet(Docs \X Alerts)
    BY <1>1, FS_Product
  <1>3. IsFiniteSet(P)
    BY <1>1, FS_Subset
  <1>4. \A S : S \subseteq P => /\ IsFiniteSet(S) /\ Cardinality(S) \in Nat
                                /\ Cardinality(S) <= Cardinality(P)
    BY <1>3, FS_Subset, FS_CardinalityType
  <1>5. ASSUME NEW S, NEW T, S \subseteq T, T \subseteq A
        PROVE  Cardinality(S) \in Nat /\ Cardinality(S) <= Cardinality(T)
    <2>1. IsFiniteSet(T)
      BY <1>2, <1>5, FS_Subset
    <2> QED BY <1>5, <2>1, FS_Subset, FS_CardinalityType
  <1>6. Cardinality(P) \in Nat
    BY <1>3, FS_CardinalityType
  <1> QED BY <1>4, <1>5, <1>6

\* No more snapshots are ranked than there are documents in the scope.
LEMMA RankedOnce ==
  ASSUME Tables, NEW s
  PROVE  /\ Cardinality(Ranked(s)) \in Nat
         /\ Cardinality(Ranked(s)) <= Cardinality(Active(s))
         /\ \A i \in Ranked(s) : snapshots[i].doc \in Active(s)
  <1> DEFINE f == [i \in Ranked(s) |-> snapshots[i].doc]
  <1>1. \A i \in Ranked(s) : \E d \in Active(s) : i \in LatestOf(d)
    BY Zenon DEF Ranked
  <1>2. \A i \in Ranked(s) : snapshots[i].doc \in Active(s) /\ i \in LatestOf(snapshots[i].doc)
    BY <1>1, Zenon DEF LatestOf
  <1>3. \A d, i, j : i \in LatestOf(d) /\ j \in LatestOf(d) => i = j
    <2> SUFFICES ASSUME NEW d, NEW i \in LatestOf(d), NEW j \in LatestOf(d)
                 PROVE  i = j
      OBVIOUS
    <2>1. i \in DOMAIN snapshots /\ j \in DOMAIN snapshots /\ i <= j /\ j <= i
      BY Zenon DEF LatestOf
    <2>2. i \in Int /\ j \in Int
      BY <2>1 DEF Tables
    <2> QED BY <2>1, <2>2
  <1>4. f \in Injection(Ranked(s), Active(s))
    <2>1. f \in [Ranked(s) -> Active(s)]
      BY <1>2
    <2>2. ASSUME NEW i \in Ranked(s), NEW j \in Ranked(s), f[i] = f[j] PROVE i = j
      <3>1. snapshots[i].doc = snapshots[j].doc
        BY <2>2
      <3> QED BY <1>2, <1>3, <3>1, Zenon
    <2> QED BY <2>1, <2>2, Zenon DEF Injection, IsInjective
  <1>5. Active(s) \subseteq Docs
    BY DEF Active, Tables
  <1>6. IsFiniteSet(Active(s))
    BY <1>5, FS_Subset, ReportAssumption DEF ReportAssumption
  <1>7. /\ IsFiniteSet(Ranked(s))
        /\ Cardinality(Ranked(s)) <= Cardinality(Active(s))
    BY <1>4, <1>6, FS_Injection
  <1> QED BY <1>2, <1>7, FS_CardinalityType

-----------------------------------------------------------------------------
(* What the others write.                                                  *)

LEMMA WriteKeeps ==
  ASSUME RInv, Write, live' \subseteq Docs, open' \subseteq Docs \X Alerts,
         snapshots' \in Seq([doc : Docs, score : Nat])
  PROVE  RInv'
  <1>1. /\ UNCHANGED <<pc, scope, report>>
        /\ present' = present \cup Active(scope)'
        /\ alerted' = alerted \cup OpenIn(scope)'
    BY DEF Write
  <1>2. Active(scope)' \subseteq Docs /\ OpenIn(scope)' \subseteq Docs \X Alerts
    <2>1. Active(scope)' \subseteq live'
      BY Zenon DEF Active
    <2>2. OpenIn(scope)' \subseteq open'
      BY Zenon DEF OpenIn
    <2> QED BY <2>1, <2>2
  <1>3. Tables'
    BY <1>1, <1>2 DEF RInv, Tables
  <1>4. present' \subseteq Docs /\ alerted' \subseteq Docs \X Alerts
    BY <1>3 DEF Tables
  <1>5. Cardinality(present) <= Cardinality(present') /\ Cardinality(present) \in Nat
        /\ Cardinality(present') \in Nat
    BY <1>1, <1>4, Sizes
  <1>6. ASSUME NEW v \in Severities
        PROVE  /\ Cardinality(AlertedOf(v)) <= Cardinality(AlertedOf(v)')
               /\ Cardinality(AlertedOf(v)) \in Nat /\ Cardinality(AlertedOf(v)') \in Nat
    <2>1. AlertedOf(v) \subseteq AlertedOf(v)' /\ AlertedOf(v)' \subseteq alerted'
      BY <1>1 DEF AlertedOf, OfSeverity
    <2>2. present' \subseteq Docs /\ alerted' \subseteq Docs \X Alerts
      BY <1>4
    <2> QED BY <2>1, <2>2, Sizes
  <1>7. Covered'
    <2>1. pc' # "request" => Active(scope)' \subseteq present'
                               /\ OpenIn(scope)' \subseteq alerted'
      BY <1>1
    <2>2. pc' = "request" => report' = NoReport
      BY <1>1 DEF RInv, Covered
    <2>3. /\ report'.documents <= Cardinality(present')
          /\ report'.scored <= Cardinality(present')
          /\ report'.documents \in Nat /\ report'.scored \in Nat
      BY <1>1, <1>5 DEF RInv, Covered
    <2>4. /\ \A v \in Severities : /\ report'.alerts[v] <= Cardinality(AlertedOf(v)')
                                   /\ report'.alerts[v] \in Nat
          /\ DOMAIN report' = Fields /\ DOMAIN report'.alerts = Severities
      BY <1>1, <1>6 DEF RInv, Covered
    <2>5. ListedDocs' \subseteq present'
      BY <1>1 DEF RInv, Covered, ListedDocs
    <2>6. scope' # Global /\ pc' \in Figures \cup {"job"} => present' # {}
      BY <1>1 DEF RInv, Covered
    <2> QED BY <2>1, <2>2, <2>3, <2>4, <2>5, <2>6, Zenon DEF Covered
  <1> QED BY <1>3, <1>7 DEF RInv

LEMMA OthersKeep == ASSUME RInv, Others PROVE RInv'
  <1> USE DEF RInv, Tables
  <1>1. ASSUME NEW d \in Docs, Ingest(d) PROVE RInv'
    <2>1. Write /\ live' \subseteq Docs /\ UNCHANGED <<open, snapshots>>
      BY <1>1 DEF Ingest
    <2> QED BY <2>1, WriteKeeps
  <1>2. ASSUME NEW d \in Docs, Delete(d) PROVE RInv'
    <2>1. Write /\ live' \subseteq Docs /\ UNCHANGED <<open, snapshots>>
      BY <1>2 DEF Delete
    <2> QED BY <2>1, WriteKeeps
  <1>3. ASSUME NEW d \in Docs, NEW k \in Alerts, Raise(d, k) PROVE RInv'
    <2>1. Write /\ open' \subseteq Docs \X Alerts /\ UNCHANGED <<live, snapshots>>
      BY <1>3 DEF Raise
    <2> QED BY <2>1, WriteKeeps
  <1>4. ASSUME NEW d \in Docs, NEW k \in Alerts, Resolve(d, k) PROVE RInv'
    <2>1. Write /\ open' \subseteq Docs \X Alerts /\ UNCHANGED <<live, snapshots>>
      BY <1>4 DEF Resolve
    <2> QED BY <2>1, WriteKeeps
  <1>5. ASSUME NEW d \in Docs, NEW x \in Scores, TakeScore(d, x) PROVE RInv'
    <2>1. x \in Nat
      BY ReportAssumption DEF ReportAssumption
    <2>2. [doc |-> d, score |-> x] \in [doc : Docs, score : Nat]
      BY <2>1
    <2>3. /\ Write /\ UNCHANGED <<live, open>>
          /\ snapshots' = Append(snapshots, [doc |-> d, score |-> x])
      BY <1>5 DEF TakeScore
    <2>4. snapshots' \in Seq([doc : Docs, score : Nat])
      BY <2>2, <2>3
    <2> QED BY <2>3, <2>4, WriteKeeps
  <1>6. ASSUME NEW j \in Jobs, RequestJob(j) \/ StartJob(j) PROVE RInv'
    <2>1. Write /\ UNCHANGED <<live, open, snapshots>>
      BY <1>6 DEF RequestJob, StartJob
    <2> QED BY <2>1, WriteKeeps
  <1> QED BY <1>1, <1>2, <1>3, <1>4, <1>5, <1>6 DEF Others

-----------------------------------------------------------------------------
(* What the report reads.                                                  *)

\* A query leaves the tables and what is remembered of them.
LEMMA QueryKeepsTables ==
  ASSUME RInv, NEW from, NEW to, Query(from, to)
  PROVE  /\ Tables' /\ UNCHANGED <<present, alerted, scope>>
         /\ Active(scope)' = Active(scope) /\ OpenIn(scope)' = OpenIn(scope)
         /\ \A v : AlertedOf(v)' = AlertedOf(v)
         /\ pc = from /\ pc' = to
  <1>1. UNCHANGED <<data, scope, history>> /\ pc = from /\ pc' = to
    BY DEF Query
  <1> QED BY <1>1, Zenon DEF RInv, Tables, data, history, Active, InScope, OpenIn, AlertedOf

LEMMA RequestKeeps == ASSUME RInv, NEW s, Request(s) PROVE RInv'
  <1>1. /\ scope' = s /\ UNCHANGED <<data, report>> /\ pc = "request"
        /\ present' = Active(s) /\ alerted' = OpenIn(s)
        /\ pc' \in {"invalid", "job", "scope"} /\ (pc' = "job" => s = Global)
    BY DEF Request, Answer
  <1>2. Active(scope)' = Active(s) /\ OpenIn(scope)' = OpenIn(s)
    BY <1>1, Zenon DEF data, Active, InScope, OpenIn
  <1>3. present' \subseteq Docs /\ alerted' \subseteq Docs \X Alerts
    <2>1. Active(s) \subseteq live /\ OpenIn(s) \subseteq open
      BY Zenon DEF Active, OpenIn
    <2> QED BY <1>1, <2>1 DEF RInv, Tables
  <1>4. Tables'
    BY <1>1, <1>3 DEF RInv, Tables, data
  <1>5. /\ report' = NoReport
        /\ Cardinality(present') \in Nat
    BY <1>1, <1>3, Sizes DEF RInv, Covered
  <1>6. ASSUME NEW v \in Severities PROVE Cardinality(AlertedOf(v)') \in Nat
    <2>1. AlertedOf(v)' \subseteq alerted'
      BY DEF AlertedOf, OfSeverity
    <2> QED BY <1>3, <2>1, Sizes
  <1>7. /\ report'.documents = 0 /\ report'.scored = 0
        /\ report'.alerts = [v \in Severities |-> 0] /\ report'.lowest = <<>>
        /\ DOMAIN report' = Fields
    BY <1>5 DEF NoReport, Fields
  <1>8. ListedDocs' \subseteq present'
    BY <1>7 DEF ListedDocs
  <1>9. Covered'
    BY <1>1, <1>2, <1>5, <1>6, <1>7, <1>8 DEF Covered, Figures
  <1> QED BY <1>4, <1>9 DEF RInv

\* A query that leaves the figures as they are but for one.
LEMMA QueryKeeps ==
  ASSUME RInv, NEW from, NEW to, Query(from, to), from # "request", to # "request",
         report'.documents \in Nat, report'.documents <= Cardinality(present),
         report'.scored \in Nat, report'.scored <= Cardinality(present),
         DOMAIN report' = Fields, DOMAIN report'.alerts = Severities,
         \A v \in Severities : /\ report'.alerts[v] \in Nat
                               /\ report'.alerts[v] <= Cardinality(AlertedOf(v)),
         ListedDocs' \subseteq present,
         scope # Global /\ to \in Figures \cup {"job"} => present # {}
  PROVE  RInv'
  <1>1. /\ Tables' /\ UNCHANGED <<present, alerted, scope>>
        /\ Active(scope)' = Active(scope) /\ OpenIn(scope)' = OpenIn(scope)
        /\ \A v : AlertedOf(v)' = AlertedOf(v)
        /\ pc = from /\ pc' = to
    BY QueryKeepsTables, Zenon
  <1>2. Active(scope) \subseteq present /\ OpenIn(scope) \subseteq alerted
    BY <1>1 DEF RInv, Covered
  <1>3. Covered'
    BY <1>1, <1>2, Zenon DEF Covered
  <1> QED BY <1>1, <1>3 DEF RInv

\* What a query finds at its turn is no more than what the history remembers.
LEMMA FoundCovered ==
  ASSUME RInv, pc # "request"
  PROVE  /\ Cardinality(Active(scope)) \in Nat
         /\ Cardinality(Active(scope)) <= Cardinality(present)
         /\ Cardinality(Ranked(scope)) \in Nat
         /\ Cardinality(Ranked(scope)) <= Cardinality(present)
         /\ \A i \in Ranked(scope) : snapshots[i].doc \in present
         /\ \A v : LET found == Cardinality(OfSeverity(Counted(scope), v))
                   IN found \in Nat /\ found <= Cardinality(AlertedOf(v))
  <1>1. /\ Active(scope) \subseteq present /\ present \subseteq Docs
        /\ OpenIn(scope) \subseteq alerted /\ alerted \subseteq Docs \X Alerts
    BY DEF RInv, Covered, Tables
  <1>2. /\ Cardinality(Active(scope)) \in Nat /\ Cardinality(present) \in Nat
        /\ Cardinality(Active(scope)) <= Cardinality(present)
    BY <1>1, Sizes
  <1>3. /\ Cardinality(Ranked(scope)) \in Nat
        /\ Cardinality(Ranked(scope)) <= Cardinality(Active(scope))
        /\ \A i \in Ranked(scope) : snapshots[i].doc \in Active(scope)
    BY RankedOnce DEF RInv
  <1>4. Counted(scope) \subseteq OpenIn(scope)
    <2> SUFFICES ASSUME NEW a \in Counted(scope) PROVE a \in OpenIn(scope)
      OBVIOUS
    <2>1. a \in open /\ a[1] \in Active(scope) /\ a \in Docs \X Alerts
      BY DEF Counted, RInv, Tables
    <2>2. PICK d : d = a[1]
      OBVIOUS
    <2>3. a \in open \cap ({d} \X Alerts)
      BY <2>1, <2>2
    <2>4. d \in Active(scope)
      BY <2>1, <2>2
    <2> QED BY ONLY <2>3, <2>4, Zenon DEF OpenIn
  <1>5. ASSUME NEW v
        PROVE  LET found == Cardinality(OfSeverity(Counted(scope), v))
               IN found \in Nat /\ found <= Cardinality(AlertedOf(v))
    <2>1. /\ OfSeverity(Counted(scope), v) \subseteq AlertedOf(v)
          /\ AlertedOf(v) \subseteq alerted
      BY <1>1, <1>4 DEF AlertedOf, OfSeverity
    <2>2. alerted \subseteq Docs \X Alerts /\ present \subseteq Docs
      BY <1>1
    <2>3. /\ Cardinality(OfSeverity(Counted(scope), v)) \in Nat
          /\ Cardinality(OfSeverity(Counted(scope), v))
               <= Cardinality(AlertedOf(v))
      BY ONLY <2>1, <2>2, Sizes, Zenon
    <2> QED BY <2>3
  <1>6. Cardinality(Ranked(scope)) <= Cardinality(present)
    BY <1>2, <1>3
  <1> QED BY <1>1, <1>2, <1>3, <1>5, <1>6

LEMMA ReportKeeps == ASSUME RInv, Report PROVE RInv'
  <1>1. /\ report.documents \in Nat /\ report.scored \in Nat
        /\ report.documents <= Cardinality(present)
        /\ report.scored <= Cardinality(present)
        /\ DOMAIN report = Fields /\ DOMAIN report.alerts = Severities
        /\ \A v \in Severities : /\ report.alerts[v] \in Nat
                                 /\ report.alerts[v] <= Cardinality(AlertedOf(v))
        /\ ListedDocs \subseteq present
        /\ (pc \in Figures \cup {"job"} => (scope # Global => present # {}))
    BY DEF RInv, Covered
  <1>2. pc # "request" => Active(scope) \subseteq present
    BY DEF RInv, Covered
  <1>3. ASSUME CheckScope PROVE RInv'
    <2>1. /\ Query("scope", IF Active(scope) = {} THEN "unknown" ELSE "job")
          /\ report' = report
      BY <1>3 DEF CheckScope
    <2>2. pc = "scope" /\ ListedDocs' = ListedDocs
      BY <2>1, Zenon DEF Query, ListedDocs
    <2>3. CASE Active(scope) = {}
      <3>1. Query("scope", "unknown")
        BY <2>1, <2>3
      <3> QED BY <1>1, <2>1, <2>2, <3>1, QueryKeeps DEF Figures
    <2>4. CASE Active(scope) # {}
      <3>1. Query("scope", "job") /\ present # {}
        BY <1>2, <2>1, <2>2, <2>4
      <3> QED BY <1>1, <2>1, <2>2, <3>1, QueryKeeps
    <2> QED BY <2>3, <2>4
  <1>4. ASSUME ReadJob PROVE RInv'
    <2>1. Query("job", "documents")
      BY <1>4 DEF ReadJob
    <2>2. PICK j : report' = [report EXCEPT !.job = j]
      BY <1>4 DEF ReadJob
    <2>3. /\ report'.documents = report.documents /\ report'.scored = report.scored
          /\ report'.alerts = report.alerts /\ report'.lowest = report.lowest
          /\ DOMAIN report' = Fields
      BY <1>1, <2>2 DEF Fields
    <2>4. ListedDocs' = ListedDocs /\ pc = "job"
      BY <2>1, <2>3, Zenon DEF Query, ListedDocs
    <2> QED BY <1>1, <2>1, <2>3, <2>4, QueryKeeps
  <1>5. ASSUME CountDocuments PROVE RInv'
    <2>1. Query("documents", "alerts") /\ pc = "documents"
      BY <1>5 DEF CountDocuments, Query
    <2>2. /\ report'.documents = Cardinality(Active(scope))
          /\ report'.scored = report.scored
          /\ report'.alerts = report.alerts /\ report'.lowest = report.lowest
          /\ DOMAIN report' = Fields
      BY <1>1, <1>5 DEF CountDocuments, Fields
    <2>3. ListedDocs' = ListedDocs
      BY <2>2, Zenon DEF ListedDocs
    <2>4. /\ report'.documents \in Nat
          /\ report'.documents <= Cardinality(present)
      BY <2>1, <2>2, FoundCovered
    <2> QED BY <1>1, <2>1, <2>2, <2>3, <2>4, QueryKeeps DEF Figures
  <1>6. ASSUME CountAlerts PROVE RInv'
    <2>1. Query("alerts", "scores") /\ pc = "alerts"
      BY <1>6 DEF CountAlerts, Query
    <2>2. /\ report'.documents = report.documents /\ report'.scored = report.scored
          /\ report'.alerts = [v \in Severities |->
                                 Cardinality(OfSeverity(Counted(scope), v))]
          /\ report'.lowest = report.lowest
          /\ DOMAIN report' = Fields
      BY <1>1, <1>6 DEF CountAlerts, Fields
    <2>3. ListedDocs' = ListedDocs
      BY <2>2, Zenon DEF ListedDocs
    <2>4. ASSUME NEW v \in Severities
          PROVE  /\ report'.alerts[v] \in Nat
                 /\ report'.alerts[v] <= Cardinality(AlertedOf(v))
      BY <2>1, <2>2, FoundCovered
    <2>5. DOMAIN report'.alerts = Severities
      BY <2>2
    <2> QED BY <1>1, <2>1, <2>2, <2>3, <2>4, <2>5, QueryKeeps DEF Figures
  <1>7. ASSUME ReadScores PROVE RInv'
    <2>1. Query("scores", "lowest") /\ pc = "scores"
      BY <1>7 DEF ReadScores, Query
    <2>2. \E t : report' = [report EXCEPT !.scored = Cardinality(Ranked(scope)),
                                          !.total = t]
      BY <1>7, Zenon DEF ReadScores
    <2>3. /\ report'.documents = report.documents
          /\ report'.scored = Cardinality(Ranked(scope))
          /\ report'.alerts = report.alerts /\ report'.lowest = report.lowest
          /\ DOMAIN report' = Fields
      BY <1>1, <2>2 DEF Fields
    <2>4. ListedDocs' = ListedDocs
      BY <2>3, Zenon DEF ListedDocs
    <2>5. report'.scored \in Nat /\ report'.scored <= Cardinality(present)
      BY <2>1, <2>3, FoundCovered
    <2> QED BY <1>1, <2>1, <2>3, <2>4, <2>5, QueryKeeps DEF Figures
  <1>8. ASSUME ReadLowest PROVE RInv'
    <2>1. Query("lowest", "answered") /\ pc = "lowest"
      BY <1>8 DEF ReadLowest, Query
    <2>2. PICK f \in [1 .. Min({Limit, Cardinality(Ranked(scope))}) -> Ranked(scope)] :
             report' = [report EXCEPT !.lowest = [k \in DOMAIN f |-> snapshots[f[k]]]]
      BY <1>8, Zenon DEF ReadLowest
    <2>3. /\ report'.documents = report.documents /\ report'.scored = report.scored
          /\ report'.alerts = report.alerts
          /\ report'.lowest = [k \in DOMAIN f |-> snapshots[f[k]]]
          /\ DOMAIN report' = Fields
      BY <1>1, <2>2 DEF Fields
    <2>4. ASSUME NEW d \in ListedDocs' PROVE d \in present
      <3>1. PICK k \in DOMAIN f : d = snapshots[f[k]].doc
        BY <2>3, <2>4, Zenon DEF ListedDocs
      <3>2. f[k] \in Ranked(scope)
        BY <2>2, <3>1
      <3> QED BY <2>1, <3>1, <3>2, FoundCovered
    <2> QED BY <1>1, <2>1, <2>3, <2>4, QueryKeeps DEF Figures
  <1> QED BY <1>3, <1>4, <1>5, <1>6, <1>7, <1>8, RequestKeeps DEF Report

LEMMA InitCovered == Init => RInv
  <1> SUFFICES ASSUME Init PROVE RInv
    OBVIOUS
  <1>1. Tables
    BY DEF Init, Tables
  <1>2. /\ report.documents = 0 /\ report.scored = 0 /\ report.lowest = <<>>
        /\ report.alerts = [v \in Severities |-> 0] /\ DOMAIN report = Fields
        /\ report = NoReport /\ pc = "request"
    BY DEF Init, NoReport, Fields
  <1>3. Cardinality(present) \in Nat
    BY <1>1, Sizes DEF Tables
  <1>4. ASSUME NEW v \in Severities PROVE Cardinality(AlertedOf(v)) \in Nat
    <2>1. AlertedOf(v) \subseteq alerted
      BY DEF AlertedOf, OfSeverity
    <2> QED BY <1>1, <2>1, Sizes DEF Tables
  <1>5. ListedDocs \subseteq present
    BY <1>2 DEF ListedDocs
  <1> QED BY <1>1, <1>2, <1>3, <1>4, <1>5 DEF RInv, Covered, Figures

LEMMA NextKeeps == RInv /\ [Next]_vars => RInv'
  <1> SUFFICES ASSUME RInv, [Next]_vars PROVE RInv'
    OBVIOUS
  <1>1. CASE Report
    BY <1>1, ReportKeeps
  <1>2. CASE Others
    BY <1>2, OthersKeep
  <1>3. CASE UNCHANGED vars
    <2>1. /\ UNCHANGED <<live, open, snapshots, present, alerted, pc, report>>
          /\ UNCHANGED <<tags, scope>>
      BY <1>3, Zenon DEF vars, data, history
    <2>2. /\ Active(scope)' = Active(scope) /\ OpenIn(scope)' = OpenIn(scope)
          /\ ListedDocs' = ListedDocs /\ \A v : AlertedOf(v)' = AlertedOf(v)
      BY <2>1, Zenon DEF Active, InScope, OpenIn, ListedDocs, AlertedOf
    <2>3. Tables'
      BY <2>1 DEF RInv, Tables
    <2>4. Covered'
      BY <2>1, <2>2, Zenon DEF RInv, Covered
    <2> QED BY <2>3, <2>4 DEF RInv
  <1> QED BY <1>1, <1>2, <1>3 DEF Next

-----------------------------------------------------------------------------
(* The theorems.                                                           *)

\* The inductive invariant: from its first query on, what is remembered covers what
\* is there, and each figure the report has is within it.
THEOREM Invariance == Spec => []RInv
  BY InitCovered, NextKeeps, PTL DEF Spec

\* For any number of documents, alerts and writes between the queries, a report
\* counts no more than what was there and lists nothing that was not.
THEOREM NothingIsInvented == Spec => []NothingInvented
  <1>1. RInv => NothingInvented
    BY DEF RInv, Covered, NothingInvented, AlertedOf, Figures
  <1> QED BY <1>1, Invariance, PTL

-----------------------------------------------------------------------------
(* A report between whose queries nothing is written.                      *)

\* The newest score of a document is that of its last snapshot, 101 without one.
Newest ==
  /\ newest \in [Docs -> Nat]
  /\ \A i \in DOMAIN snapshots : snapshots[i].score <= 100
  /\ \A d \in Docs : \/ /\ newest[d] = 101
                        /\ \A i \in DOMAIN snapshots : snapshots[i].doc # d
                     \/ \E i \in LatestOf(d) : newest[d] = snapshots[i].score

ScoresOf(R) == [i \in R |-> snapshots[i].score]
NewestOf(D) == [d \in D |-> newest[d]]
IsTotal(t) == \E g : /\ Sums(g, ScoresOf(Ranked(scope)), Ranked(scope))
                     /\ t = g[Ranked(scope)]
IsLowest(r) ==
  \E f \in [1 .. Min({Limit, Cardinality(Ranked(scope))}) -> Ranked(scope)] :
    Lowest(f) /\ r = [k \in DOMAIN f |-> snapshots[f[k]]]

\* What an undisturbed report has read is still so.
Agreed ==
  ~disturbed =>
    /\ pc \in {"alerts", "scores", "lowest", "answered"} =>
         report.documents = Cardinality(Active(scope))
    /\ pc \in {"scores", "lowest", "answered"} =>
         \A v \in Severities :
           report.alerts[v] = Cardinality(OfSeverity(Counted(scope), v))
    /\ pc \in {"lowest", "answered"} => /\ report.scored = Cardinality(Ranked(scope))
                                        /\ IsTotal(report.total)
    /\ pc = "answered" => IsLowest(report.lowest)

LEMMA ItemType ==
  ASSUME NEW T, NEW q \in Seq(T), NEW i \in DOMAIN q
  PROVE  i \in Nat /\ i \in 1 .. Len(q) /\ q[i] \in T
  OBVIOUS

LEMMA SnapshotType ==
  ASSUME Tables, NEW i \in DOMAIN snapshots
  PROVE  i \in Nat /\ snapshots[i].doc \in Docs /\ snapshots[i].score \in Nat
  <1> DEFINE Snapshot == [doc : Docs, score : Nat]
  <1>1. snapshots \in Seq(Snapshot)
    BY DEF Tables
  <1>2. \A x \in Snapshot : x.doc \in Docs /\ x.score \in Nat
    OBVIOUS
  <1> HIDE DEF Snapshot
  <1>3. i \in Nat /\ snapshots[i] \in Snapshot
    BY <1>1, ItemType
  <1> QED BY <1>2, <1>3

\* The snapshots that are ranked and the documents that are scored correspond.
LEMMA RankedIsScored ==
  ASSUME Tables, Newest
  PROVE  /\ \A i \in Ranked(scope) :
              /\ i \in Nat /\ i \in DOMAIN snapshots /\ snapshots[i].score \in Nat
              /\ snapshots[i].doc \in Scored
              /\ snapshots[i].score = newest[snapshots[i].doc]
         /\ \A i, j \in Ranked(scope) : snapshots[i].doc = snapshots[j].doc => i = j
         /\ \A d \in Scored : \E i \in Ranked(scope) : snapshots[i].doc = d
  <1>1. \A d : \A i \in LatestOf(d) :
          /\ i \in DOMAIN snapshots /\ snapshots[i].doc = d
          /\ \A j \in LatestOf(d) : i = j
    <2> SUFFICES ASSUME NEW d, NEW i \in LatestOf(d)
                 PROVE  /\ i \in DOMAIN snapshots /\ snapshots[i].doc = d
                        /\ \A j \in LatestOf(d) : i = j
      OBVIOUS
    <2>1. i \in DOMAIN snapshots /\ snapshots[i].doc = d
      BY Zenon DEF LatestOf
    <2>2. ASSUME NEW j \in LatestOf(d) PROVE i = j
      <3>1. j \in DOMAIN snapshots /\ i <= j /\ j <= i
        BY Zenon DEF LatestOf
      <3>2. i \in Int /\ j \in Int
        BY <2>1, <3>1 DEF Tables
      <3> QED BY <3>1, <3>2
    <2> QED BY <2>1, <2>2
  <1>2. \A i \in Ranked(scope) : \E d \in Active(scope) : i \in LatestOf(d)
    BY Zenon DEF Ranked
  <1>3. \A d \in Active(scope) : d \in Docs
    BY DEF Active, Tables
  <1>4. ASSUME NEW i \in Ranked(scope)
        PROVE  /\ i \in Nat /\ i \in DOMAIN snapshots /\ snapshots[i].score \in Nat
               /\ snapshots[i].doc \in Scored
               /\ snapshots[i].score = newest[snapshots[i].doc]
    <2>1. PICK d \in Active(scope) : i \in LatestOf(d)
      BY <1>2
    <2>2. i \in DOMAIN snapshots /\ snapshots[i].doc = d /\ d \in Docs
      BY <1>1, <1>3, <2>1
    <2>3. i \in Nat /\ snapshots[i].score \in Nat /\ snapshots[i].score <= 100
      BY <2>2, SnapshotType DEF Newest
    <2>4. PICK j \in LatestOf(d) : newest[d] = snapshots[j].score
      BY <2>2 DEF Newest
    <2>5. i = j
      BY <1>1, <2>1, <2>4
    <2>6. newest[d] = snapshots[i].score /\ newest[d] # 101
      BY <2>3, <2>4, <2>5
    <2> QED BY <2>1, <2>2, <2>3, <2>6 DEF Scored, Score
  <1>5. ASSUME NEW i \in Ranked(scope), NEW j \in Ranked(scope),
               snapshots[i].doc = snapshots[j].doc
        PROVE  i = j
    <2>1. PICK d \in Active(scope) : i \in LatestOf(d)
      BY <1>2
    <2>2. PICK e \in Active(scope) : j \in LatestOf(e)
      BY <1>2
    <2>3. d = e
      BY <1>1, <1>5, <2>1, <2>2
    <2> QED BY <1>1, <2>1, <2>2, <2>3
  <1>6. ASSUME NEW d \in Scored
        PROVE  \E i \in Ranked(scope) : snapshots[i].doc = d
    <2>1. d \in Active(scope) /\ d \in Docs /\ newest[d] # 101
      BY <1>3 DEF Scored, Score
    <2>2. PICK i \in LatestOf(d) : newest[d] = snapshots[i].score
      BY <2>1 DEF Newest
    <2>3. i \in Ranked(scope)
      BY <2>1, <2>2, Zenon DEF Ranked
    <2> QED BY <1>1, <2>2, <2>3
  <1> QED BY <1>4, <1>5, <1>6

\* The total the query returns, and that of the property.
LEMMA TotalRead ==
  ASSUME IsFiniteSet(Ranked(scope))
  PROVE  IsTotal(MapThenSumSet(LAMBDA i : snapshots[i].score, Ranked(scope)))
  <1> DEFINE R == Ranked(scope)
             sum == CHOOSE g : g =
                      [s \in SUBSET R |->
                         IF s = {} THEN 0
                         ELSE LET c == CHOOSE x \in s : TRUE
                              IN  snapshots[c].score + g[s \ {c}]]
  <1>1. PICK h : Sums(h, ScoresOf(R), R)
    BY SumsExist
  <1>2. ASSUME NEW g, NEW s \in SUBSET R
        PROVE  (IF s = {} THEN 0 ELSE ScoresOf(R)[Some(s)] + g[s \ {Some(s)}])
                = (IF s = {} THEN 0 ELSE snapshots[Some(s)].score + g[s \ {Some(s)}])
    BY SomeIn DEF ScoresOf
  <1>3. ASSUME NEW g
        PROVE  Sums(g, ScoresOf(R), R) <=>
                 g = [s \in SUBSET R |->
                        IF s = {} THEN 0
                        ELSE snapshots[Some(s)].score + g[s \ {Some(s)}]]
    BY <1>2, Zenon DEF Sums
  <1>4. h = [s \in SUBSET R |->
               IF s = {} THEN 0 ELSE snapshots[Some(s)].score + h[s \ {Some(s)}]]
    BY <1>1, <1>3
  <1>5. sum = [s \in SUBSET R |->
                 IF s = {} THEN 0
                 ELSE snapshots[Some(s)].score + sum[s \ {Some(s)}]]
    BY <1>4, Zenon DEF Some
  <1>6. Sums(sum, ScoresOf(R), R)
    BY <1>3, <1>5
  <1>7. MapThenSumSet(LAMBDA i : snapshots[i].score, R) = sum[R]
    BY Zenon DEF MapThenSumSet, MapThenFoldSet
  <1> HIDE DEF sum
  <1> QED BY <1>6, <1>7 DEF IsTotal

LEMMA TotalScored ==
  ASSUME IsFiniteSet(Scored)
  PROVE  \E h : /\ Sums(h, NewestOf(Scored), Scored)
                /\ MapThenSumSet(Score, Scored) = h[Scored]
  <1> DEFINE sum == CHOOSE g : g =
                      [s \in SUBSET Scored |->
                         IF s = {} THEN 0
                         ELSE LET c == CHOOSE x \in s : TRUE
                              IN  newest[c] + g[s \ {c}]]
  <1>1. PICK h : Sums(h, NewestOf(Scored), Scored)
    BY SumsExist
  <1>2. ASSUME NEW g, NEW s \in SUBSET Scored
        PROVE  (IF s = {} THEN 0 ELSE NewestOf(Scored)[Some(s)] + g[s \ {Some(s)}])
                = (IF s = {} THEN 0 ELSE newest[Some(s)] + g[s \ {Some(s)}])
    BY SomeIn DEF NewestOf
  <1>3. ASSUME NEW g
        PROVE  Sums(g, NewestOf(Scored), Scored) <=>
                 g = [s \in SUBSET Scored |->
                        IF s = {} THEN 0
                        ELSE newest[Some(s)] + g[s \ {Some(s)}]]
    BY <1>2, Zenon DEF Sums
  <1>4. h = [s \in SUBSET Scored |->
               IF s = {} THEN 0 ELSE newest[Some(s)] + h[s \ {Some(s)}]]
    BY <1>1, <1>3
  <1>5. sum = [s \in SUBSET Scored |->
                 IF s = {} THEN 0 ELSE newest[Some(s)] + sum[s \ {Some(s)}]]
    BY <1>4, Zenon DEF Some
  <1>6. Sums(sum, NewestOf(Scored), Scored)
    BY <1>3, <1>5
  <1>7. MapThenSumSet(Score, Scored) = sum[Scored]
    BY Zenon DEF MapThenSumSet, MapThenFoldSet, Score
  <1> HIDE DEF sum
  <1> QED BY <1>6, <1>7

\* A snapshot that is taken is the newest of its document.
LEMMA TakeScoreNewest ==
  ASSUME Tables, Newest, NEW d \in Docs, NEW x \in Scores, TakeScore(d, x)
  PROVE  Newest'
  <1> DEFINE n == Len(snapshots)
  <1>1. /\ snapshots' = Append(snapshots, [doc |-> d, score |-> x])
        /\ newest' = [newest EXCEPT ![d] = x]
    BY DEF TakeScore
  <1>2. x \in Nat /\ x <= 100 /\ x # 101
    BY ReportAssumption DEF ReportAssumption
  <1>3. snapshots \in Seq([doc : Docs, score : Nat])
    BY DEF Tables
  <1>4. /\ n \in Nat /\ DOMAIN snapshots = 1 .. n /\ DOMAIN snapshots' = 1 .. (n + 1)
        /\ \A i \in 1 .. n : snapshots'[i] = snapshots[i]
        /\ snapshots'[n + 1] = [doc |-> d, score |-> x]
    BY <1>1, <1>3
  <1> HIDE DEF n
  <1>5. newest' \in [Docs -> Nat]
    BY <1>1, <1>2 DEF Newest
  <1>6. \A i \in DOMAIN snapshots' : snapshots'[i].score <= 100
    BY <1>2, <1>4 DEF Newest
  <1>7. ASSUME NEW e \in Docs
        PROVE  \/ /\ newest'[e] = 101
                  /\ \A i \in DOMAIN snapshots' : snapshots'[i].doc # e
               \/ \E i \in LatestOf(e)' : newest'[e] = snapshots'[i].score
    <2>1. CASE e = d
      <3>1. newest'[e] = x /\ snapshots'[n + 1].doc = e /\ snapshots'[n + 1].score = x
        BY <1>1, <1>4, <2>1 DEF Newest
      <3>2. \A j \in DOMAIN snapshots' : j <= n + 1
        BY <1>4
      <3>3. n + 1 \in DOMAIN snapshots'
        BY <1>4
      <3>4. n + 1 \in LatestOf(e)'
        BY <3>1, <3>2, <3>3, Zenon DEF LatestOf
      <3> QED BY <3>1, <3>4
    <2>2. CASE e # d
      <3>1. newest'[e] = newest[e]
        BY <1>1, <2>2 DEF Newest
      <3>2. snapshots'[n + 1].doc # e
        BY <1>4, <2>2
      <3>3. CASE newest[e] = 101 /\ \A i \in DOMAIN snapshots : snapshots[i].doc # e
        BY <1>4, <3>1, <3>2, <3>3
      <3>4. ASSUME NEW i \in LatestOf(e), newest[e] = snapshots[i].score
            PROVE  \E k \in LatestOf(e)' : newest'[e] = snapshots'[k].score
        <4>1. /\ i \in DOMAIN snapshots /\ snapshots[i].doc = e
              /\ \A j \in DOMAIN snapshots : snapshots[j].doc = e => j <= i
          BY Zenon DEF LatestOf
        <4>2. i \in DOMAIN snapshots' /\ snapshots'[i] = snapshots[i]
          BY <1>4, <4>1
        <4>3. \A j \in DOMAIN snapshots' : snapshots'[j].doc = e => j <= i
          BY <1>4, <3>2, <4>1
        <4>4. i \in LatestOf(e)'
          BY <4>1, <4>2, <4>3, Zenon DEF LatestOf
        <4> QED BY <3>1, <3>4, <4>2, <4>4
      <3> QED BY <3>3, <3>4 DEF Newest
    <2> QED BY <2>1, <2>2
  <1> QED BY <1>5, <1>6, <1>7 DEF Newest

LEMMA NewestKeeps ==
  ASSUME Tables, Newest, [Next]_vars
  PROVE  Newest'
  <1>1. ASSUME UNCHANGED <<snapshots, newest>> PROVE Newest'
    <2>1. \A d : LatestOf(d)' = LatestOf(d)
      BY <1>1, Zenon DEF LatestOf
    <2> QED BY <1>1, <2>1 DEF Newest
  <1>2. ASSUME Report PROVE UNCHANGED <<snapshots, newest>>
    BY <1>2, Zenon DEF Report, Request, CheckScope, ReadJob, CountDocuments, CountAlerts,
       ReadScores, ReadLowest, Query, data, history
  <1>3. ASSUME Others
        PROVE  \/ UNCHANGED <<snapshots, newest>>
               \/ \E d \in Docs, x \in Scores : TakeScore(d, x)
    BY <1>3, Zenon DEF Others, Ingest, Delete, Raise, Resolve, RequestJob, StartJob
  <1>4. ASSUME UNCHANGED vars PROVE UNCHANGED <<snapshots, newest>>
    BY <1>4 DEF vars, data, history
  <1> QED BY <1>1, <1>2, <1>3, <1>4, TakeScoreNewest DEF Next

\* The figures are read in turn, and nothing changes what they were read from.
LEMMA QueryKeepsFigures ==
  ASSUME NEW from, NEW to, Query(from, to)
  PROVE  /\ pc = from /\ pc' = to /\ disturbed' = disturbed
         /\ Active(scope)' = Active(scope) /\ Counted(scope)' = Counted(scope)
         /\ Ranked(scope)' = Ranked(scope)
         /\ \A t : IsTotal(t)' = IsTotal(t)
         /\ \A r : IsLowest(r)' = IsLowest(r)
  <1>1. /\ UNCHANGED <<live, tags, open, snapshots, scope, disturbed>>
        /\ pc = from /\ pc' = to
    BY Zenon DEF Query, data, history
  <1>2. Active(scope)' = Active(scope) /\ \A d : LatestOf(d)' = LatestOf(d)
    BY <1>1, Zenon DEF Active, InScope, LatestOf
  <1>3. Counted(scope)' = Counted(scope) /\ Ranked(scope)' = Ranked(scope)
    BY <1>1, <1>2, Zenon DEF Counted, Ranked
  <1>4. ScoresOf(Ranked(scope))' = ScoresOf(Ranked(scope))
    BY <1>1, <1>3, Zenon DEF ScoresOf
  <1>5. \A t : IsTotal(t)' = IsTotal(t)
    BY <1>3, <1>4, Zenon DEF IsTotal
  <1>6. \A f : Lowest(f)' = Lowest(f)
    BY <1>1, <1>3, Zenon DEF Lowest, Before
  <1>7. \A r : IsLowest(r)' = IsLowest(r)
    BY <1>1, <1>3, <1>6, Zenon DEF IsLowest
  <1> QED BY <1>1, <1>2, <1>3, <1>5, <1>7

LEMMA RankedFinite ==
  ASSUME Tables
  PROVE  IsFiniteSet(Ranked(scope)) /\ IsFiniteSet(Active(scope))
  <1>1. snapshots \in Seq([doc : Docs, score : Nat])
    BY DEF Tables
  <1>2. Len(snapshots) \in Nat /\ DOMAIN snapshots = 1 .. Len(snapshots)
    BY <1>1
  <1>3. IsFiniteSet(DOMAIN snapshots)
    BY <1>2, FS_Interval
  <1>4. Ranked(scope) \subseteq DOMAIN snapshots
    BY Zenon DEF Ranked, LatestOf
  <1>5. Active(scope) \subseteq Docs /\ IsFiniteSet(Docs)
    BY ReportAssumption DEF Active, Tables, ReportAssumption
  <1> QED BY <1>3, <1>4, <1>5, FS_Subset

LEMMA AgreedKeeps ==
  ASSUME RInv, Agreed, [Next]_vars
  PROVE  Agreed'
  <1>f. DOMAIN report = Fields
    BY DEF RInv, Covered
  <1>1. ASSUME Others PROVE Agreed'
    <2>1. disturbed'
      BY <1>1, Zenon DEF Others, Ingest, Delete, Raise, Resolve, TakeScore, RequestJob,
         StartJob, Write
    <2> QED BY <2>1 DEF Agreed
  <1>2. ASSUME UNCHANGED vars PROVE Agreed'
    <2>1. UNCHANGED <<live, tags, open, snapshots, scope, disturbed, pc, report>>
      BY <1>2 DEF vars, data, history
    <2>2. Active(scope)' = Active(scope) /\ \A d : LatestOf(d)' = LatestOf(d)
      BY <2>1, Zenon DEF Active, InScope, LatestOf
    <2>3. Counted(scope)' = Counted(scope) /\ Ranked(scope)' = Ranked(scope)
      BY <2>1, <2>2, Zenon DEF Counted, Ranked
    <2>4. ScoresOf(Ranked(scope))' = ScoresOf(Ranked(scope))
      BY <2>1, <2>3, Zenon DEF ScoresOf
    <2>5. \A t : IsTotal(t)' = IsTotal(t)
      BY <2>3, <2>4, Zenon DEF IsTotal
    <2>6. \A f : Lowest(f)' = Lowest(f)
      BY <2>1, <2>3, Zenon DEF Lowest, Before
    <2>7. \A r : IsLowest(r)' = IsLowest(r)
      BY <2>1, <2>3, <2>6, Zenon DEF IsLowest
    <2> QED BY <2>1, <2>2, <2>3, <2>5, <2>7 DEF Agreed
  <1>3. ASSUME NEW s \in Services \cup {Global, BlankName}, Request(s) PROVE Agreed'
    <2>1. pc' \in {"invalid", "job", "scope"}
      BY <1>3 DEF Request, Answer
    <2> QED BY <2>1 DEF Agreed
  <1>4. ASSUME CheckScope \/ ReadJob PROVE Agreed'
    <2>1. pc' \in {"unknown", "job", "documents"}
      BY <1>4 DEF CheckScope, ReadJob, Query
    <2> QED BY <2>1 DEF Agreed
  <1>5. ASSUME CountDocuments PROVE Agreed'
    <2>1. Query("documents", "alerts")
      BY <1>5 DEF CountDocuments
    <2>2. report'.documents = Cardinality(Active(scope))
      BY <1>5, <1>f DEF CountDocuments, Fields
    <2>3. pc' = "alerts" /\ Active(scope)' = Active(scope)
      BY <2>1, QueryKeepsFigures
    <2> QED BY <2>2, <2>3 DEF Agreed
  <1>6. ASSUME CountAlerts PROVE Agreed'
    <2>1. Query("alerts", "scores")
      BY <1>6 DEF CountAlerts
    <2>2. /\ report'.alerts = [v \in Severities |->
                                 Cardinality(OfSeverity(Counted(scope), v))]
          /\ report'.documents = report.documents
      BY <1>6, <1>f DEF CountAlerts, Fields
    <2>3. /\ pc = "alerts" /\ pc' = "scores" /\ disturbed' = disturbed
          /\ Active(scope)' = Active(scope) /\ Counted(scope)' = Counted(scope)
      BY <2>1, QueryKeepsFigures
    <2> QED BY <2>2, <2>3 DEF Agreed
  <1>7. ASSUME ReadScores PROVE Agreed'
    <2>1. Query("scores", "lowest")
      BY <1>7 DEF ReadScores
    <2>2. IsTotal(MapThenSumSet(LAMBDA i : snapshots[i].score, Ranked(scope)))
      <3>1. IsFiniteSet(Ranked(scope))
        BY RankedFinite DEF RInv
      <3> QED BY <3>1, TotalRead
    <2>3. PICK t : /\ IsTotal(t)
                   /\ report' = [report EXCEPT !.scored = Cardinality(Ranked(scope)),
                                               !.total = t]
      BY <1>7, <2>2, Zenon DEF ReadScores
    <2>4. /\ report'.scored = Cardinality(Ranked(scope)) /\ report'.total = t
          /\ report'.documents = report.documents /\ report'.alerts = report.alerts
      BY <2>3, <1>f DEF Fields
    <2>5. /\ pc = "scores" /\ pc' = "lowest" /\ disturbed' = disturbed
          /\ Active(scope)' = Active(scope) /\ Counted(scope)' = Counted(scope)
          /\ Ranked(scope)' = Ranked(scope)
          /\ \A u : IsTotal(u)' = IsTotal(u)
      BY <2>1, QueryKeepsFigures
    <2>6. IsTotal(report.total)'
      BY <2>3, <2>4, <2>5, Zenon
    <2> QED BY <2>4, <2>5, <2>6 DEF Agreed
  <1>8. ASSUME ReadLowest PROVE Agreed'
    <2>1. Query("lowest", "answered")
      BY <1>8 DEF ReadLowest
    <2>2. PICK r : IsLowest(r) /\ report' = [report EXCEPT !.lowest = r]
      BY <1>8, Zenon DEF ReadLowest, IsLowest
    <2>3. /\ report'.lowest = r /\ report'.scored = report.scored
          /\ report'.total = report.total
          /\ report'.documents = report.documents /\ report'.alerts = report.alerts
      BY <2>2, <1>f DEF Fields
    <2>4. /\ pc = "lowest" /\ pc' = "answered" /\ disturbed' = disturbed
          /\ Active(scope)' = Active(scope) /\ Counted(scope)' = Counted(scope)
          /\ Ranked(scope)' = Ranked(scope)
          /\ \A t : IsTotal(t)' = IsTotal(t)
          /\ \A q : IsLowest(q)' = IsLowest(q)
      BY <2>1, QueryKeepsFigures
    <2>5. IsLowest(r)'
      BY <2>2, <2>4
    <2>6. ASSUME IsTotal(report.total) PROVE IsTotal(report.total)'
      BY <2>3, <2>4, <2>6, Zenon
    <2> QED BY <2>3, <2>4, <2>5, <2>6 DEF Agreed
  <1> QED BY <1>1, <1>2, <1>3, <1>4, <1>5, <1>6, <1>7, <1>8 DEF Next, Report

\* The documents listed, one for each snapshot, in the order of their scores.
LEMMA LowestListed ==
  ASSUME RInv, Newest, IsLowest(report.lowest),
         report.scored = Cardinality(Ranked(scope))
  PROVE  /\ Len(report.lowest) = Cardinality(ListedDocs)
         /\ Len(report.lowest) = Min({Limit, report.scored})
         /\ ListedDocs \subseteq Scored
         /\ \A d \in Scored \ ListedDocs : \A e \in ListedDocs : Score(e) <= Score(d)
         /\ \A k \in DOMAIN report.lowest :
              /\ report.lowest[k].score = Score(report.lowest[k].doc)
              /\ \A j \in 1 .. k : report.lowest[j].score <= report.lowest[k].score
  <1> DEFINE R == Ranked(scope)
             n == Min({Limit, Cardinality(R)})
             doc(i) == snapshots[i].doc
             score(i) == snapshots[i].score
  <1>1. PICK f \in [1 .. n -> R] :
          Lowest(f) /\ report.lowest = [k \in DOMAIN f |-> snapshots[f[k]]]
    BY Zenon DEF IsLowest
  <1>2. n \in Nat
    <2>1. Cardinality(R) \in Nat /\ Limit \in Nat
      BY RankedFinite, FS_CardinalityType, ReportAssumption DEF RInv, ReportAssumption
    <2>2. \E x \in {Limit, Cardinality(R)} : \A y \in {Limit, Cardinality(R)} : x <= y
      BY <2>1
    <2>3. Min({Limit, Cardinality(R)}) \in {Limit, Cardinality(R)}
      BY <2>2, Zenon DEF Min
    <2> QED BY <2>1, <2>3
  <1>3. /\ \A i \in R : /\ i \in Nat /\ i \in DOMAIN snapshots /\ score(i) \in Nat
                        /\ doc(i) \in Scored /\ score(i) = newest[doc(i)]
        /\ \A i, j \in R : doc(i) = doc(j) => i = j
        /\ \A d \in Scored : \E i \in R : doc(i) = d
    BY RankedIsScored DEF RInv
  <1> HIDE DEF n, R, doc, score
  <1>4. /\ DOMAIN f = 1 .. n /\ DOMAIN report.lowest = 1 .. n
        /\ \A k \in 1 .. n : f[k] \in R /\ report.lowest[k] = snapshots[f[k]]
    BY <1>1
  <1>5. Len(report.lowest) = n
    BY <1>1, <1>2, <1>4
  <1>6. /\ \A k \in 1 .. n : report.lowest[k].doc = doc(f[k])
                             /\ report.lowest[k].score = score(f[k])
    BY <1>4 DEF doc, score
  <1>7. ListedDocs = {doc(f[k]) : k \in 1 .. n}
    <2>1. ListedDocs = {report.lowest[k].doc : k \in 1 .. n}
      BY <1>4, Zenon DEF ListedDocs
    <2>2. \A k \in 1 .. n : report.lowest[k].doc = doc(f[k])
      BY <1>6
    <2> QED BY <2>1, <2>2, SMT
  <1>8. /\ \A j, k \in 1 .. n : j < k => Before(f[j], f[k])
        /\ \A k \in 1 .. n, i \in R \ Range(f) : Before(f[k], i)
    BY <1>1, <1>4, Zenon DEF Lowest, R
  <1>9. ASSUME NEW i \in R, NEW j \in R, Before(i, j)
        PROVE  score(i) <= score(j) /\ i # j
    BY <1>3, <1>9 DEF Before, score
  <1>10. \A j, k \in 1 .. n : j < k => f[j] # f[k] /\ score(f[j]) <= score(f[k])
    BY <1>4, <1>8, <1>9
  <1>11. Cardinality(ListedDocs) = n
    <2> DEFINE b == [k \in 1 .. n |-> doc(f[k])]
    <2>1. b \in Surjection(1 .. n, ListedDocs)
      BY <1>7, Zenon DEF Surjection
    <2>2. \A j, k \in 1 .. n : b[j] = b[k] => j = k
      <3> SUFFICES ASSUME NEW j \in 1 .. n, NEW k \in 1 .. n, b[j] = b[k] PROVE j = k
        OBVIOUS
      <3>1. f[j] = f[k]
        BY <1>3, <1>4
      <3>2. ~(j < k) /\ ~(k < j)
        BY <1>10, <3>1
      <3> QED BY <1>2, <3>2
    <2>3. b \in Bijection(1 .. n, ListedDocs)
      BY <2>1, <2>2, Zenon DEF Bijection, Injection, Surjection, IsInjective
    <2>4. IsFiniteSet(1 .. n) /\ Cardinality(1 .. n) = n
      BY <1>2, FS_Interval
    <2>5. ExistsBijection(1 .. n, ListedDocs)
      BY <2>3, Zenon DEF ExistsBijection
    <2> QED BY <2>4, <2>5, FS_Bijection
  <1>12. ListedDocs \subseteq Scored
    BY <1>3, <1>4, <1>7
  <1>13. ASSUME NEW d \in Scored \ ListedDocs, NEW e \in ListedDocs
         PROVE  Score(e) <= Score(d)
    <2>1. PICK i \in R : doc(i) = d
      BY <1>3
    <2>2. PICK k \in 1 .. n : e = doc(f[k])
      BY <1>7
    <2>3. i \notin Range(f)
      BY <1>4, <1>7, <2>1, Zenon DEF Range
    <2>4. score(f[k]) <= score(i)
      BY <1>4, <1>8, <1>9, <2>3
    <2>5. score(f[k]) = newest[e] /\ score(i) = newest[d]
      BY <1>3, <1>4, <2>1, <2>2
    <2> QED BY <2>4, <2>5 DEF Score
  <1>14. ASSUME NEW k \in 1 .. n
         PROVE  /\ report.lowest[k].score = Score(report.lowest[k].doc)
                /\ \A j \in 1 .. k : report.lowest[j].score <= report.lowest[k].score
    <2>1. report.lowest[k].score = Score(report.lowest[k].doc)
      BY <1>3, <1>4, <1>6 DEF Score
    <2>2. ASSUME NEW j \in 1 .. k
          PROVE  report.lowest[j].score <= report.lowest[k].score
      <3>1. j \in 1 .. n /\ (j < k \/ j = k)
        BY <1>2
      <3>2. score(f[k]) \in Nat
        BY <1>3, <1>4
      <3> QED BY <1>6, <1>10, <3>1, <3>2
    <2> QED BY <2>1, <2>2
  <1>15. n = Min({Limit, report.scored})
    BY DEF n, R
  <1> QED BY <1>4, <1>5, <1>11, <1>12, <1>13, <1>14, <1>15

\* The alerts counted by severity are those of the documents in the scope.
LEMMA CountedAreOpen ==
  ASSUME Tables, NEW v \in Severities
  PROVE  OfSeverity(Counted(scope), v) = OfSeverity(OpenIn(scope), v)
  <1>1. ASSUME NEW a \in Counted(scope)
        PROVE  a \in OpenIn(scope)
    <2>1. a \in open /\ a[1] \in Active(scope) /\ a \in Docs \X Alerts
      BY DEF Counted, Tables
    <2>2. PICK d \in Active(scope) : a[1] = d
      BY <2>1
    <2>3. a \in open \cap ({d} \X Alerts)
      BY <2>1, <2>2
    <2> QED
      BY ONLY <2>2, <2>3, Zenon DEF OpenIn
  <1>2. ASSUME NEW a \in OpenIn(scope)
        PROVE  a \in Counted(scope)
    <2>1. PICK d \in Active(scope) : a \in open \cap ({d} \X Alerts)
      BY Zenon DEF OpenIn
    <2> QED BY <2>1 DEF Counted
  <1>3. Counted(scope) = OpenIn(scope)
    BY <1>1, <1>2
  <1> QED BY ONLY <1>3

\* One snapshot is ranked of every document that is scored, and the sums agree.
LEMMA RankedAddUp ==
  ASSUME Tables, Newest
  PROVE  /\ Cardinality(Ranked(scope)) = Cardinality(Scored)
         /\ \A t : IsTotal(t) => t = MapThenSumSet(Score, Scored)
  <1> DEFINE R == Ranked(scope)
             b == [i \in R |-> snapshots[i].doc]
  <1>1. /\ \A i \in R : /\ snapshots[i].score \in Nat /\ snapshots[i].doc \in Scored
                        /\ snapshots[i].score = newest[snapshots[i].doc]
        /\ \A i, j \in R : snapshots[i].doc = snapshots[j].doc => i = j
        /\ \A d \in Scored : \E i \in R : snapshots[i].doc = d
    BY RankedIsScored
  <1>2. IsFiniteSet(R)
    BY RankedFinite
  <1> HIDE DEF R
  <1>3. b \in Bijection(R, Scored)
    BY <1>1, Zenon DEF Bijection, Injection, Surjection, IsInjective
  <1>4. IsFiniteSet(Scored) /\ Cardinality(R) = Cardinality(Scored)
    <2>1. ExistsBijection(R, Scored)
      BY <1>3, Zenon DEF ExistsBijection
    <2> QED BY <1>2, <2>1, FS_Bijection
  <1>5. ASSUME NEW t, IsTotal(t) PROVE t = MapThenSumSet(Score, Scored)
    <2>1. PICK g : Sums(g, ScoresOf(R), R) /\ t = g[R]
      BY <1>5 DEF IsTotal, R
    <2>2. PICK h : /\ Sums(h, NewestOf(Scored), Scored)
                   /\ MapThenSumSet(Score, Scored) = h[Scored]
      BY <1>4, TotalScored
    <2>3. Weights(ScoresOf(R), R)
      BY <1>1 DEF Weights, ScoresOf
    <2>4. /\ \A i \in R : /\ b[i] \in Scored
                          /\ ScoresOf(R)[i] = NewestOf(Scored)[b[i]]
          /\ \A i, j \in R : b[i] = b[j] => i = j
          /\ \A d \in Scored : \E i \in R : b[i] = d
      BY <1>1 DEF ScoresOf, NewestOf
    <2>5. Weights(NewestOf(Scored), Scored)
      BY <2>3, <2>4 DEF Weights
    <2> HIDE DEF b
    <2>6. g[R] = h[Scored]
      BY ONLY <1>2, <1>4, <2>1, <2>2, <2>3, <2>4, <2>5, SameSum
    <2> QED BY <2>1, <2>2, <2>6
  <1> QED BY <1>4, <1>5 DEF R

\* With nothing written between its queries, a report for any number of documents,
\* alerts and snapshots agrees with itself and with the documents: the total is the
\* sum of the newest scores, and the documents listed are the lowest in their order.
THEOREM UndisturbedReportsAgree == Spec => []ReportAgrees
  <1>1. Init => Newest /\ Agreed
    <2> SUFFICES ASSUME Init PROVE Newest /\ Agreed
      OBVIOUS
    <2>1. Newest
      BY DEF Init, Newest
    <2>2. Agreed
      BY DEF Init, Agreed
    <2> QED BY <2>1, <2>2
  <1>2. RInv /\ Newest /\ Agreed /\ [Next]_vars => Newest' /\ Agreed'
    BY NewestKeeps, AgreedKeeps DEF RInv
  <1>3. RInv /\ Newest /\ Agreed => ReportAgrees
    <2> SUFFICES ASSUME RInv, Newest, Agreed, pc = "answered", ~disturbed
                 PROVE  ReportAgrees
      BY DEF ReportAgrees
    <2>1. Tables
      BY DEF RInv
    <2>2. /\ report.documents = Cardinality(Active(scope))
          /\ \A v \in Severities :
               report.alerts[v] = Cardinality(OfSeverity(Counted(scope), v))
          /\ report.scored = Cardinality(Ranked(scope))
          /\ IsTotal(report.total) /\ IsLowest(report.lowest)
      BY DEF Agreed
    <2>3. report.scored <= report.documents
      BY <2>1, <2>2, RankedOnce
    <2>4. \A v \in Severities :
            report.alerts[v] = Cardinality(OfSeverity(OpenIn(scope), v))
      BY <2>1, <2>2, CountedAreOpen
    <2>5. /\ report.scored = Cardinality(Scored)
          /\ report.total = MapThenSumSet(Score, Scored)
      BY <2>1, <2>2, RankedAddUp
    <2> QED BY <2>2, <2>3, <2>4, <2>5, LowestListed DEF ReportAgrees
  <1> QED BY <1>1, <1>2, <1>3, Invariance, PTL DEF Spec

-----------------------------------------------------------------------------
(* The average, whatever is written meanwhile.                             *)

\* The total is that of as many scores as are counted, each from 0 to 100.
AverageInRange == report.total \in Nat /\ report.total <= 100 * report.scored

LEMMA TotalInRange ==
  ASSUME Tables, Newest, NEW t, IsTotal(t)
  PROVE  t \in Nat /\ t <= 100 * Cardinality(Ranked(scope))
  <1> DEFINE R == Ranked(scope)
  <1>1. IsFiniteSet(R)
    BY RankedFinite
  <1>2. \A i \in R : ScoresOf(R)[i] \in 0 .. 100
    <2> SUFFICES ASSUME NEW i \in R PROVE snapshots[i].score \in 0 .. 100
      BY DEF ScoresOf
    <2>1. i \in DOMAIN snapshots
      BY RankedIsScored
    <2>2. snapshots[i].score \in Nat
      BY <2>1, SnapshotType
    <2>3. snapshots[i].score <= 100
      BY <2>1 DEF Newest
    <2> QED BY <2>2, <2>3
  <1>3. PICK g : Sums(g, ScoresOf(R), R) /\ t = g[R]
    BY DEF IsTotal
  <1> HIDE DEF R
  <1>4. g[R] \in Nat /\ g[R] <= 100 * Cardinality(R)
    BY ONLY <1>1, <1>2, <1>3, SumBound, 100 \in Nat, R \in SUBSET R
  <1> QED BY <1>3, <1>4 DEF R

LEMMA AverageKeeps ==
  ASSUME RInv, Newest, AverageInRange, [Next]_vars
  PROVE  AverageInRange'
  <1>f. DOMAIN report = Fields
    BY DEF RInv, Covered
  <1>1. ASSUME ReadScores PROVE AverageInRange'
    <2>1. IsTotal(MapThenSumSet(LAMBDA i : snapshots[i].score, Ranked(scope)))
      <3>1. IsFiniteSet(Ranked(scope))
        BY RankedFinite DEF RInv
      <3> QED BY <3>1, TotalRead
    <2>2. PICK t : /\ IsTotal(t)
                   /\ report' = [report EXCEPT !.scored = Cardinality(Ranked(scope)),
                                               !.total = t]
      BY <1>1, <2>1, Zenon DEF ReadScores
    <2>3. report'.scored = Cardinality(Ranked(scope)) /\ report'.total = t
      BY <2>2, <1>f DEF Fields
    <2>4. t \in Nat /\ t <= 100 * Cardinality(Ranked(scope))
      BY <2>2, TotalInRange DEF RInv
    <2> QED BY <2>3, <2>4 DEF AverageInRange
  <1>2. ASSUME [Next]_vars, ~ReadScores
        PROVE  report'.total = report.total /\ report'.scored = report.scored
    <2>1. ASSUME Others PROVE report' = report
      BY <2>1, Zenon DEF Others, Ingest, Delete, Raise, Resolve, TakeScore, RequestJob,
         StartJob, Write
    <2>2. ASSUME UNCHANGED vars PROVE report' = report
      BY <2>2, Zenon DEF vars
    <2>3. ASSUME NEW s, Request(s) PROVE report' = report
      BY <2>3, Zenon DEF Request
    <2>4. ASSUME CheckScope PROVE report' = report
      BY <2>4, Zenon DEF CheckScope
    <2>5. ASSUME ReadJob \/ CountDocuments \/ CountAlerts \/ ReadLowest
          PROVE  report'.total = report.total /\ report'.scored = report.scored
      <3>1. \E q : \/ report' = [report EXCEPT !.job = q]
                   \/ report' = [report EXCEPT !.documents = q]
                   \/ report' = [report EXCEPT !.alerts = q]
                   \/ report' = [report EXCEPT !.lowest = q]
        BY <2>5, Zenon DEF ReadJob, CountDocuments, CountAlerts, ReadLowest
      <3> QED BY <3>1, <1>f DEF Fields
    <2> QED BY <1>2, <2>1, <2>2, <2>3, <2>4, <2>5, Zenon DEF Next, Report
  <1> QED BY <1>1, <1>2 DEF AverageInRange

\* The number of scores and their total are read by one statement, so the average a
\* report gives is a score itself, from 0 to 100, also when snapshots are taken and
\* documents come and go between its queries.
THEOREM AverageIsAScore == Spec => []AverageInRange
  <1>1. Init => Newest /\ AverageInRange
    <2> SUFFICES ASSUME Init PROVE Newest /\ AverageInRange
      OBVIOUS
    <2>1. Newest
      BY DEF Init, Newest
    <2>2. AverageInRange
      BY DEF Init, NoReport, AverageInRange
    <2> QED BY <2>1, <2>2
  <1>2. RInv /\ Newest /\ AverageInRange /\ [Next]_vars
          => Newest' /\ AverageInRange'
    BY NewestKeeps, AverageKeeps DEF RInv
  <1> QED BY <1>1, <1>2, Invariance, PTL DEF Spec
=============================================================================
