--------------------------- MODULE AlertScan_proofs ---------------------------
(***************************************************************************)
(* Theorems about AlertScan, for every set of documents, findings, scans   *)
(* and requests, and every number of crashes and changes of the world.     *)
(***************************************************************************)
EXTENDS AlertScan, FiniteSums, SequenceTheorems, TLAPS

(***************************************************************************)
(* The two ways in which the table changes.                                *)
(***************************************************************************)
Table == [Keys -> Seq(RowState)]

LEMMA InsertedRows ==
  ASSUME alert \in Table, NEW S, NEW k \in Keys
  PROVE  /\ Inserted(S) \in Table
         /\ k \notin S => Inserted(S)[k] = alert[k]
         /\ k \in S => /\ DOMAIN Inserted(S)[k] = 1..(Len(alert[k]) + 1)
                       /\ Inserted(S)[k][Len(alert[k]) + 1] = "open"
                       /\ \A i \in DOMAIN alert[k] : Inserted(S)[k][i] = alert[k][i]
         /\ DOMAIN alert[k] = 1..Len(alert[k]) /\ Len(alert[k]) \in Nat
  <1>1. \A l \in Keys : alert[l] \in Seq(RowState) /\ "open" \in RowState
    BY DEF Table, RowState
  <1>2. \A l \in Keys : Append(alert[l], "open") \in Seq(RowState)
    BY <1>1, AppendProperties
  <1>3. Inserted(S) \in Table
    BY <1>1, <1>2 DEF Inserted, Table
  <1>4. DOMAIN alert[k] = 1..Len(alert[k]) /\ Len(alert[k]) \in Nat
    BY <1>1, LenProperties
  <1>5. Inserted(S)[k] = IF k \in S THEN Append(alert[k], "open") ELSE alert[k]
    BY DEF Inserted
  <1>6. ASSUME k \in S
        PROVE  /\ DOMAIN Inserted(S)[k] = 1..(Len(alert[k]) + 1)
               /\ Inserted(S)[k][Len(alert[k]) + 1] = "open"
               /\ \A i \in DOMAIN alert[k] : Inserted(S)[k][i] = alert[k][i]
    <2>1. /\ Len(Append(alert[k], "open")) = Len(alert[k]) + 1
          /\ \A i \in 1..Len(alert[k]) : Append(alert[k], "open")[i] = alert[k][i]
          /\ Append(alert[k], "open")[Len(alert[k]) + 1] = "open"
      BY <1>1, AppendProperties
    <2>2. DOMAIN Append(alert[k], "open") = 1..Len(Append(alert[k], "open"))
      BY <1>2, LenProperties
    <2> QED BY <1>4, <1>5, <1>6, <2>1, <2>2
  <1> QED BY <1>3, <1>4, <1>5, <1>6

LEMMA MarkedRows ==
  ASSUME alert \in Table, NEW S, NEW state \in RowState, NEW k \in Keys
  PROVE  /\ Marked(S, state) \in Table
         /\ DOMAIN Marked(S, state)[k] = DOMAIN alert[k]
         /\ \A i \in DOMAIN alert[k] :
              Marked(S, state)[k][i] = IF <<k, i>> \in S THEN state ELSE alert[k][i]
  <1> DEFINE new(l) == [i \in DOMAIN alert[l] |->
                          IF <<l, i>> \in S THEN state ELSE alert[l][i]]
  <1>1. ASSUME NEW l \in Keys
        PROVE  new(l) \in Seq(RowState)
    <2>1. alert[l] \in Seq(RowState)
      BY DEF Table
    <2>2. /\ DOMAIN alert[l] = 1..Len(alert[l])
          /\ Len(alert[l]) \in Nat
          /\ alert[l] \in [1..Len(alert[l]) -> RowState]
      BY <2>1, LenProperties
    <2>3. new(l) \in [1..Len(alert[l]) -> RowState]
      BY <2>2
    <2> QED BY <2>2, <2>3, SeqDef
  <1>2. Marked(S, state) = [l \in Keys |-> new(l)]
    BY DEF Marked
  <1> HIDE DEF new
  <1>3. Marked(S, state) \in Table /\ Marked(S, state)[k] = new(k)
    BY <1>1, <1>2 DEF Table
  <1> QED BY <1>3 DEF new

LEMMA InsertedType ==
  ASSUME alert \in Table, NEW S
  PROVE  Inserted(S) \in Table
  <1>1. \A l \in Keys : Append(alert[l], "open") \in Seq(RowState)
    BY AppendProperties DEF Table, RowState
  <1> QED BY <1>1 DEF Inserted, Table

LEMMA MarkedType ==
  ASSUME alert \in Table, NEW S, NEW state \in RowState
  PROVE  Marked(S, state) \in Table
  <1>1. CASE Keys = {}
    BY <1>1 DEF Marked, Table
  <1>2. CASE Keys # {}
    BY <1>2, MarkedRows
  <1> QED BY <1>1, <1>2

-------------------------------------------------------------------------------
(* Type correctness, with where the sessions are.                            *)

\* A session is at a document exactly while it works on one.
Placed ==
  \A x \in Sessions :
    at[x] = NoDoc <=> pc[x] \in {"list", "evaluate", "failed", "done", "idle"}

\* A scan and a request keep to their own steps.
Roles ==
  /\ \A s \in Scans : /\ pc[s] \in ScanPC \cup {"score", "snapshot"}
                       /\ then[s] # "answered"
  /\ \A u \in Resolvers : /\ pc[u] \in RequestPC \cup {"score", "snapshot"}
                           /\ pc[u] \in {"score", "snapshot"} => then[u] = "answered"

Base == TypeOK /\ Placed /\ Roles

LEMMA InitBase == Init => Base
  <1> SUFFICES ASSUME Init PROVE Base
    OBVIOUS
  <1>1. \A x \in Sessions : x \in Scans <=> x \notin Resolvers
    BY AlertScanAssumption DEF Sessions
  <1>2. <<>> \in Seq(RowState)
    BY EmptySeq
  <1>3. TypeOK
    BY <1>2 DEF Init, TypeOK, PC, ScanPC, RequestPC, Then
  <1>4. Placed /\ Roles
    BY <1>1 DEF Init, Placed, Roles, Sessions, ScanPC, RequestPC
  <1> QED BY <1>3, <1>4 DEF Base

\* The document of a session that works on one.
LEMMA AtDocument ==
  ASSUME Base, NEW x \in Sessions,
         pc[x] \notin {"list", "evaluate", "failed", "done", "idle"}
  PROVE  at[x] \in Docs
  BY DEF Base, TypeOK, Placed

LEMMA OpenType ==
  ASSUME TypeOK, NEW d
  PROVE  /\ OpenOf(d) \in SUBSET Alerts
         /\ \A k, i : <<k, i>> \in OpenOf(d) <=>
              /\ k \in KeysOf(d) /\ i \in DOMAIN alert[k] /\ alert[k][i] = "open"
         /\ \A z \in OpenOf(d) : z = <<z[1], z[2]>> /\ z[1] \in KeysOf(d)
  <1>1. \A k \in Keys : DOMAIN alert[k] = 1..Len(alert[k]) /\ Len(alert[k]) \in Nat
    BY LenProperties DEF TypeOK
  <1>2. \A k \in Keys : DOMAIN alert[k] \subseteq Nat
    BY <1>1
  <1>3. \A k, i : <<k, i>> \in OpenOf(d) <=>
          /\ k \in KeysOf(d) /\ i \in DOMAIN alert[k] /\ alert[k][i] = "open"
    BY DEF OpenOf
  <1>4. \A z \in OpenOf(d) : z = <<z[1], z[2]>> /\ z[1] \in KeysOf(d)
    BY DEF OpenOf
  <1> QED BY <1>2, <1>3, <1>4 DEF Alerts, KeysOf

LEMMA UnlockType ==
  ASSUME TypeOK, NEW x, Unlock(x)
  PROVE  lock' \in [Keys -> Scans \cup {NoScan}]
  BY DEF Unlock, TypeOK

LEMMA CutOffType ==
  ASSUME Base, NEW x \in Sessions, CutOff(x)
  PROVE  lagging' \in SUBSET Docs
  BY AtDocument DEF CutOff, Owes, Base, TypeOK

LEMMA CloseType ==
  ASSUME TypeOK, NEW s \in Scans, Close(s)
  PROVE  /\ lock' \in [Keys -> Scans \cup {NoScan}]
         /\ at' \in [Sessions -> Docs \cup {NoDoc}]
         /\ todo' \in [Scans -> SUBSET Docs]
         /\ drafts' \in [Scans -> SUBSET Keys]
         /\ left' \in [Scans -> SUBSET Keys]
         /\ missing' \in [Scans -> SUBSET Keys]
         /\ read' \in [Sessions -> SUBSET Alerts]
         /\ created' \in [Scans -> SUBSET Alerts]
         /\ expired' \in [Scans -> SUBSET Docs]
         /\ alone' \in [Scans -> BOOLEAN]
  <1>1. lock' \in [Keys -> Scans \cup {NoScan}]
    BY UnlockType DEF Close
  <1>2. alone' \in [Scans -> BOOLEAN]
    BY DEF Close, TypeOK
  <1> QED BY <1>1, <1>2 DEF Close, TypeOK

\* Reconcile with its LET as a quantifier
LEMMA ReconcileStep ==
  ASSUME NEW s, Reconcile(s)
  PROVE  /\ pc[s] = "reconcile"
         /\ \E stale \in SUBSET OpenOf(at[s]) :
              /\ read' = [read EXCEPT ![s] = stale]
              /\ \/ Score(s, "next")
                 \/ Goto(s, "resolve") /\ UNCHANGED then
         /\ UNCHANGED <<worldVars, tableVars, at, scanVars, notified, crashes,
                        historyVars>>
  <1> DEFINE stale == {a \in OpenOf(at[s]) : a[1] \notin drafts[s]}
  <1>1. /\ pc[s] = "reconcile"
        /\ read' = [read EXCEPT ![s] = stale]
        /\ IF stale = {} THEN Score(s, "next")
                         ELSE Goto(s, "resolve") /\ UNCHANGED then
        /\ UNCHANGED <<worldVars, tableVars, at, scanVars, notified, crashes,
                       historyVars>>
    BY Zenon DEF Reconcile
  <1>2. stale \in SUBSET OpenOf(at[s])
    OBVIOUS
  <1> QED BY <1>1, <1>2

LEMMA ScanBase ==
  ASSUME Base, NEW s \in Scans,
         \/ List(s) \/ Evaluate(s) \/ Probe(s) \/ Insert(s) \/ NothingNew(s)
         \/ Reconcile(s) \/ Resolve(s) \/ Report(s) \/ Raise(s) \/ Crash(s)
  PROVE  Base'
  <1>s. s \in Sessions /\ s \notin Resolvers
    BY AlertScanAssumption DEF Sessions
  <1>n. NoDoc \notin Docs
    BY AlertScanAssumption
  <1>t. TypeOK /\ Placed /\ Roles
    BY DEF Base
  <1> USE DEF TypeOK, PC, ScanPC, RequestPC, Then
  <1>1. CASE List(s)
    <2>1. TypeOK'
      BY <1>1, <1>s, <1>t DEF List, Goto, worldVars, tableVars, historyVars
    <2>2. Placed' /\ Roles'
      BY <1>1, <1>s, <1>t DEF List, Goto, Placed, Roles
    <2> QED BY <2>1, <2>2 DEF Base
  <1>2. CASE Evaluate(s)
    <2>1. PICK d \in todo[s] \ expired[s] :
            /\ at' = [at EXCEPT ![s] = d]
            /\ todo' = [todo EXCEPT ![s] = @ \ {d}]
            /\ drafts' = [drafts EXCEPT ![s] = KeysOf(d) \cap world]
            /\ left' = [left EXCEPT ![s] = KeysOf(d) \cap world]
      BY <1>2 DEF Evaluate
    <2>2. d \in Docs
      BY <2>1, <1>t
    <2>3. TypeOK'
      <3>1. /\ todo' \in [Scans -> SUBSET Docs]
            /\ drafts' \in [Scans -> SUBSET Keys]
            /\ left' \in [Scans -> SUBSET Keys]
            /\ at' \in [Sessions -> Docs \cup {NoDoc}]
        BY <2>1, <2>2, <1>s, <1>t
      <3>2. alone' \in [Scans -> BOOLEAN] /\ pc' \in [Sessions -> PC]
        BY <1>2, <1>s, <1>t DEF Evaluate, Goto
      <3> QED BY <3>1, <3>2, <1>2, <1>t DEF Evaluate, worldVars, tableVars
    <2>4. Placed' /\ Roles'
      BY <1>2, <1>s, <1>n, <1>t, <2>1, <2>2 DEF Evaluate, Goto, Placed, Roles
    <2> QED BY <2>3, <2>4 DEF Base
  <1>3. CASE Probe(s)
    <2>1. PICK k \in left[s] :
            /\ lock' = [lock EXCEPT ![k] = s]
            /\ left' = [left EXCEPT ![s] = @ \ {k}]
            /\ missing' = [missing EXCEPT ![s] =
                              IF HasOpen(k) THEN @ ELSE @ \cup {k}]
      BY <1>3 DEF Probe
    <2>2. k \in Keys
      BY <2>1, <1>t
    <2>3. TypeOK'
      <3>1. /\ lock' \in [Keys -> Scans \cup {NoScan}]
            /\ left' \in [Scans -> SUBSET Keys]
            /\ missing' \in [Scans -> SUBSET Keys]
        BY <2>1, <2>2, <1>t
      <3> QED BY <3>1, <1>3, <1>t DEF Probe, worldVars, historyVars
    <2>4. Placed' /\ Roles'
      BY <1>3, <1>t DEF Probe, Placed, Roles
    <2> QED BY <2>3, <2>4 DEF Base
  <1>4. CASE Insert(s)
    <2>1. alert' \in [Keys -> Seq(RowState)]
      <3>1. alert' = Inserted(missing[s]) /\ alert \in Table
        BY <1>4, <1>t DEF Insert, Table
      <3> QED BY <3>1, InsertedType DEF Table
    <2>2. created' \in [Scans -> SUBSET Alerts]
      <3>1. \A k \in missing[s] : <<k, Len(alert[k]) + 1>> \in Alerts
        BY <1>t, LenProperties DEF Alerts
      <3> QED BY <3>1, <1>4, <1>t DEF Insert
    <2>3. lock' \in [Keys -> Scans \cup {NoScan}]
      BY <1>4, <1>t, UnlockType DEF Insert
    <2>4. alone' \in [Scans -> BOOLEAN]
      BY <1>4, <1>t DEF Insert, Disturb
    <2>5. /\ pc' \in [Sessions -> PC] /\ then' \in [Sessions -> Then]
          /\ missing' \in [Scans -> SUBSET Keys]
      BY <1>4, <1>s, <1>t DEF Insert, Score, Goto
    <2>6. TypeOK'
      BY <1>4, <1>t, <2>1, <2>2, <2>3, <2>4, <2>5 DEF Insert, worldVars
    <2>7. Placed' /\ Roles'
      BY <1>4, <1>s, <1>t DEF Insert, Score, Goto, Placed, Roles
    <2> QED BY <2>6, <2>7 DEF Base
  <1>5. CASE NothingNew(s)
    <2>1. TypeOK'
      BY <1>5, <1>s, <1>t DEF NothingNew, Goto, worldVars, tableVars, scanVars,
                              historyVars
    <2>2. Placed' /\ Roles'
      BY <1>5, <1>s, <1>t DEF NothingNew, Goto, Placed, Roles
    <2> QED BY <2>1, <2>2 DEF Base
  <1>6. CASE Reconcile(s)
    <2>1. PICK stale \in SUBSET OpenOf(at[s]) :
            /\ read' = [read EXCEPT ![s] = stale]
            /\ \/ Score(s, "next")
               \/ Goto(s, "resolve") /\ UNCHANGED then
      BY <1>6, ReconcileStep
    <2>2. read' \in [Sessions -> SUBSET Alerts]
      <3>1. stale \in SUBSET Alerts
        BY <2>1, <1>t, OpenType
      <3> QED BY <2>1, <3>1, <1>t
    <2>3. pc' \in [Sessions -> PC] /\ then' \in [Sessions -> Then]
      BY <2>1, <1>s, <1>t DEF Score, Goto
    <2>4. TypeOK'
      <3>1. UNCHANGED <<worldVars, tableVars, at, scanVars, notified, crashes,
                        historyVars>>
        BY <1>6, ReconcileStep
      <3> QED BY <1>t, <2>2, <2>3, <3>1 DEF worldVars, tableVars, scanVars,
                                            historyVars
    <2>5. Placed' /\ Roles'
      <3>1. pc[s] = "reconcile" /\ UNCHANGED at
        BY <1>6, ReconcileStep
      <3>2. \E l \in {"score", "resolve"} : pc' = [pc EXCEPT ![s] = l]
        BY <2>1 DEF Score, Goto
      <3>3. then' = then \/ then' = [then EXCEPT ![s] = "next"]
        BY <2>1 DEF Score
      <3>4. Placed'
        BY <3>1, <3>2, <1>s, <1>t DEF Placed
      <3>5. Roles'
        <4>1. PICK l \in {"score", "resolve"} : pc' = [pc EXCEPT ![s] = l]
          BY <3>2
        <4>2. \A x \in Sessions : x # s => pc'[x] = pc[x] /\ then'[x] = then[x]
          BY <4>1, <3>3, <1>t
        <4>3. pc'[s] = l /\ then'[s] \in {then[s], "next"}
          BY <4>1, <3>3, <1>s, <1>t
        <4> QED BY <4>1, <4>2, <4>3, <1>s, <1>t DEF Roles, Sessions
      <3> QED BY <3>4, <3>5
    <2> QED BY <2>4, <2>5 DEF Base
  <1>7. CASE Resolve(s)
    <2>1. alert' \in [Keys -> Seq(RowState)]
      <3>1. alert' = Marked(read[s], "resolved_by_scan") /\ alert \in Table
        BY <1>7, <1>t DEF Resolve, Table
      <3>2. "resolved_by_scan" \in RowState
        BY DEF RowState
      <3> QED BY <3>1, <3>2, MarkedType DEF Table
    <2>2. lock' \in [Keys -> Scans \cup {NoScan}]
      BY <1>7, <1>t, UnlockType DEF Resolve
    <2>3. alone' \in [Scans -> BOOLEAN]
      BY <1>7, <1>t DEF Resolve, Disturb
    <2>4. /\ pc' \in [Sessions -> PC] /\ then' \in [Sessions -> Then]
          /\ read' \in [Sessions -> SUBSET Alerts]
      BY <1>7, <1>s, <1>t DEF Resolve, Score, Goto
    <2>5. TypeOK'
      BY <1>7, <1>t, <2>1, <2>2, <2>3, <2>4 DEF Resolve, worldVars, scanVars
    <2>6. Placed' /\ Roles'
      BY <1>7, <1>s, <1>t DEF Resolve, Score, Goto, Placed, Roles
    <2> QED BY <2>5, <2>6 DEF Base
  <1>8. CASE Report(s)
    <2>1. TypeOK'
      <3>1. pc' \in [Sessions -> PC] /\ notified' \in SUBSET Alerts
        BY <1>8, <1>s, <1>t DEF Report, Goto
      <3> QED BY <1>8, <1>t, <3>1, CloseType DEF Report, worldVars
    <2>2. Placed' /\ Roles'
      BY <1>8, <1>s, <1>t DEF Report, Close, Goto, Placed, Roles
    <2> QED BY <2>1, <2>2 DEF Base
  <1>9. CASE Raise(s)
    <2>1. TypeOK'
      <3>1. pc' \in [Sessions -> PC] /\ lagging' \in SUBSET Docs
        BY <1>9, <1>s, <1>t, CutOffType DEF Raise, Goto
      <3> QED BY <1>9, <1>t, <3>1, CloseType DEF Raise, worldVars
    <2>2. Placed' /\ Roles'
      BY <1>9, <1>s, <1>t DEF Raise, Close, Goto, Placed, Roles
    <2> QED BY <2>1, <2>2 DEF Base
  <1>10. CASE Crash(s)
    <2>1. TypeOK'
      <3>1. /\ pc' \in [Sessions -> PC] /\ lagging' \in SUBSET Docs
            /\ crashes' \in Nat
        BY <1>10, <1>s, <1>t, CutOffType DEF Crash, Goto
      <3> QED BY <1>10, <1>t, <3>1, CloseType DEF Crash, worldVars
    <2>2. Placed' /\ Roles'
      BY <1>10, <1>s, <1>t DEF Crash, Close, Goto, Placed, Roles
    <2> QED BY <2>1, <2>2 DEF Base
  <1> QED
    BY <1>1, <1>2, <1>3, <1>4, <1>5, <1>6, <1>7, <1>8, <1>9, <1>10

LEMMA RequestBase ==
  ASSUME Base, NEW u \in Resolvers, Get(u) \/ Update(u) \/ RequestFails(u)
  PROVE  Base'
  <1>s. u \in Sessions /\ u \notin Scans
    BY AlertScanAssumption DEF Sessions
  <1>n. NoDoc \notin Docs
    BY AlertScanAssumption
  <1>t. TypeOK /\ Placed /\ Roles
    BY DEF Base
  <1> USE DEF PC, ScanPC, RequestPC, Then
  <1>1. CASE Get(u)
    <2>0. PICK k \in Keys : \E i \in DOMAIN alert[k] :
            /\ read' = [read EXCEPT ![u] = {<<k, i>>}]
            /\ at' = [at EXCEPT ![u] = DocOf[k]]
            /\ Goto(u, IF alert[k][i] = "open" THEN "loaded" ELSE "answered")
      BY <1>1 DEF Get
    <2>1. PICK i \in DOMAIN alert[k] :
            /\ read' = [read EXCEPT ![u] = {<<k, i>>}]
            /\ at' = [at EXCEPT ![u] = DocOf[k]]
            /\ Goto(u, IF alert[k][i] = "open" THEN "loaded" ELSE "answered")
      BY <2>0
    <2>2. DocOf[k] \in Docs
      BY AlertScanAssumption
    <2>3. i \in Nat
      BY <1>t, LenProperties DEF TypeOK
    <2>4. pc[u] = "idle" /\ then' = then
      BY <1>1 DEF Get
    <2>5. PICK l \in {"loaded", "answered"} : pc' = [pc EXCEPT ![u] = l]
      BY <2>1 DEF Goto
    <2>6. TypeOK'
      <3>0. {<<k, i>>} \in SUBSET Alerts
        BY <2>3 DEF Alerts
      <3>1. /\ read' \in [Sessions -> SUBSET Alerts]
            /\ at' \in [Sessions -> Docs \cup {NoDoc}]
        BY <1>t, <2>1, <2>2, <3>0 DEF TypeOK
      <3>2. pc' \in [Sessions -> PC]
        BY <1>t, <2>5 DEF TypeOK
      <3> QED BY <1>1, <1>t, <3>1, <3>2 DEF Get, TypeOK, worldVars, tableVars,
                                            scanVars, historyVars
    <2>7. Placed'
      <3>1. at'[u] = DocOf[k] /\ pc'[u] = l
        BY <1>s, <1>t, <2>1, <2>5 DEF TypeOK
      <3>2. \A x \in Sessions : x # u => at'[x] = at[x] /\ pc'[x] = pc[x]
        BY <1>t, <2>1, <2>5 DEF TypeOK
      <3> QED BY <1>n, <1>t, <2>2, <3>1, <3>2 DEF Placed
    <2>8. Roles'
      BY <1>s, <1>t, <2>4, <2>5 DEF Roles, TypeOK, Sessions
    <2> QED BY <2>6, <2>7, <2>8 DEF Base
  <1>2. CASE Update(u)
    <2>1. alert' \in [Keys -> Seq(RowState)]
      <3>1. alert \in Table /\ "resolved_by_api" \in RowState
        BY <1>t DEF TypeOK, Table, RowState
      <3>2. alert' = Marked(read[u], "resolved_by_api") \/ alert' = alert
        BY <1>2 DEF Update
      <3> QED BY <3>1, <3>2, MarkedType DEF Table
    <2>2. \/ Score(u, "answered")
          \/ Goto(u, "answered") /\ then' = then
      BY <1>2 DEF Update
    <2>3. pc[u] = "loaded" /\ at' = at
      BY <1>2 DEF Update
    <2>4. pc' \in [Sessions -> PC] /\ then' \in [Sessions -> Then]
      BY <1>s, <1>t, <2>2 DEF TypeOK, Score, Goto
    <2>5. TypeOK'
      BY <1>2, <1>t, <2>1, <2>4 DEF Update, TypeOK, worldVars, scanVars, historyVars
    <2>6. Placed'
      BY <1>s, <1>t, <2>2, <2>3 DEF Placed, TypeOK, Score, Goto
    <2>7. Roles'
      BY <1>s, <1>t, <2>2, <2>3 DEF Roles, TypeOK, Sessions, Score, Goto
    <2> QED BY <2>5, <2>6, <2>7 DEF Base
  <1>3. CASE RequestFails(u)
    <2>1. pc' = [pc EXCEPT ![u] = "error"] /\ pc[u] \in {"loaded", "score"}
      BY <1>3 DEF RequestFails, Goto
    <2>2. at' = at /\ then' = then
      BY <1>3 DEF RequestFails
    <2>3. lagging' \in SUBSET Docs
      BY <1>3, <1>s, CutOffType DEF RequestFails
    <2>4. TypeOK'
      <3>1. pc' \in [Sessions -> PC]
        BY <1>t, <2>1 DEF TypeOK
      <3> QED BY <1>3, <1>t, <2>3, <3>1 DEF RequestFails, TypeOK, worldVars, tableVars,
                                            scanVars
    <2>5. Placed'
      BY <1>s, <1>t, <2>1, <2>2 DEF Placed, TypeOK
    <2>6. Roles'
      BY <1>s, <1>t, <2>1, <2>2 DEF Roles, TypeOK, Sessions
    <2> QED BY <2>4, <2>5, <2>6 DEF Base
  <1> QED BY <1>1, <1>2, <1>3

LEMMA AfterScoreBase ==
  ASSUME Base, NEW x \in Sessions, pc[x] \in {"score", "snapshot"}, AfterScore(x)
  PROVE  /\ pc' \in [Sessions -> PC]
         /\ then' \in [Sessions -> Then]
         /\ at' \in [Sessions -> Docs \cup {NoDoc}]
         /\ Placed' /\ Roles'
  <1>t. TypeOK /\ Placed /\ Roles
    BY DEF Base
  <1>r. x \in Resolvers => then[x] = "answered"
    BY <1>t DEF Roles
  <1>s. x \in Scans => x \notin Resolvers /\ then[x] # "answered"
    BY <1>t, AlertScanAssumption DEF Roles
  <1>d. at[x] \in Docs /\ NoDoc \notin Docs
    BY AtDocument, AlertScanAssumption
  <1> USE DEF PC, ScanPC, RequestPC, Then
  <1>1. CASE then[x] = "reconcile"
    <2>1. pc' = [pc EXCEPT ![x] = "reconcile"] /\ then' = then /\ at' = at
      BY <1>1 DEF AfterScore, Goto
    <2>2. Placed'
      BY <1>t, <2>1 DEF Placed, TypeOK
    <2>3. Roles'
      BY <1>1, <1>t, <1>r, <1>s, <2>1 DEF Roles, TypeOK, Sessions
    <2> QED BY <1>t, <2>1, <2>2, <2>3 DEF TypeOK
  <1>2. CASE then[x] = "final"
    <2>1. /\ pc' = [pc EXCEPT ![x] = "score"]
          /\ then' = [then EXCEPT ![x] = "next"] /\ at' = at
      BY <1>2 DEF AfterScore, Score, Goto
    <2>2. Placed'
      BY <1>t, <2>1 DEF Placed, TypeOK
    <2>3. Roles'
      BY <1>2, <1>t, <1>r, <1>s, <2>1 DEF Roles, TypeOK, Sessions
    <2> QED BY <1>t, <2>1, <2>2, <2>3 DEF TypeOK
  <1>3. CASE then[x] = "next"
    <2>1. /\ pc' = [pc EXCEPT ![x] = "evaluate"] /\ then' = then
          /\ at' = [at EXCEPT ![x] = NoDoc]
      BY <1>3 DEF AfterScore, Goto
    <2>2. Placed'
      BY <1>t, <2>1 DEF Placed, TypeOK
    <2>3. Roles'
      BY <1>3, <1>t, <1>r, <1>s, <2>1 DEF Roles, TypeOK, Sessions
    <2> QED BY <1>t, <2>1, <2>2, <2>3 DEF TypeOK
  <1>4. CASE then[x] = "answered"
    <2>1. pc' = [pc EXCEPT ![x] = "answered"] /\ then' = then /\ at' = at
      BY <1>4 DEF AfterScore, Goto
    <2>2. Placed'
      BY <1>t, <2>1 DEF Placed, TypeOK
    <2>3. Roles'
      BY <1>4, <1>t, <1>r, <1>s, <2>1 DEF Roles, TypeOK, Sessions
    <2> QED BY <1>t, <2>1, <2>2, <2>3 DEF TypeOK
  <1> QED
    BY <1>1, <1>2, <1>3, <1>4, <1>t DEF TypeOK

LEMMA ScoreBase ==
  ASSUME Base, NEW x \in Sessions, ReadAlerts(x) \/ Snapshot(x) \/ RefreshFails(x)
  PROVE  Base'
  <1>t. TypeOK /\ Placed /\ Roles
    BY DEF Base
  <1>1. CASE ReadAlerts(x)
    <2>1. /\ pc[x] = "score" /\ pc' = [pc EXCEPT ![x] = "snapshot"]
          /\ at' = at /\ then' = then
      BY <1>1 DEF ReadAlerts, Goto
    <2>2. read' \in [Sessions -> SUBSET Alerts]
      BY <1>1, <1>t, OpenType DEF ReadAlerts, TypeOK
    <2>3. expired' \in [Scans -> SUBSET Docs]
      <3>1. \/ x \in Scans /\ expired' = [expired EXCEPT ![x] = @ \ {at[x]}]
            \/ expired' = expired
        BY <1>1 DEF ReadAlerts
      <3> QED BY <1>t, <3>1 DEF TypeOK
    <2>4. pc' \in [Sessions -> PC]
      BY <1>t, <2>1 DEF TypeOK, PC
    <2>5. TypeOK'
      BY <1>1, <1>t, <2>1, <2>2, <2>3, <2>4
         DEF ReadAlerts, TypeOK, worldVars, tableVars, historyVars
    <2>6. Placed'
      BY <1>t, <2>1 DEF Placed, TypeOK
    <2>7. Roles'
      BY <1>t, <2>1 DEF Roles, TypeOK, Sessions
    <2> QED BY <2>5, <2>6, <2>7 DEF Base
  <1>2. CASE Snapshot(x)
    <2>1. pc[x] = "snapshot" /\ AfterScore(x)
      BY <1>2 DEF Snapshot
    <2>2. /\ pc' \in [Sessions -> PC]
          /\ then' \in [Sessions -> Then]
          /\ at' \in [Sessions -> Docs \cup {NoDoc}]
          /\ Placed' /\ Roles'
      BY <2>1, AfterScoreBase
    <2>3. at[x] \in Docs
      BY <2>1, AtDocument
    <2>4. lock' \in [Keys -> Scans \cup {NoScan}]
      BY <1>2, <1>t, UnlockType DEF Snapshot
    <2>5. /\ score' \in [Docs -> SUBSET Alerts]
          /\ lagging' \in SUBSET Docs
          /\ read' \in [Sessions -> SUBSET Alerts]
      BY <1>2, <1>t, <2>3 DEF Snapshot, TypeOK
    <2>6. TypeOK'
      BY <1>2, <1>t, <2>2, <2>4, <2>5 DEF Snapshot, TypeOK, worldVars, scanVars
    <2> QED BY <2>2, <2>6 DEF Base
  <1>3. CASE RefreshFails(x)
    <2>1. pc[x] \in {"score", "snapshot"}
      BY <1>3 DEF RefreshFails, Owes
    <2>2. /\ pc' \in [Sessions -> PC]
          /\ then' \in [Sessions -> Then]
          /\ at' \in [Sessions -> Docs \cup {NoDoc}]
          /\ expired' \in [Scans -> SUBSET Docs]
          /\ Placed' /\ Roles'
      <3>1. CASE x \in Scans
        <4>1. AfterScore(x) /\ expired' = [expired EXCEPT ![x] = Docs]
          BY <1>3, <3>1 DEF RefreshFails
        <4>2. expired' \in [Scans -> SUBSET Docs]
          BY <1>t, <4>1 DEF TypeOK
        <4> QED BY <2>1, <4>1, <4>2, AfterScoreBase
      <3>2. CASE x \notin Scans
        <4>1. /\ pc' = [pc EXCEPT ![x] = "error"]
              /\ expired' = expired /\ then' = then /\ at' = at
          BY <1>3, <3>2 DEF RefreshFails, Goto
        <4>2. Placed'
          BY <1>t, <2>1, <4>1 DEF Placed, TypeOK
        <4>3. Roles'
          BY <1>t, <2>1, <3>2, <4>1 DEF Roles, TypeOK, Sessions, RequestPC
        <4>4. pc' \in [Sessions -> PC]
          BY <1>t, <4>1 DEF TypeOK, PC, RequestPC
        <4> QED BY <1>t, <4>1, <4>2, <4>3, <4>4 DEF TypeOK
      <3> QED BY <3>1, <3>2
    <2>3. lagging' \in SUBSET Docs
      BY <1>3, CutOffType DEF RefreshFails
    <2>4. read' \in [Sessions -> SUBSET Alerts]
      BY <1>3, <1>t DEF RefreshFails, TypeOK
    <2>5. TypeOK'
      BY <1>3, <1>t, <2>2, <2>3, <2>4 DEF RefreshFails, TypeOK, worldVars, tableVars
    <2> QED BY <2>2, <2>5 DEF Base
  <1> QED BY <1>1, <1>2, <1>3

LEMMA StepBase == Base /\ [Next]_vars => Base'
  <1> SUFFICES ASSUME Base, [Next]_vars PROVE Base'
    OBVIOUS
  <1>t. TypeOK /\ Placed /\ Roles
    BY DEF Base
  <1>1. ASSUME NEW k \in Keys, Drift(k) PROVE Base'
    <2>1. world' \in SUBSET Keys /\ drifts' \in Nat
      BY <1>1, <1>t DEF Drift, TypeOK
    <2>2. TypeOK'
      BY <1>1, <1>t, <2>1 DEF Drift, TypeOK, tableVars, scanVars, historyVars
    <2>3. Placed' /\ Roles'
      BY <1>1, <1>t DEF Drift, Placed, Roles
    <2> QED BY <2>2, <2>3 DEF Base
  <1>2. ASSUME NEW d \in Docs, Delete(d) PROVE Base'
    <2>1. TypeOK'
      BY <1>2, <1>t DEF Delete, TypeOK, tableVars, scanVars, historyVars
    <2>2. Placed' /\ Roles'
      BY <1>2, <1>t DEF Delete, Placed, Roles
    <2> QED BY <2>1, <2>2 DEF Base
  <1>3. ASSUME UNCHANGED vars PROVE Base'
    <2>1. TypeOK'
      BY <1>3, <1>t DEF vars, TypeOK, worldVars, tableVars, scanVars, historyVars
    <2>2. Placed' /\ Roles'
      BY <1>3, <1>t DEF vars, Placed, Roles
    <2> QED BY <2>1, <2>2 DEF Base
  <1> QED BY <1>1, <1>2, <1>3, ScanBase, RequestBase, ScoreBase DEF Next

\* What each variable may hold, and that a resolved alert names its resolver.
THEOREM TypeCorrect == Spec => []TypeOK
  <1>1. Spec => []Base
    BY InitBase, StepBase, PTL DEF Spec
  <1>2. Base => TypeOK
    BY DEF Base
  <1> QED BY <1>1, <1>2, PTL

-------------------------------------------------------------------------------
(* What a session holds and knows of its document.                           *)

\* The drafts a scan still has to look up are of its document.
Drafting == \A s \in Scans : pc[s] = "persist" => left[s] \subseteq KeysOf(at[s])

\* A scan holds locks of its document only, and while it looks drafts up, locks
\* that come before what it has still to look up.
Locking ==
  \A s \in Scans, l \in Keys : lock[l] = s =>
    /\ DocOf[l] = at[s]
    /\ pc[s] = "persist" => \A k \in left[s] : Rank[l] < Rank[k]

\* What a scan is about to insert is locked by it and is not open.
Missing ==
  \A s \in Scans :
    /\ pc[s] # "persist" => missing[s] = {}
    /\ \A k \in missing[s] : lock[k] = s /\ ~HasOpen(k)

\* What a session is about to update are alerts of its document.
Reads ==
  \A x \in Sessions : pc[x] \in {"resolve", "loaded"} =>
    \A z \in read[x] : z[1] \in KeysOf(at[x])

Sessioned == Drafting /\ Locking /\ Missing /\ Reads

\* The inductive invariant.
Locked == Base /\ Sessioned /\ AtMostOneOpen

\* What every step but Evaluate and Probe does to the sessions: that of x ends
\* or keeps its work, gives locks back and takes none, and leaves the rest.
Quiet(x) ==
  /\ \A y \in Sessions : y # x =>
       at'[y] = at[y] /\ pc'[y] = pc[y] /\ read'[y] = read[y]
  /\ \A t \in Scans : t # x => left'[t] = left[t] /\ missing'[t] = missing[t]
  /\ \A l \in Keys : lock'[l] = lock[l] \/ (lock[l] = x /\ lock'[l] = NoScan)
  /\ \A k \in Keys : HasOpen(k)' => HasOpen(k) \/ (x \in Scans /\ k \in missing[x])
  /\ pc'[x] # "persist"
  /\ x \in Scans =>
       /\ missing'[x] = {}
       /\ at'[x] = at[x] \/ \A l \in Keys : lock[l] = x => lock'[l] = NoScan
  /\ pc'[x] \in {"resolve", "loaded"} =>
       \A z \in read'[x] : z[1] \in KeysOf(at'[x])

LEMMA QuietKeeps ==
  ASSUME Base, Sessioned, NEW x \in Sessions, Quiet(x)
  PROVE  Sessioned'
  <1>n. NoScan \notin Scans
    BY AlertScanAssumption
  <1>k. \A d : KeysOf(d)' = KeysOf(d)
    BY DEF KeysOf
  <1>s. Scans \subseteq Sessions
    BY DEF Sessions
  <1>1. Drafting'
    BY <1>s, <1>k DEF Sessioned, Drafting, Quiet
  <1>2. Locking'
    BY <1>s, <1>n DEF Sessioned, Locking, Quiet
  <1>3. Missing'
    <2> SUFFICES ASSUME NEW s \in Scans
                 PROVE  /\ pc'[s] # "persist" => missing'[s] = {}
                        /\ \A k \in missing'[s] : lock'[k] = s /\ ~HasOpen(k)'
      BY DEF Missing
    <2>1. CASE s = x
      BY <2>1 DEF Quiet
    <2>2. CASE s # x
      <3>1. pc'[s] = pc[s] /\ missing'[s] = missing[s]
        BY <1>s, <2>2 DEF Quiet
      <3>2. ASSUME NEW k \in missing[s] PROVE lock'[k] = s /\ ~HasOpen(k)'
        <4>1. k \in Keys /\ lock[k] = s /\ ~HasOpen(k)
          BY DEF Base, TypeOK, Sessioned, Missing
        <4>2. x \in Scans => k \notin missing[x]
          BY <2>2, <4>1 DEF Sessioned, Missing
        <4> QED BY <2>2, <4>1, <4>2 DEF Quiet
      <3> QED BY <3>1, <3>2 DEF Sessioned, Missing
    <2> QED BY <2>1, <2>2
  <1>4. Reads'
    BY <1>k DEF Sessioned, Reads, Quiet
  <1> QED BY <1>1, <1>2, <1>3, <1>4 DEF Sessioned

\* An UPDATE of resolved_at opens no alert.
LEMMA MarkedOpen ==
  ASSUME TypeOK, NEW S, NEW state \in RowState, state # "open", alert' = Marked(S, state)
  PROVE  /\ \A k \in Keys : HasOpen(k)' => HasOpen(k)
         /\ AtMostOneOpen => AtMostOneOpen'
  <1>t. alert \in Table
    BY DEF TypeOK, Table
  <1>1. \A k \in Keys :
          /\ DOMAIN alert'[k] = DOMAIN alert[k]
          /\ \A i \in DOMAIN alert[k] : alert'[k][i] = "open" => alert[k][i] = "open"
    <2> SUFFICES ASSUME NEW k \in Keys
                 PROVE  /\ DOMAIN alert'[k] = DOMAIN alert[k]
                        /\ \A i \in DOMAIN alert[k] :
                             alert'[k][i] = "open" => alert[k][i] = "open"
      OBVIOUS
    <2>1. /\ DOMAIN Marked(S, state)[k] = DOMAIN alert[k]
          /\ \A i \in DOMAIN alert[k] : Marked(S, state)[k][i] =
               IF <<k, i>> \in S THEN state ELSE alert[k][i]
      BY <1>t, MarkedRows
    <2> QED BY <2>1
  <1> QED BY <1>1 DEF HasOpen, AtMostOneOpen

LEMMA UnlockQuiet ==
  ASSUME TypeOK, NEW x, Unlock(x)
  PROVE  /\ \A l \in Keys : lock'[l] = lock[l] \/ (lock[l] = x /\ lock'[l] = NoScan)
         /\ \A l \in Keys : lock[l] = x => lock'[l] = NoScan
  BY DEF Unlock, TypeOK

LEMMA CloseQuiet ==
  ASSUME Base, NEW s \in Scans, NEW label \in {"list", "failed", "done"},
         Goto(s, label), Close(s), alert' = alert
  PROVE  Quiet(s)
  <1>s. s \in Sessions
    BY DEF Sessions
  <1>1. /\ \A y \in Sessions : y # s =>
             at'[y] = at[y] /\ pc'[y] = pc[y] /\ read'[y] = read[y]
        /\ pc'[s] = label
    BY <1>s DEF Base, TypeOK, Close, Goto
  <1>2. /\ \A t \in Scans : t # s => left'[t] = left[t] /\ missing'[t] = missing[t]
        /\ missing'[s] = {}
    BY DEF Base, TypeOK, Close
  <1>3. /\ \A l \in Keys : lock'[l] = lock[l] \/ (lock[l] = s /\ lock'[l] = NoScan)
        /\ \A l \in Keys : lock[l] = s => lock'[l] = NoScan
    BY UnlockQuiet DEF Base, Close
  <1>4. \A k \in Keys : HasOpen(k)' => HasOpen(k)
    BY alert' = alert DEF HasOpen
  <1> QED BY <1>1, <1>2, <1>3, <1>4 DEF Quiet

LEMMA AfterScoreQuiet ==
  ASSUME Base, NEW x \in Sessions, AfterScore(x)
  PROVE  /\ \A y \in Sessions : y # x =>
              at'[y] = at[y] /\ pc'[y] = pc[y] /\ then'[y] = then[y]
         /\ pc'[x] \in {"reconcile", "score", "evaluate", "answered"}
         /\ at'[x] = at[x] \/ then[x] = "next"
         /\ pc'[x] = "score" => then'[x] = "next"
  <1>t. then[x] \in Then
    BY DEF Base, TypeOK
  <1>1. CASE then[x] = "reconcile"
    BY <1>1 DEF AfterScore, Goto, Base, TypeOK
  <1>2. CASE then[x] = "final"
    BY <1>2 DEF AfterScore, Score, Goto, Base, TypeOK
  <1>3. CASE then[x] = "next"
    BY <1>3 DEF AfterScore, Goto, Base, TypeOK
  <1>4. CASE then[x] = "answered"
    BY <1>4 DEF AfterScore, Goto, Base, TypeOK
  <1> QED BY <1>1, <1>2, <1>3, <1>4, <1>t DEF Then

LEMMA StillKeeps ==
  ASSUME Sessioned, AtMostOneOpen,
         lock' = lock, pc' = pc, at' = at, left' = left, missing' = missing,
         read' = read, alert' = alert
  PROVE  Sessioned' /\ AtMostOneOpen'
  <1>2. Drafting' /\ Locking' /\ Missing' /\ Reads'
    <2>1. Drafting' /\ Reads'
      BY DEF Sessioned, Drafting, Reads, KeysOf
    <2>2. Locking'
      BY DEF Sessioned, Locking
    <2>3. Missing'
      <3> SUFFICES ASSUME NEW s \in Scans
                   PROVE  /\ pc'[s] # "persist" => missing'[s] = {}
                          /\ \A k \in missing'[s] : lock'[k] = s /\ ~HasOpen(k)'
        BY DEF Missing
      <3>1. ASSUME NEW k \in missing[s] PROVE ~HasOpen(k)'
        BY DEF Sessioned, Missing, HasOpen
      <3> QED BY <3>1 DEF Sessioned, Missing
    <2> QED BY <2>1, <2>2, <2>3
  <1> QED BY <1>2 DEF Sessioned, AtMostOneOpen

LEMMA EvaluateKeeps ==
  ASSUME Base, Sessioned, NEW s \in Scans, Evaluate(s)
  PROVE  Sessioned'
  <1>s. s \in Sessions /\ Scans \subseteq Sessions
    BY DEF Sessions
  <1>1. PICK d \in Docs :
          /\ at' = [at EXCEPT ![s] = d]
          /\ left' = [left EXCEPT ![s] = KeysOf(d) \cap world]
    BY DEF Evaluate, Base, TypeOK
  <1>2. /\ pc[s] = "evaluate" /\ pc' = [pc EXCEPT ![s] = "persist"]
        /\ lock' = lock /\ alert' = alert /\ missing' = missing /\ read' = read
    BY DEF Evaluate, Goto, tableVars
  <1>3. \A l \in Keys : lock[l] # s
    <2>1. at[s] = NoDoc /\ \A l \in Keys : DocOf[l] # NoDoc
      BY <1>s, <1>2, AlertScanAssumption DEF Base, Placed
    <2> QED BY <2>1 DEF Sessioned, Locking
  <1>5. \A x \in Sessions : x # s => at'[x] = at[x] /\ pc'[x] = pc[x]
    BY <1>1, <1>2 DEF Base, TypeOK
  <1>6. pc'[s] = "persist" /\ at'[s] = d /\ left'[s] \subseteq KeysOf(d)
    BY <1>1, <1>2, <1>s DEF Base, TypeOK
  <1>7. \A t \in Scans : t # s => left'[t] = left[t]
    BY <1>1 DEF Base, TypeOK
  <1>8. \A e : KeysOf(e)' = KeysOf(e)
    BY DEF KeysOf
  <1>9. Drafting'
    BY <1>s, <1>5, <1>6, <1>7, <1>8 DEF Sessioned, Drafting
  <1>10. Locking'
    BY <1>s, <1>2, <1>3, <1>5, <1>7 DEF Sessioned, Locking
  <1>11. Missing'
    <2> SUFFICES ASSUME NEW t \in Scans
                 PROVE  /\ pc'[t] # "persist" => missing'[t] = {}
                        /\ \A k \in missing'[t] : lock'[k] = t /\ ~HasOpen(k)'
      BY DEF Missing
    <2>2. ASSUME NEW k \in missing'[t] PROVE lock'[k] = t /\ ~HasOpen(k)'
      BY <1>2 DEF Sessioned, Missing, HasOpen
    <2>3. pc'[t] # "persist" => pc[t] # "persist"
      BY <1>s, <1>2, <1>5
    <2> QED BY <1>2, <2>2, <2>3 DEF Sessioned, Missing
  <1>12. Reads'
    BY <1>s, <1>2, <1>5, <1>6, <1>8 DEF Sessioned, Reads
  <1> QED BY <1>9, <1>10, <1>11, <1>12 DEF Sessioned

LEMMA ProbeKeeps ==
  ASSUME Base, Sessioned, NEW s \in Scans, Probe(s)
  PROVE  Sessioned'
  <1>s. s \in Sessions /\ Scans \subseteq Sessions /\ s # NoScan
    BY AlertScanAssumption DEF Sessions
  <1>1. PICK k \in left[s] :
          /\ First(k, left[s])
          /\ lock[k] = NoScan
          /\ lock' = [lock EXCEPT ![k] = s]
          /\ left' = [left EXCEPT ![s] = @ \ {k}]
          /\ missing' = [missing EXCEPT ![s] = IF HasOpen(k) THEN @ ELSE @ \cup {k}]
    BY Zenon DEF Probe
  <1>2. pc[s] = "persist" /\ pc' = pc /\ at' = at /\ alert' = alert /\ read' = read
    BY DEF Probe
  <1>3. k \in Keys /\ DocOf[k] = at[s] /\ left[s] \subseteq KeysOf(at[s])
    BY <1>1, <1>2 DEF Sessioned, Drafting, KeysOf
  <1>4. /\ lock'[k] = s /\ \A l \in Keys : l # k => lock'[l] = lock[l]
        /\ left'[s] = left[s] \ {k} /\ \A t \in Scans : t # s => left'[t] = left[t]
    BY <1>1, <1>3 DEF Base, TypeOK
  <1>5. /\ missing'[s] \subseteq missing[s] \cup {k}
        /\ HasOpen(k) => missing'[s] = missing[s]
        /\ \A t \in Scans : t # s => missing'[t] = missing[t]
    BY <1>1 DEF Base, TypeOK
  <1>6. \A l \in Keys : HasOpen(l)' <=> HasOpen(l)
    BY <1>2 DEF HasOpen
  <1>7. \A e : KeysOf(e)' = KeysOf(e)
    BY DEF KeysOf
  <1>8. Drafting'
    BY <1>2, <1>4, <1>7 DEF Sessioned, Drafting
  <1>9. Locking'
    <2> SUFFICES ASSUME NEW t \in Scans, NEW l \in Keys, lock'[l] = t
                 PROVE  /\ DocOf[l] = at'[t]
                        /\ pc'[t] = "persist" => \A m \in left'[t] : Rank[l] < Rank[m]
      BY DEF Locking
    <2>1. CASE l = k
      <3>1. t = s
        BY <1>4, <2>1
      <3>2. ASSUME NEW m \in left[s], m # k PROVE Rank[k] < Rank[m]
        <4>1. m \in Keys /\ DocOf[m] = DocOf[k]
          BY <1>3 DEF KeysOf
        <4>2. Rank[k] # Rank[m]
          <5>1. k \in Keys /\ DocOf[k] = DocOf[m] /\ k # m
            BY <1>3, <3>2, <4>1
          <5> QED BY <4>1, <5>1, Zenon, AlertScanAssumption
        <4>3. Rank[k] <= Rank[m]
          BY <1>1 DEF First
        <4>4. Rank[k] \in Nat /\ Rank[m] \in Nat
          BY <1>3, <4>1, AlertScanAssumption
        <4> QED BY <4>2, <4>3, <4>4
      <3> QED BY <1>2, <1>3, <1>4, <2>1, <3>1, <3>2
    <2>2. CASE l # k
      <3>1. lock[l] = t /\ left'[t] \subseteq left[t]
        BY <1>4, <2>2
      <3> QED BY <1>2, <3>1 DEF Sessioned, Locking
    <2> QED BY <2>1, <2>2
  <1>10. Missing'
    <2> SUFFICES ASSUME NEW t \in Scans
                 PROVE  /\ pc'[t] # "persist" => missing'[t] = {}
                        /\ \A l \in missing'[t] : lock'[l] = t /\ ~HasOpen(l)'
      BY DEF Missing
    <2>1. ASSUME NEW l \in missing[t] PROVE lock'[l] = t /\ ~HasOpen(l)'
      <3>1. l \in Keys /\ lock[l] = t /\ ~HasOpen(l)
        BY DEF Base, TypeOK, Sessioned, Missing
      <3>2. l # k
        BY <1>1, <3>1, AlertScanAssumption
      <3> QED BY <1>4, <1>6, <3>1, <3>2
    <2>2. CASE t = s
      <3>1. pc'[t] = "persist"
        BY <1>2, <2>2
      <3>2. ASSUME NEW l \in missing'[t] PROVE lock'[l] = t /\ ~HasOpen(l)'
        <4>1. CASE l \in missing[t]
          BY <2>1, <4>1
        <4>2. CASE l \notin missing[t]
          <5>1. l = k /\ ~HasOpen(k)
            BY <1>5, <2>2, <3>2, <4>2
          <5> QED BY <1>3, <1>4, <1>6, <2>2, <5>1
        <4> QED BY <4>1, <4>2
      <3> QED BY <3>1, <3>2
    <2>3. CASE t # s
      <3>1. missing'[t] = missing[t] /\ pc'[t] = pc[t]
        BY <1>2, <1>5, <2>3
      <3> QED BY <2>1, <3>1 DEF Sessioned, Missing
    <2> QED BY <2>2, <2>3
  <1>11. Reads'
    BY <1>2, <1>7 DEF Sessioned, Reads
  <1> QED BY <1>8, <1>9, <1>10, <1>11 DEF Sessioned

\* An INSERT opens the alerts that the scan found missing, and no other.
LEMMA InsertedOpen ==
  ASSUME TypeOK, NEW S, alert' = Inserted(S)
  PROVE  /\ \A k \in Keys : HasOpen(k)' => HasOpen(k) \/ k \in S
         /\ AtMostOneOpen /\ (\A k \in Keys : k \in S => ~HasOpen(k)) => AtMostOneOpen'
  <1>t. alert \in Table
    BY DEF TypeOK, Table
  <1>1. ASSUME NEW k \in Keys, k \notin S
        PROVE  alert'[k] = alert[k]
    <2>1. k \notin S => Inserted(S)[k] = alert[k]
      BY <1>t, InsertedRows
    <2> QED BY <1>1, <2>1
  <1>2. ASSUME NEW k \in Keys, k \in S, ~HasOpen(k),
               NEW i \in DOMAIN alert'[k], alert'[k][i] = "open"
        PROVE  i = Len(alert[k]) + 1
    <2>1. /\ DOMAIN alert'[k] = 1..(Len(alert[k]) + 1)
          /\ \A j \in DOMAIN alert[k] : alert'[k][j] = alert[k][j]
          /\ DOMAIN alert[k] = 1..Len(alert[k]) /\ Len(alert[k]) \in Nat
      <3>1. /\ k \in S => /\ DOMAIN Inserted(S)[k] = 1..(Len(alert[k]) + 1)
                          /\ Inserted(S)[k][Len(alert[k]) + 1] = "open"
                          /\ \A j \in DOMAIN alert[k] : Inserted(S)[k][j] = alert[k][j]
            /\ DOMAIN alert[k] = 1..Len(alert[k]) /\ Len(alert[k]) \in Nat
        BY <1>t, InsertedRows
      <3> QED BY <1>2, <3>1
    <2>2. i \notin DOMAIN alert[k]
      BY <1>2, <2>1 DEF HasOpen
    <2> QED BY <2>1, <2>2
  <1>3. \A k \in Keys : HasOpen(k)' => HasOpen(k) \/ k \in S
    BY <1>1 DEF HasOpen
  <1>4. ASSUME AtMostOneOpen, \A k \in Keys : k \in S => ~HasOpen(k)
        PROVE  AtMostOneOpen'
    <2> SUFFICES ASSUME NEW k \in Keys, NEW i \in DOMAIN alert'[k],
                        NEW j \in DOMAIN alert'[k],
                        alert'[k][i] = "open", alert'[k][j] = "open"
                 PROVE  i = j
      BY DEF AtMostOneOpen
    <2>1. CASE k \in S
      BY <1>2, <1>4, <2>1
    <2>2. CASE k \notin S
      BY <1>1, <1>4, <2>2 DEF AtMostOneOpen
    <2> QED BY <2>1, <2>2
  <1> QED BY <1>3, <1>4

LEMMA ScanKeeps ==
  ASSUME Locked, NEW s \in Scans,
         \/ List(s) \/ Evaluate(s) \/ Probe(s) \/ Insert(s) \/ NothingNew(s)
         \/ Reconcile(s) \/ Resolve(s) \/ Report(s) \/ Raise(s) \/ Crash(s)
  PROVE  Sessioned' /\ AtMostOneOpen'
  <1>s. s \in Sessions
    BY DEF Sessions
  <1>b. Base /\ TypeOK /\ Sessioned /\ AtMostOneOpen
    BY DEF Locked, Base
  <1>a. ASSUME alert' = alert
        PROVE  AtMostOneOpen' /\ \A k \in Keys : HasOpen(k)' => HasOpen(k)
    BY <1>a, <1>b DEF AtMostOneOpen, HasOpen
  <1>m. pc[s] # "persist" => missing[s] = {}
    BY <1>b DEF Sessioned, Missing
  <1>p. ASSUME NEW label, pc' = [pc EXCEPT ![s] = label]
        PROVE  pc'[s] = label /\ \A y \in Sessions : y # s => pc'[y] = pc[y]
    BY <1>s, <1>b, <1>p DEF TypeOK
  <1>r. ASSUME NEW S, read' = [read EXCEPT ![s] = S]
        PROVE  read'[s] = S /\ \A y \in Sessions : y # s => read'[y] = read[y]
    BY <1>s, <1>b, <1>r DEF TypeOK
  <1>1. CASE List(s)
    <2>1. pc' = [pc EXCEPT ![s] = "evaluate"] /\ missing[s] = {}
      BY <1>1, <1>m DEF List, Goto
    <2>2. /\ lock' = lock /\ at' = at /\ left' = left /\ missing' = missing
          /\ read' = read /\ alert' = alert
      BY <1>1 DEF List, tableVars
    <2>3. Quiet(s)
      BY <1>a, <1>p, <2>1, <2>2 DEF Quiet
    <2> QED BY <1>s, <1>b, <1>a, <2>2, <2>3, QuietKeeps
  <1>2. CASE Evaluate(s)
    <2>1. alert' = alert
      BY <1>2 DEF Evaluate, tableVars
    <2> QED BY <1>2, <1>b, <1>a, <2>1, EvaluateKeeps
  <1>3. CASE Probe(s)
    <2>1. alert' = alert
      BY <1>3 DEF Probe
    <2> QED BY <1>3, <1>b, <1>a, <2>1, ProbeKeeps
  <1>4. CASE Insert(s)
    <2>1. /\ pc' = [pc EXCEPT ![s] = "score"]
          /\ missing' = [missing EXCEPT ![s] = {}]
          /\ alert' = Inserted(missing[s])
          /\ at' = at /\ left' = left /\ read' = read /\ Unlock(s)
      BY <1>4 DEF Insert, Score, Goto
    <2>2. /\ missing'[s] = {} /\ \A t \in Scans : t # s => missing'[t] = missing[t]
      BY <1>b, <2>1 DEF TypeOK
    <2>3. /\ \A k \in Keys : HasOpen(k)' => HasOpen(k) \/ k \in missing[s]
          /\ AtMostOneOpen'
      <3>1. \A k \in Keys : k \in missing[s] => ~HasOpen(k)
        BY <1>b DEF Sessioned, Missing
      <3> QED BY <1>b, <2>1, <3>1, InsertedOpen
    <2>4. Quiet(s)
      <3>1. pc'[s] = "score" /\ \A y \in Sessions : y # s => pc'[y] = pc[y]
        BY <1>p, <2>1
      <3>2. \A l \in Keys : lock'[l] = lock[l] \/ (lock[l] = s /\ lock'[l] = NoScan)
        BY <1>b, <2>1, UnlockQuiet
      <3> QED BY <2>1, <2>2, <2>3, <3>1, <3>2 DEF Quiet
    <2> QED BY <1>s, <1>b, <2>3, <2>4, QuietKeeps
  <1>5. CASE NothingNew(s)
    <2>1. /\ pc' = [pc EXCEPT ![s] = "reconcile"] /\ missing[s] = {}
      BY <1>5 DEF NothingNew, Goto
    <2>2. /\ lock' = lock /\ at' = at /\ left' = left /\ missing' = missing
          /\ read' = read /\ alert' = alert
      BY <1>5 DEF NothingNew, tableVars, scanVars
    <2>3. Quiet(s)
      BY <1>a, <1>p, <2>1, <2>2 DEF Quiet
    <2> QED BY <1>s, <1>b, <1>a, <2>2, <2>3, QuietKeeps
  <1>6. CASE Reconcile(s)
    <2>1. PICK stale \in SUBSET OpenOf(at[s]) :
            /\ read' = [read EXCEPT ![s] = stale]
            /\ \/ Score(s, "next")
               \/ Goto(s, "resolve") /\ UNCHANGED then
      BY <1>6, ReconcileStep
    <2>2. /\ pc[s] = "reconcile"
          /\ UNCHANGED <<worldVars, tableVars, at, scanVars, notified, crashes,
                         historyVars>>
      BY <1>6, ReconcileStep
    <2>3. /\ lock' = lock /\ at' = at /\ left' = left /\ missing' = missing
          /\ alert' = alert /\ missing[s] = {}
      BY <1>m, <2>2 DEF tableVars, scanVars
    <2>4. PICK l \in {"score", "resolve"} : pc' = [pc EXCEPT ![s] = l]
      BY <2>1 DEF Score, Goto
    <2>5. \A z \in read'[s] : z[1] \in KeysOf(at'[s])
      <3>1. \A z \in OpenOf(at[s]) : z[1] \in KeysOf(at[s])
        BY <1>b, OpenType
      <3>2. read'[s] = stale /\ at'[s] = at[s]
        BY <1>r, <2>1, <2>3
      <3> QED BY <2>1, <3>1, <3>2
    <2>6. Quiet(s)
      <3>1. pc'[s] = l /\ \A y \in Sessions : y # s => pc'[y] = pc[y]
        BY <1>p, <2>4
      <3>2. \A y \in Sessions : y # s => read'[y] = read[y]
        BY <1>r, <2>1
      <3>3. \A k \in Keys : HasOpen(k)' => HasOpen(k)
        BY <1>a, <2>3
      <3> QED BY <2>3, <2>5, <3>1, <3>2, <3>3 DEF Quiet
    <2> QED BY <1>s, <1>b, <1>a, <2>3, <2>6, QuietKeeps
  <1>7. CASE Resolve(s)
    <2>1. /\ pc' = [pc EXCEPT ![s] = "score"] /\ missing[s] = {}
          /\ read' = [read EXCEPT ![s] = {}]
          /\ alert' = Marked(read[s], "resolved_by_scan")
          /\ Unlock(s)
      BY <1>7, <1>m DEF Resolve, Score, Goto
    <2>2. at' = at /\ left' = left /\ missing' = missing
      BY <1>7 DEF Resolve, scanVars
    <2>3. (\A k \in Keys : HasOpen(k)' => HasOpen(k)) /\ AtMostOneOpen'
      <3>1. "resolved_by_scan" \in RowState
        BY DEF RowState
      <3> QED BY <1>b, <2>1, <3>1, MarkedOpen
    <2>4. Quiet(s)
      <3>1. pc'[s] = "score" /\ \A y \in Sessions : y # s => pc'[y] = pc[y]
        BY <1>p, <2>1
      <3>2. \A y \in Sessions : y # s => read'[y] = read[y]
        BY <1>r, <2>1
      <3>3. \A l \in Keys : lock'[l] = lock[l] \/ (lock[l] = s /\ lock'[l] = NoScan)
        BY <1>b, <2>1, UnlockQuiet
      <3> QED BY <2>1, <2>2, <2>3, <3>1, <3>2, <3>3 DEF Quiet
    <2> QED BY <1>s, <1>b, <2>3, <2>4, QuietKeeps
  <1>8. CASE Report(s)
    <2>1. Goto(s, "done") /\ Close(s) /\ alert' = alert
      BY <1>8 DEF Report
    <2> QED BY <1>s, <1>b, <1>a, <2>1, CloseQuiet, QuietKeeps
  <1>9. CASE Raise(s)
    <2>1. Goto(s, "failed") /\ Close(s) /\ alert' = alert
      BY <1>9 DEF Raise
    <2> QED BY <1>s, <1>b, <1>a, <2>1, CloseQuiet, QuietKeeps
  <1>10. CASE Crash(s)
    <2>1. Goto(s, "list") /\ Close(s) /\ alert' = alert
      BY <1>10 DEF Crash
    <2> QED BY <1>s, <1>b, <1>a, <2>1, CloseQuiet, QuietKeeps
  <1> QED
    BY <1>1, <1>2, <1>3, <1>4, <1>5, <1>6, <1>7, <1>8, <1>9, <1>10

LEMMA RequestKeeps ==
  ASSUME Locked, NEW u \in Resolvers, Get(u) \/ Update(u) \/ RequestFails(u)
  PROVE  Sessioned' /\ AtMostOneOpen'
  <1>s. u \in Sessions /\ u \notin Scans
    BY AlertScanAssumption DEF Sessions
  <1>b. Base /\ TypeOK /\ Sessioned /\ AtMostOneOpen
    BY DEF Locked, Base
  <1>a. ASSUME alert' = alert
        PROVE  AtMostOneOpen' /\ \A k \in Keys : HasOpen(k)' => HasOpen(k)
    BY <1>a, <1>b DEF AtMostOneOpen, HasOpen
  <1>p. ASSUME NEW label, pc' = [pc EXCEPT ![u] = label]
        PROVE  pc'[u] = label /\ \A y \in Sessions : y # u => pc'[y] = pc[y]
    BY <1>s, <1>b, <1>p DEF TypeOK
  <1>1. CASE Get(u)
    <2>1. PICK k \in Keys : \E i \in DOMAIN alert[k] :
            /\ read' = [read EXCEPT ![u] = {<<k, i>>}]
            /\ at' = [at EXCEPT ![u] = DocOf[k]]
            /\ Goto(u, IF alert[k][i] = "open" THEN "loaded" ELSE "answered")
      BY <1>1 DEF Get
    <2>2. PICK i \in DOMAIN alert[k] :
            /\ read' = [read EXCEPT ![u] = {<<k, i>>}]
            /\ at' = [at EXCEPT ![u] = DocOf[k]]
            /\ Goto(u, IF alert[k][i] = "open" THEN "loaded" ELSE "answered")
      BY <2>1
    <2>3. PICK l \in {"loaded", "answered"} : pc' = [pc EXCEPT ![u] = l]
      BY <2>2 DEF Goto
    <2>4. lock' = lock /\ alert' = alert /\ left' = left /\ missing' = missing
      BY <1>1 DEF Get, tableVars, scanVars
    <2>5. /\ at'[u] = DocOf[k] /\ read'[u] = {<<k, i>>}
          /\ \A y \in Sessions : y # u => at'[y] = at[y] /\ read'[y] = read[y]
      BY <1>s, <1>b, <2>2 DEF TypeOK
    <2>6. \A z \in read'[u] : z[1] \in KeysOf(at'[u])
      BY <2>5 DEF KeysOf
    <2>7. Quiet(u)
      <3>1. pc'[u] = l /\ \A y \in Sessions : y # u => pc'[y] = pc[y]
        BY <1>p, <2>3
      <3>2. \A m \in Keys : HasOpen(m)' => HasOpen(m)
        BY <1>a, <2>4
      <3> QED BY <1>s, <2>4, <2>5, <2>6, <3>1, <3>2 DEF Quiet
    <2> QED BY <1>s, <1>b, <1>a, <2>4, <2>7, QuietKeeps
  <1>2. CASE Update(u)
    <2>1. PICK l \in {"score", "answered"} : pc' = [pc EXCEPT ![u] = l]
      BY <1>2 DEF Update, Score, Goto
    <2>2. alert' = alert \/ alert' = Marked(read[u], "resolved_by_api")
      BY <1>2 DEF Update
    <2>3. /\ lock' = lock /\ at' = at /\ left' = left /\ missing' = missing
          /\ read' = read
      BY <1>2 DEF Update, scanVars
    <2>4. (\A k \in Keys : HasOpen(k)' => HasOpen(k)) /\ AtMostOneOpen'
      <3>1. "resolved_by_api" \in RowState
        BY DEF RowState
      <3> QED BY <1>a, <1>b, <2>2, <3>1, MarkedOpen
    <2>5. Quiet(u)
      <3>1. pc'[u] = l /\ \A y \in Sessions : y # u => pc'[y] = pc[y]
        BY <1>p, <2>1
      <3> QED BY <1>s, <2>3, <2>4, <3>1 DEF Quiet
    <2> QED BY <1>s, <1>b, <2>4, <2>5, QuietKeeps
  <1>3. CASE RequestFails(u)
    <2>1. pc' = [pc EXCEPT ![u] = "error"]
      BY <1>3 DEF RequestFails, Goto
    <2>2. /\ lock' = lock /\ at' = at /\ left' = left /\ missing' = missing
          /\ read' = read /\ alert' = alert
      BY <1>3 DEF RequestFails, tableVars, scanVars
    <2>3. Quiet(u)
      <3>1. pc'[u] = "error" /\ \A y \in Sessions : y # u => pc'[y] = pc[y]
        BY <1>p, <2>1
      <3>2. \A m \in Keys : HasOpen(m)' => HasOpen(m)
        BY <1>a, <2>2
      <3> QED BY <1>s, <2>2, <3>1, <3>2 DEF Quiet
    <2> QED BY <1>s, <1>b, <1>a, <2>2, <2>3, QuietKeeps
  <1> QED BY <1>1, <1>2, <1>3

LEMMA ScoreKeeps ==
  ASSUME Locked, NEW x \in Sessions, ReadAlerts(x) \/ Snapshot(x) \/ RefreshFails(x)
  PROVE  Sessioned' /\ AtMostOneOpen'
  <1>b. Base /\ TypeOK /\ Sessioned /\ AtMostOneOpen
    BY DEF Locked, Base
  <1>1. alert' = alert /\ left' = left /\ missing' = missing
    BY DEF ReadAlerts, Snapshot, RefreshFails, tableVars, scanVars
  <1>2. AtMostOneOpen' /\ \A k \in Keys : HasOpen(k)' => HasOpen(k)
    BY <1>1, <1>b DEF AtMostOneOpen, HasOpen
  <1>3. PICK S : read' = [read EXCEPT ![x] = S]
    BY DEF ReadAlerts, Snapshot, RefreshFails
  <1>4. \A y \in Sessions : y # x => read'[y] = read[y]
    BY <1>3, <1>b DEF TypeOK
  <1>5. x \in Scans => missing'[x] = {}
    <2>1. pc[x] \in {"score", "snapshot"}
      BY DEF ReadAlerts, Snapshot, RefreshFails, Owes
    <2> QED BY <1>1, <1>b, <2>1 DEF Sessioned, Missing
  <1>6. ASSUME \A l \in Keys : lock'[l] = lock[l] \/ (lock[l] = x /\ lock'[l] = NoScan),
               \A y \in Sessions : y # x => at'[y] = at[y] /\ pc'[y] = pc[y],
               pc'[x] \notin {"persist", "resolve", "loaded"},
               at'[x] = at[x] \/ \A l \in Keys : lock[l] = x => lock'[l] = NoScan
        PROVE  Sessioned'
    <2>1. Quiet(x)
      BY <1>1, <1>2, <1>4, <1>5, <1>6 DEF Quiet
    <2> QED BY <1>b, <2>1, QuietKeeps
  <1>7. CASE ReadAlerts(x)
    <2>1. pc' = [pc EXCEPT ![x] = "snapshot"] /\ at' = at /\ lock' = lock
      BY <1>7 DEF ReadAlerts, Goto, tableVars
    <2>2. pc'[x] = "snapshot" /\ \A y \in Sessions : y # x => pc'[y] = pc[y]
      BY <1>b, <2>1 DEF TypeOK
    <2> QED BY <1>2, <1>6, <2>1, <2>2
  <1>8. CASE Snapshot(x)
    <2>1. AfterScore(x) /\ Unlock(x)
      BY <1>8 DEF Snapshot
    <2>2. /\ \A y \in Sessions : y # x => at'[y] = at[y] /\ pc'[y] = pc[y]
          /\ pc'[x] \in {"reconcile", "score", "evaluate", "answered"}
      BY <1>b, <2>1, AfterScoreQuiet
    <2>3. /\ \A l \in Keys : lock'[l] = lock[l] \/ (lock[l] = x /\ lock'[l] = NoScan)
          /\ \A l \in Keys : lock[l] = x => lock'[l] = NoScan
      BY <1>b, <2>1, UnlockQuiet
    <2> QED BY <1>2, <1>6, <2>2, <2>3
  <1>9. CASE RefreshFails(x)
    <2>1. lock' = lock /\ then[x] # "next"
      BY <1>9 DEF RefreshFails, Owes, tableVars
    <2>2. /\ \A y \in Sessions : y # x => at'[y] = at[y] /\ pc'[y] = pc[y]
          /\ pc'[x] \notin {"persist", "resolve", "loaded"}
          /\ at'[x] = at[x]
      <3>1. CASE x \in Scans
        <4>1. AfterScore(x)
          BY <1>9, <3>1 DEF RefreshFails
        <4> QED BY <1>b, <2>1, <4>1, AfterScoreQuiet
      <3>2. CASE x \notin Scans
        <4>1. pc' = [pc EXCEPT ![x] = "error"] /\ at' = at
          BY <1>9, <3>2 DEF RefreshFails, Goto
        <4> QED BY <1>b, <4>1 DEF TypeOK
      <3> QED BY <3>1, <3>2
    <2> QED BY <1>2, <1>6, <2>1, <2>2
  <1> QED BY <1>7, <1>8, <1>9

LEMMA InitLocked == Init => Locked
  <1> SUFFICES ASSUME Init PROVE Locked
    OBVIOUS
  <1>1. Base
    BY InitBase
  <1>2. AtMostOneOpen
    BY DEF Init, AtMostOneOpen
  <1>3. Drafting /\ Missing
    BY DEF Init, Drafting, Missing, Sessions
  <1>4. Locking
    BY AlertScanAssumption DEF Init, Locking
  <1>5. Reads
    BY DEF Init, Reads
  <1> QED BY <1>1, <1>2, <1>3, <1>4, <1>5 DEF Locked, Sessioned

LEMMA StepLocked == Locked /\ [Next]_vars => Locked'
  <1> SUFFICES ASSUME Locked, [Next]_vars PROVE Locked'
    OBVIOUS
  <1>b. Base /\ Sessioned /\ AtMostOneOpen
    BY DEF Locked
  <1>1. Base'
    BY <1>b, StepBase
  <1>2. ASSUME \/ \E k \in Keys : Drift(k)
               \/ \E d \in Docs : Delete(d)
               \/ UNCHANGED vars
        PROVE  Sessioned' /\ AtMostOneOpen'
    <2>1. /\ lock' = lock /\ pc' = pc /\ at' = at /\ left' = left
          /\ missing' = missing /\ read' = read /\ alert' = alert
      BY <1>2 DEF Drift, Delete, vars, tableVars, scanVars
    <2> QED BY <1>b, <2>1, StillKeeps
  <1>3. Sessioned' /\ AtMostOneOpen'
    BY <1>2, ScanKeeps, RequestKeeps, ScoreKeeps DEF Next
  <1> QED BY <1>1, <1>3 DEF Locked

\* In every reachable state what is to be inserted is locked and not open, and what
\* is to be resolved is of the session's document.
THEOREM Invariance == Spec => []Locked
  BY InitLocked, StepLocked, PTL DEF Spec

\* However many scans find a document's drift at the same time, crash and find it
\* again, and whatever users resolve meanwhile, one alert of a key is open: the
\* lookup holds the key's lock until the insert is committed.
THEOREM AlertsAreUnique == Spec => []AtMostOneOpen
  <1>1. Locked => AtMostOneOpen
    BY DEF Locked
  <1> QED BY <1>1, Invariance, PTL

\* The locks that persist_alerts takes and keeps never wait for each other in a
\* circle: a scan waits only for locks that come after all it holds.
THEOREM LocksAreOrdered == Spec => []LocksInOrder
  <1>1. ASSUME Locked PROVE LocksInOrder
    <2> SUFFICES ASSUME NEW s \in Scans, NEW k \in left[s], NEW l \in Keys,
                        pc[s] = "persist", lock[l] = s
                 PROVE  DocOf[l] = DocOf[k] /\ Rank[l] < Rank[k]
      BY DEF LocksInOrder
    <2>1. Drafting /\ Locking
      BY <1>1 DEF Locked, Sessioned
    <2>2. DocOf[k] = at[s]
      BY <2>1 DEF Drafting, KeysOf
    <2>3. DocOf[l] = at[s] /\ Rank[l] < Rank[k]
      BY <2>1 DEF Locking
    <2> QED BY <2>2, <2>3
  <1> QED BY <1>1, Invariance, PTL

\* the dedup key whose lock s asks for next
Awaited(s) == CHOOSE k \in left[s] : First(k, left[s])

\* The lock that a scan waits for comes before the one its holder waits for.
LEMMA HoldersAreLater ==
  ASSUME TypeOK, LocksInOrder, NEW s \in Scans, NEW t \in Scans, WaitsFor(s, t),
         NEW u, WaitsFor(t, u)
  PROVE  Rank[Awaited(s)] \in Nat /\ Rank[Awaited(t)] \in Nat
         /\ Rank[Awaited(s)] < Rank[Awaited(t)]
  <1>1. PICK k \in left[s] : First(k, left[s]) /\ lock[k] = t
    BY DEF WaitsFor
  <1>2. PICK l \in left[t] : First(l, left[t]) /\ lock[l] = u
    BY DEF WaitsFor
  <1>3. left[s] \subseteq Keys /\ left[t] \subseteq Keys
    BY DEF TypeOK
  <1>4. Awaited(s) \in left[s] /\ First(Awaited(s), left[s])
    BY <1>1, Zenon DEF Awaited
  <1>5. Awaited(t) \in left[t] /\ First(Awaited(t), left[t])
    BY <1>2, Zenon DEF Awaited
  <1>6. \A x \in Keys : Rank[x] \in Nat
    BY AlertScanAssumption
  <1>7. Rank[Awaited(s)] = Rank[k]
    BY <1>1, <1>3, <1>4, <1>6 DEF First
  <1>8. Rank[k] < Rank[Awaited(t)]
    BY <1>1, <1>3, <1>5 DEF LocksInOrder, WaitsFor
  <1> QED BY <1>3, <1>4, <1>5, <1>6, <1>7, <1>8

\* No scans ever wait for each other's advisory locks in a circle, nor one for a lock
\* it holds itself, however many there are and whatever they find: PostgreSQL never has
\* a deadlock of theirs to break.
THEOREM ScansNeverDeadlock == Spec => []NoDeadlock
  <1>1. ASSUME TypeOK, LocksInOrder PROVE NoDeadlock
    <2> SUFFICES ASSUME NEW S \in SUBSET Scans, IsFiniteSet(S), S # {},
                        \A s \in S : \E t \in S : WaitsFor(s, t)
                 PROVE  FALSE
      BY DEF NoDeadlock
    <2> DEFINE upTo(s) == {t \in S : Rank[Awaited(s)] <= Rank[Awaited(t)]}
               K == {upTo(s) : s \in S}
    <2>1. K \in SUBSET (SUBSET S) /\ K # {}
      OBVIOUS
    <2>2. PICK T \in K : \A U \in K : U \subseteq T => U = T
      <3> HIDE DEF K
      <3> QED BY <2>1, Smallest
    <2>3. PICK s \in S : T = upTo(s)
      BY <2>2
    <2>4. PICK t \in S : WaitsFor(s, t)
      OBVIOUS
    <2>5. \A x \in S : Rank[Awaited(x)] \in Nat
      <3> SUFFICES ASSUME NEW x \in S PROVE Rank[Awaited(x)] \in Nat
        OBVIOUS
      <3>1. PICK y \in S : WaitsFor(x, y)
        OBVIOUS
      <3>2. PICK z \in S : WaitsFor(y, z)
        OBVIOUS
      <3> QED BY <1>1, <3>1, <3>2, HoldersAreLater
    <2>6. Rank[Awaited(s)] < Rank[Awaited(t)]
      <3>1. PICK u \in S : WaitsFor(t, u)
        OBVIOUS
      <3> QED BY <1>1, <2>4, <3>1, HoldersAreLater
    <2>7. upTo(t) \subseteq upTo(s)
      BY <2>5, <2>6
    <2>8. s \in upTo(s) /\ s \notin upTo(t)
      BY <2>5, <2>6
    <2>9. upTo(t) \in K
      OBVIOUS
    <2> HIDE DEF upTo, K
    <2> QED BY <2>2, <2>3, <2>7, <2>8, <2>9
  <1> QED BY <1>1, TypeCorrect, LocksAreOrdered, PTL

-------------------------------------------------------------------------------
(* The scores.                                                               *)

\* What a step of x may do to the scores without leaving one out of date: it
\* keeps to the document that x is at, and of that one it leaves the alerts and
\* the score alone, or scores them, or still owes the score, or says it lags.
Scored(x) ==
  /\ \A y \in Sessions : y # x =>
       at'[y] = at[y] /\ pc'[y] = pc[y] /\ then'[y] = then[y]
  /\ \A d \in Docs : d # at[x] => OpenOf(d)' = OpenOf(d) /\ score'[d] = score[d]
  /\ \A d \in lagging : d # at[x] => d \in lagging'
  /\ \/ /\ ~Owes(x)
        /\ \A d \in Docs : OpenOf(d)' = OpenOf(d) /\ score'[d] = score[d]
        /\ lagging \subseteq lagging'
     \/ at'[x] = at[x] /\ Owes(x)'
     \/ at[x] \in lagging'
     \/ \A d \in Docs : d = at[x] => score'[d] = OpenOf(d)'

LEMMA ScoredKeeps ==
  ASSUME ScoreUpToDate, NEW x \in Sessions, Scored(x)
  PROVE  ScoreUpToDate'
  <1> SUFFICES ASSUME NEW d \in Docs, d \notin lagging',
                      \A y \in Sessions : at'[y] = d => ~Owes(y)'
               PROVE  score'[d] = OpenOf(d)'
    BY DEF ScoreUpToDate
  <1>o. \A y \in Sessions : y # x => (Owes(y)' <=> Owes(y))
    BY DEF Scored, Owes
  <1>1. CASE d # at[x]
    <2>1. d \notin lagging /\ OpenOf(d)' = OpenOf(d) /\ score'[d] = score[d]
      BY <1>1 DEF Scored
    <2>2. \A y \in Sessions : at[y] = d => ~Owes(y)
      BY <1>1, <1>o DEF Scored
    <2> QED BY <2>1, <2>2 DEF ScoreUpToDate
  <1>2. CASE d = at[x]
    <2>1. CASE ~Owes(x) /\ (\A e \in Docs : OpenOf(e)' = OpenOf(e) /\ score'[e] = score[e])
               /\ lagging \subseteq lagging'
      <3>1. \A y \in Sessions : at[y] = d => ~Owes(y)
        BY <1>o, <2>1 DEF Scored
      <3> QED BY <2>1, <3>1 DEF ScoreUpToDate
    <2>2. CASE at'[x] = at[x] /\ Owes(x)'
      BY <1>2, <2>2
    <2>3. CASE at[x] \in lagging'
      BY <1>2, <2>3
    <2>4. CASE \A e \in Docs : e = at[x] => score'[e] = OpenOf(e)'
      BY <1>2, <2>4
    <2> QED BY <2>1, <2>2, <2>3, <2>4 DEF Scored
  <1> QED BY <1>1, <1>2

\* The open alerts of a document change with the rows of its keys only.
LEMMA OpenSame ==
  ASSUME NEW d, \A k \in KeysOf(d) : alert'[k] = alert[k]
  PROVE  OpenOf(d)' = OpenOf(d)
  <1>1. KeysOf(d)' = KeysOf(d)
    BY DEF KeysOf
  <1>2. \A k \in KeysOf(d) :
          ({k} \X {i \in DOMAIN alert[k] : alert[k][i] = "open"})'
          = {k} \X {i \in DOMAIN alert[k] : alert[k][i] = "open"}
    OBVIOUS
  <1> QED BY <1>1, <1>2 DEF OpenOf

LEMMA OtherKeys ==
  ASSUME NEW d, NEW e, d # e, NEW k \in KeysOf(d)
  PROVE  k \in Keys /\ k \notin KeysOf(e)
  BY DEF KeysOf

LEMMA MarkedSame ==
  ASSUME TypeOK, NEW S, NEW state \in RowState, NEW e,
         \A z \in S : z[1] \in KeysOf(e), alert' = Marked(S, state), NEW d, d # e
  PROVE  OpenOf(d)' = OpenOf(d)
  <1>t. alert \in Table
    BY DEF TypeOK, Table
  <1>1. ASSUME NEW k \in KeysOf(d) PROVE alert'[k] = alert[k]
    <2>1. k \in Keys /\ k \notin KeysOf(e)
      BY OtherKeys
    <2>2. \A i : <<k, i>> \notin S
      <3>1. \A i : <<k, i>>[1] = k
        OBVIOUS
      <3> QED BY <2>1, <3>1
    <2>3. alert'[k] = [i \in DOMAIN alert[k] |-> alert[k][i]]
      BY <2>1, <2>2 DEF Marked
    <2>4. alert[k] = [i \in DOMAIN alert[k] |-> alert[k][i]]
      <3>1. alert[k] \in Seq(RowState)
        BY <1>t, <2>1 DEF Table
      <3>2. alert[k] \in [1..Len(alert[k]) -> RowState]
        BY <3>1, LenProperties
      <3> QED BY <3>2
    <2> QED BY <2>3, <2>4
  <1> QED BY <1>1, OpenSame

LEMMA InsertedSame ==
  ASSUME TypeOK, NEW S, NEW e, S \subseteq KeysOf(e), alert' = Inserted(S), NEW d, d # e
  PROVE  OpenOf(d)' = OpenOf(d)
  <1>1. ASSUME NEW k \in KeysOf(d) PROVE alert'[k] = alert[k]
    <2>1. k \in Keys /\ k \notin S
      BY OtherKeys
    <2> QED BY <2>1 DEF Inserted
  <1> QED BY <1>1, OpenSame

\* A step that changes neither alerts nor scores, of a session that owes none.
LEMMA ScoredQuietly ==
  ASSUME NEW x \in Sessions,
         \A y \in Sessions : y # x =>
           at'[y] = at[y] /\ pc'[y] = pc[y] /\ then'[y] = then[y],
         alert' = alert, score' = score, lagging' = lagging,
         ~Owes(x) \/ (at'[x] = at[x] /\ Owes(x)')
  PROVE  Scored(x)
  <1>1. \A d : OpenOf(d)' = OpenOf(d)
    BY OpenSame
  <1> QED BY <1>1 DEF Scored

\* A step that cuts x off in the middle of what it owes.
LEMMA ScoredCutOff ==
  ASSUME NEW x \in Sessions,
         \A y \in Sessions : y # x =>
           at'[y] = at[y] /\ pc'[y] = pc[y] /\ then'[y] = then[y],
         alert' = alert, score' = score, CutOff(x)
  PROVE  Scored(x)
  <1>1. \A d : OpenOf(d)' = OpenOf(d)
    BY OpenSame
  <1>2. CASE Owes(x)
    <2>1. lagging' = lagging \cup {at[x]}
      BY <1>2 DEF CutOff
    <2> QED BY <1>1, <2>1 DEF Scored
  <1>3. CASE ~Owes(x)
    <2>1. lagging' = lagging
      BY <1>3 DEF CutOff
    <2> QED BY <1>1, <1>3, <2>1 DEF Scored
  <1> QED BY <1>2, <1>3

LEMMA ScanScored ==
  ASSUME Locked, NEW s \in Scans,
         \/ List(s) \/ Evaluate(s) \/ Probe(s) \/ Insert(s) \/ NothingNew(s)
         \/ Reconcile(s) \/ Resolve(s) \/ Report(s) \/ Raise(s) \/ Crash(s)
  PROVE  Scored(s)
  <1>s. s \in Sessions
    BY DEF Sessions
  <1>b. Base /\ TypeOK /\ Sessioned
    BY DEF Locked, Base
  <1>p. ASSUME NEW label, Goto(s, label)
        PROVE  pc'[s] = label /\ \A y \in Sessions : y # s => pc'[y] = pc[y]
    BY <1>s, <1>b, <1>p DEF TypeOK, Goto
  <1>c. ASSUME Score(s, "reconcile") \/ Score(s, "final") \/ Score(s, "next")
        PROVE  /\ pc'[s] = "score"
               /\ Score(s, "reconcile") => then'[s] = "reconcile"
               /\ Score(s, "final") => then'[s] = "final"
               /\ \A y \in Sessions : y # s => pc'[y] = pc[y] /\ then'[y] = then[y]
    BY <1>s, <1>b, <1>c DEF TypeOK, Score, Goto
  <1>1. CASE List(s) \/ Probe(s) \/ NothingNew(s)
    <2>1. /\ pc[s] \in {"list", "persist"}
          /\ \/ Goto(s, "evaluate")
             \/ Goto(s, "reconcile")
             \/ pc' = pc
          /\ at' = at /\ then' = then /\ alert' = alert /\ score' = score
          /\ lagging' = lagging
      BY <1>1 DEF List, Probe, NothingNew, tableVars, historyVars
    <2>2. ~Owes(s)
      BY <2>1 DEF Owes
    <2>3. \A y \in Sessions : y # s => pc'[y] = pc[y]
      BY <1>p, <2>1
    <2> QED BY <1>s, <2>1, <2>2, <2>3, ScoredQuietly
  <1>2. CASE Evaluate(s)
    <2>1. PICK d : at' = [at EXCEPT ![s] = d]
      BY <1>2 DEF Evaluate
    <2>2. /\ pc[s] = "evaluate" /\ Goto(s, "persist")
          /\ then' = then /\ alert' = alert /\ score' = score /\ lagging' = lagging
      BY <1>2 DEF Evaluate, tableVars
    <2>3. ~Owes(s)
      BY <2>2 DEF Owes
    <2>4. \A y \in Sessions : y # s => pc'[y] = pc[y] /\ at'[y] = at[y]
      BY <1>p, <1>b, <2>1, <2>2 DEF TypeOK
    <2> QED BY <1>s, <2>2, <2>3, <2>4, ScoredQuietly
  <1>3. CASE Insert(s)
    <2>1. /\ pc[s] = "persist" /\ Score(s, "reconcile")
          /\ alert' = Inserted(missing[s])
          /\ at' = at /\ score' = score /\ lagging' = lagging
      BY <1>3 DEF Insert
    <2>2. missing[s] \subseteq KeysOf(at[s])
      BY <1>b DEF TypeOK, Sessioned, Missing, Locking, KeysOf
    <2>3. \A d : d # at[s] => OpenOf(d)' = OpenOf(d)
      BY <1>b, <2>1, <2>2, InsertedSame
    <2>4. Owes(s)'
      BY <1>c, <2>1 DEF Owes
    <2> QED BY <1>c, <2>1, <2>3, <2>4 DEF Scored
  <1>4. CASE Reconcile(s)
    <2>1. /\ pc[s] = "reconcile"
          /\ Score(s, "next") \/ (Goto(s, "resolve") /\ then' = then)
          /\ UNCHANGED <<worldVars, tableVars, at, scanVars, notified, crashes,
                         historyVars>>
      BY <1>4, ReconcileStep
    <2>2. at' = at /\ alert' = alert /\ score' = score /\ lagging' = lagging
      BY <2>1 DEF tableVars, historyVars
    <2>3. ~Owes(s)
      BY <2>1 DEF Owes
    <2>4. \A y \in Sessions : y # s => pc'[y] = pc[y] /\ then'[y] = then[y]
      BY <1>c, <1>p, <2>1
    <2> QED BY <1>s, <2>2, <2>3, <2>4, ScoredQuietly
  <1>5. CASE Resolve(s)
    <2>1. /\ pc[s] = "resolve" /\ Score(s, "final")
          /\ alert' = Marked(read[s], "resolved_by_scan")
          /\ at' = at /\ score' = score /\ lagging' = lagging
      BY <1>5 DEF Resolve
    <2>2. \A z \in read[s] : z[1] \in KeysOf(at[s])
      BY <1>s, <1>b, <2>1 DEF Sessioned, Reads
    <2>3. \A d : d # at[s] => OpenOf(d)' = OpenOf(d)
      <3>1. "resolved_by_scan" \in RowState
        BY DEF RowState
      <3> QED BY <1>b, <2>1, <2>2, <3>1, MarkedSame
    <2>4. Owes(s)'
      BY <1>c, <2>1 DEF Owes
    <2> QED BY <1>c, <2>1, <2>3, <2>4 DEF Scored
  <1>6. CASE Report(s)
    <2>1. /\ pc[s] = "evaluate" /\ Goto(s, "done") /\ Close(s)
          /\ then' = then /\ alert' = alert /\ score' = score /\ lagging' = lagging
      BY <1>6 DEF Report
    <2>2. ~Owes(s)
      BY <2>1 DEF Owes
    <2>3. \A y \in Sessions : y # s => pc'[y] = pc[y] /\ at'[y] = at[y]
      BY <1>p, <1>b, <2>1 DEF TypeOK, Close
    <2> QED BY <1>s, <2>1, <2>2, <2>3, ScoredQuietly
  <1>7. CASE Raise(s) \/ Crash(s)
    <2>1. /\ Goto(s, "failed") \/ Goto(s, "list")
          /\ Close(s) /\ CutOff(s)
          /\ then' = then /\ alert' = alert /\ score' = score
      BY <1>7 DEF Raise, Crash
    <2>2. \A y \in Sessions : y # s => pc'[y] = pc[y] /\ at'[y] = at[y]
      BY <1>p, <1>b, <2>1 DEF TypeOK, Close
    <2> QED BY <1>s, <2>1, <2>2, ScoredCutOff
  <1> QED BY <1>1, <1>2, <1>3, <1>4, <1>5, <1>6, <1>7

LEMMA RequestScored ==
  ASSUME Locked, NEW u \in Resolvers, Get(u) \/ Update(u) \/ RequestFails(u)
  PROVE  Scored(u)
  <1>s. u \in Sessions
    BY DEF Sessions
  <1>b. Base /\ TypeOK /\ Sessioned
    BY DEF Locked, Base
  <1>1. CASE Get(u)
    <2>1. PICK k \in Keys : \E i \in DOMAIN alert[k] :
            /\ at' = [at EXCEPT ![u] = DocOf[k]]
            /\ Goto(u, IF alert[k][i] = "open" THEN "loaded" ELSE "answered")
      BY <1>1 DEF Get
    <2>2. PICK l : pc' = [pc EXCEPT ![u] = l]
      BY <2>1 DEF Goto
    <2>3. /\ pc[u] = "idle" /\ then' = then /\ alert' = alert /\ score' = score
          /\ lagging' = lagging
      BY <1>1 DEF Get, tableVars, historyVars
    <2>4. \A y \in Sessions : y # u => pc'[y] = pc[y] /\ at'[y] = at[y]
      BY <1>b, <2>1, <2>2 DEF TypeOK
    <2>5. ~Owes(u)
      BY <2>3 DEF Owes
    <2> QED BY <1>s, <2>3, <2>4, <2>5, ScoredQuietly
  <1>2. CASE Update(u)
    <2>1. /\ pc[u] = "loaded" /\ at' = at /\ score' = score /\ lagging' = lagging
          /\ \/ alert' = Marked(read[u], "resolved_by_api") /\ Score(u, "answered")
             \/ Goto(u, "answered") /\ alert' = alert /\ then' = then
      BY <1>2 DEF Update, historyVars
    <2>2. \A y \in Sessions : y # u => pc'[y] = pc[y] /\ then'[y] = then[y]
      BY <1>b, <2>1 DEF TypeOK, Score, Goto
    <2>3. CASE alert' = Marked(read[u], "resolved_by_api") /\ Score(u, "answered")
      <3>1. \A z \in read[u] : z[1] \in KeysOf(at[u])
        BY <1>s, <1>b, <2>1 DEF Sessioned, Reads
      <3>2. \A d : d # at[u] => OpenOf(d)' = OpenOf(d)
        <4>1. "resolved_by_api" \in RowState
          BY DEF RowState
        <4> QED BY <1>b, <2>3, <3>1, <4>1, MarkedSame
      <3>3. Owes(u)'
        BY <1>s, <1>b, <2>3 DEF TypeOK, Score, Goto, Owes
      <3> QED BY <2>1, <2>2, <3>2, <3>3 DEF Scored
    <2>4. CASE alert' = alert
      <3>1. ~Owes(u)
        BY <2>1 DEF Owes
      <3> QED BY <1>s, <2>1, <2>2, <2>4, <3>1, ScoredQuietly
    <2> QED BY <2>1, <2>3, <2>4
  <1>3. CASE RequestFails(u)
    <2>1. /\ Goto(u, "error") /\ CutOff(u)
          /\ at' = at /\ then' = then /\ alert' = alert /\ score' = score
      BY <1>3 DEF RequestFails, tableVars
    <2>2. \A y \in Sessions : y # u => pc'[y] = pc[y]
      BY <1>b, <2>1 DEF TypeOK, Goto
    <2> QED BY <1>s, <2>1, <2>2, ScoredCutOff
  <1> QED BY <1>1, <1>2, <1>3

LEMMA ScoreScored ==
  ASSUME Locked, NEW x \in Sessions, ReadAlerts(x) \/ Snapshot(x) \/ RefreshFails(x)
  PROVE  Scored(x)
  <1>b. Base /\ TypeOK
    BY DEF Locked, Base
  <1>1. CASE ReadAlerts(x)
    <2>1. /\ pc[x] = "score" /\ Goto(x, "snapshot")
          /\ at' = at /\ then' = then /\ alert' = alert /\ score' = score
          /\ lagging' = lagging
      BY <1>1 DEF ReadAlerts, tableVars, historyVars
    <2>2. pc'[x] = "snapshot" /\ \A y \in Sessions : y # x => pc'[y] = pc[y]
      BY <1>b, <2>1 DEF TypeOK, Goto
    <2>3. Owes(x) => Owes(x)'
      BY <2>1, <2>2 DEF Owes
    <2> QED BY <2>1, <2>2, <2>3, ScoredQuietly
  <1>2. CASE Snapshot(x)
    <2>1. /\ AfterScore(x) /\ alert' = alert
          /\ score' = [score EXCEPT ![at[x]] = read[x]]
          /\ lagging' = IF read[x] = OpenOf(at[x]) THEN lagging \ {at[x]}
                                                   ELSE lagging \cup {at[x]}
      BY <1>2 DEF Snapshot
    <2>2. \A y \in Sessions : y # x => at'[y] = at[y] /\ pc'[y] = pc[y] /\ then'[y] = then[y]
      BY <1>b, <2>1, AfterScoreQuiet
    <2>3. \A d : OpenOf(d)' = OpenOf(d)
      BY <2>1, OpenSame
    <2>4. \A d \in Docs : d # at[x] => score'[d] = score[d]
      BY <1>b, <2>1 DEF TypeOK
    <2>5. \A d \in lagging : d # at[x] => d \in lagging'
      BY <2>1
    <2>6. CASE read[x] = OpenOf(at[x])
      <3>1. ASSUME NEW d \in Docs, d = at[x] PROVE score'[d] = OpenOf(d)'
        <4>1. score'[d] = OpenOf(d)
          BY <1>b, <2>1, <2>6, <3>1 DEF TypeOK
        <4> QED BY <2>3, <4>1
      <3> QED BY <2>2, <2>3, <2>4, <2>5, <3>1 DEF Scored
    <2>7. CASE read[x] # OpenOf(at[x])
      <3>1. at[x] \in lagging'
        BY <2>1, <2>7
      <3> QED BY <2>2, <2>3, <2>4, <2>5, <3>1 DEF Scored
    <2> QED BY <2>6, <2>7
  <1>3. CASE RefreshFails(x)
    <2>1. alert' = alert /\ score' = score /\ CutOff(x)
      BY <1>3 DEF RefreshFails, tableVars
    <2>2. \A y \in Sessions : y # x => at'[y] = at[y] /\ pc'[y] = pc[y] /\ then'[y] = then[y]
      <3>1. CASE x \in Scans
        BY <1>3, <1>b, <3>1, AfterScoreQuiet DEF RefreshFails
      <3>2. CASE x \notin Scans
        BY <1>3, <1>b, <3>2 DEF RefreshFails, Goto, TypeOK
      <3> QED BY <3>1, <3>2
    <2> QED BY <2>1, <2>2, ScoredCutOff
  <1> QED BY <1>1, <1>2, <1>3

\* A document's latest score deducts for its open alerts, whatever scans, requests
\* and failures came before, unless the score is still owed, or known to lag.
THEOREM ScoresFollowAlerts == Spec => []ScoreUpToDate
  <1>1. Init => ScoreUpToDate
    BY DEF Init, ScoreUpToDate, OpenOf, KeysOf
  <1>2. Locked /\ ScoreUpToDate /\ [Next]_vars => ScoreUpToDate'
    <2> SUFFICES ASSUME Locked, ScoreUpToDate, [Next]_vars PROVE ScoreUpToDate'
      OBVIOUS
    <2>1. ASSUME \/ \E k \in Keys : Drift(k)
                 \/ \E d \in Docs : Delete(d)
                 \/ UNCHANGED vars
          PROVE  ScoreUpToDate'
      <3>1. /\ pc' = pc /\ at' = at /\ then' = then /\ alert' = alert
            /\ score' = score /\ lagging' = lagging
        BY <2>1 DEF Drift, Delete, vars, tableVars, historyVars
      <3>2. \A d : OpenOf(d)' = OpenOf(d)
        BY <3>1, OpenSame
      <3> QED BY <3>1, <3>2 DEF ScoreUpToDate, Owes
    <2> QED BY <2>1, ScanScored, RequestScored, ScoreScored, ScoredKeeps
            DEF Next, Sessions
  <1> QED BY <1>1, <1>2, Invariance, PTL DEF Spec


-------------------------------------------------------------------------------
(* What a scan that nobody disturbs leaves open.                             *)

\* A finding that is an open alert, or was one until a user resolved it.
Raised(k) == HasOpen(k) \/ \E i \in DOMAIN alert[k] : alert[k][i] = "resolved_by_api"

Working == {"persist", "reconcile", "resolve", "score", "snapshot"}

\* What s has done with its drafts, and with the other alerts of the document, at
\* each of its steps.
Exact(s) ==
  /\ drafts[s] \subseteq KeysOf(at[s])
  /\ pc[s] = "persist" =>
       \A k \in drafts[s] : k \in left[s] \/ k \in missing[s] \/ Raised(k)
  /\ pc[s] # "persist" => \A k \in drafts[s] : Raised(k)
  /\ pc[s] = "resolve" =>
       /\ \A k \in KeysOf(at[s]) \ drafts[s] : \A i \in DOMAIN alert[k] :
            alert[k][i] = "open" => <<k, i>> \in read[s]
       /\ \A z \in read[s] : z[1] \notin drafts[s]
  /\ pc[s] \in {"score", "snapshot"} /\ then[s] # "reconcile" =>
       \A k \in KeysOf(at[s]) \ drafts[s] : ~HasOpen(k)

ExactUnlessDisturbed(s) == alone[s] /\ pc[s] \in Working => Exact(s)

ExactAlone == \A s \in Scans : ExactUnlessDisturbed(s)

\* A step leaves what the session of s knows.
Leaves(s) ==
  /\ pc'[s] = pc[s] /\ at'[s] = at[s] /\ then'[s] = then[s]
  /\ drafts'[s] = drafts[s] /\ left'[s] = left[s] /\ missing'[s] = missing[s]
  /\ read'[s] = read[s]
  /\ alone'[s] => alone[s]

\* A step opens no alert of k, and resolves none but for a user.
Spares(k) ==
  /\ \A i \in DOMAIN alert'[k] :
       alert'[k][i] = "open" => i \in DOMAIN alert[k] /\ alert[k][i] = "open"
  /\ Raised(k) => Raised(k)'

LEMMA SparedKeeps ==
  ASSUME NEW s \in Scans, ExactUnlessDisturbed(s), Leaves(s),
         alone'[s] => \A k \in KeysOf(at[s]) : Spares(k)
  PROVE  ExactUnlessDisturbed(s)'
  <1> SUFFICES ASSUME alone'[s], pc'[s] \in Working PROVE Exact(s)'
    BY DEF ExactUnlessDisturbed
  <1>1. alone[s] /\ pc[s] \in Working /\ Exact(s)
    BY DEF Leaves, ExactUnlessDisturbed
  <1>2. KeysOf(at[s])' = KeysOf(at[s])
    BY DEF KeysOf, Leaves
  <1>3. \A k \in KeysOf(at[s]) : (HasOpen(k)' => HasOpen(k)) /\ (Raised(k) => Raised(k)')
    BY Zenon DEF Spares, HasOpen
  <1>4. \A k \in KeysOf(at[s]) : \A i \in DOMAIN alert'[k] :
          alert'[k][i] = "open" => i \in DOMAIN alert[k] /\ alert[k][i] = "open"
    BY Zenon DEF Spares
  <1>5. /\ drafts'[s] \subseteq KeysOf(at[s])'
        /\ pc'[s] = "persist" =>
             \A k \in drafts'[s] : k \in left'[s] \/ k \in missing'[s] \/ Raised(k)'
        /\ pc'[s] # "persist" => \A k \in drafts'[s] : Raised(k)'
    BY <1>1, <1>2, <1>3 DEF Leaves, Exact
  <1>6. pc'[s] = "resolve" =>
          /\ \A k \in KeysOf(at[s])' \ drafts'[s] : \A i \in DOMAIN alert'[k] :
               alert'[k][i] = "open" => <<k, i>> \in read'[s]
          /\ \A z \in read'[s] : z[1] \notin drafts'[s]
    BY <1>1, <1>2, <1>4 DEF Leaves, Exact
  <1>7. pc'[s] \in {"score", "snapshot"} /\ then'[s] # "reconcile" =>
          \A k \in KeysOf(at[s])' \ drafts'[s] : ~HasOpen(k)'
    BY <1>1, <1>2, <1>3 DEF Leaves, Exact
  <1> QED BY <1>5, <1>6, <1>7, Zenon DEF Exact

LEMMA AllSpared ==
  ASSUME alert' = alert
  PROVE  /\ \A k : Spares(k)
         /\ \A k : (Raised(k)' <=> Raised(k)) /\ (HasOpen(k)' <=> HasOpen(k))
  BY Zenon DEF Spares, Raised, HasOpen

LEMMA InsertedRaises ==
  ASSUME TypeOK, NEW S, alert' = Inserted(S), NEW k \in Keys
  PROVE  /\ k \notin S => Spares(k)
         /\ k \in S \/ Raised(k) => Raised(k)'
  <1>t. alert \in Table
    BY DEF TypeOK, Table
  <1>1. /\ k \notin S => alert'[k] = alert[k]
        /\ k \in S => /\ DOMAIN alert'[k] = 1..(Len(alert[k]) + 1)
                      /\ alert'[k][Len(alert[k]) + 1] = "open"
        /\ Len(alert[k]) \in Nat
    BY <1>t, InsertedRows
  <1>2. CASE k \notin S
    BY <1>1, <1>2, Zenon DEF Spares, Raised, HasOpen
  <1>3. CASE k \in S
    <2>1. Len(alert[k]) + 1 \in DOMAIN alert'[k]
      BY <1>1, <1>3
    <2> QED BY <1>1, <1>3, <2>1, Zenon DEF Raised, HasOpen
  <1> QED BY <1>2, <1>3

LEMMA MarkedSpares ==
  ASSUME TypeOK, NEW S, NEW state \in RowState, state # "open",
         alert' = Marked(S, state), NEW k \in Keys,
         state = "resolved_by_api" \/ \A i \in DOMAIN alert[k] : <<k, i>> \notin S
  PROVE  Spares(k)
  <1>t. alert \in Table
    BY DEF TypeOK, Table
  <1>1. /\ DOMAIN alert'[k] = DOMAIN alert[k]
        /\ \A i \in DOMAIN alert[k] :
             alert'[k][i] = IF <<k, i>> \in S THEN state ELSE alert[k][i]
    BY <1>t, MarkedRows
  <1>2. CASE state = "resolved_by_api"
    <2>1. ASSUME Raised(k) PROVE Raised(k)'
      <3>1. PICK i \in DOMAIN alert[k] : alert[k][i] \in {"open", "resolved_by_api"}
        BY <2>1 DEF Raised, HasOpen
      <3>2. alert'[k][i] \in {"open", "resolved_by_api"} /\ i \in DOMAIN alert'[k]
        BY <1>1, <1>2, <3>1
      <3> QED BY <3>2 DEF Raised, HasOpen
    <2> QED BY <1>1, <2>1 DEF Spares
  <1>3. CASE \A i \in DOMAIN alert[k] : <<k, i>> \notin S
    <2>1. \A i \in DOMAIN alert[k] : alert'[k][i] = alert[k][i]
      BY <1>1, <1>3
    <2> QED BY <1>1, <2>1, Zenon DEF Spares, Raised, HasOpen
  <1> QED BY <1>2, <1>3

\* A step of x leaves what the other sessions know.
Aside(x) == \A s \in Scans : s # x => Leaves(s)

LEMMA ExactWithoutWrite ==
  ASSUME ExactAlone, NEW x \in Sessions, Aside(x), alert' = alert,
         x \in Scans => ExactUnlessDisturbed(x)'
  PROVE  ExactAlone'
  <1>1. ASSUME NEW s \in Scans, s # x PROVE ExactUnlessDisturbed(s)'
    <2>1. \A k : Spares(k)
      BY AllSpared
    <2> QED BY <1>1, <2>1, SparedKeeps, Zenon DEF Aside, ExactAlone
  <1> QED BY <1>1 DEF ExactAlone

\* A step that leaves all that the sessions know but one value each of x.
LEMMA OneAside ==
  ASSUME TypeOK, NEW x,
         pc' = pc \/ \E v : pc' = [pc EXCEPT ![x] = v],
         at' = at \/ \E v : at' = [at EXCEPT ![x] = v],
         then' = then \/ \E v : then' = [then EXCEPT ![x] = v],
         drafts' = drafts \/ \E v : drafts' = [drafts EXCEPT ![x] = v],
         left' = left \/ \E v : left' = [left EXCEPT ![x] = v],
         missing' = missing \/ \E v : missing' = [missing EXCEPT ![x] = v],
         read' = read \/ \E v : read' = [read EXCEPT ![x] = v],
         \/ alone' = alone
         \/ \E v : alone' = [alone EXCEPT ![x] = v]
         \/ x \in Scans /\ Disturb(x)
  PROVE  Aside(x)
  <1> SUFFICES ASSUME NEW s \in Scans, s # x PROVE Leaves(s)
    BY DEF Aside
  <1>s. s \in Sessions
    BY DEF Sessions
  <1>1. pc'[s] = pc[s] /\ at'[s] = at[s] /\ then'[s] = then[s]
    BY <1>s DEF TypeOK
  <1>2. drafts'[s] = drafts[s] /\ left'[s] = left[s] /\ missing'[s] = missing[s]
    BY DEF TypeOK
  <1>3. read'[s] = read[s]
    BY <1>s DEF TypeOK
  <1>4. alone'[s] => alone[s]
    BY DEF TypeOK, Disturb
  <1> QED BY <1>1, <1>2, <1>3, <1>4 DEF Leaves

LEMMA ScanExact ==
  ASSUME Locked, ExactAlone, NEW s \in Scans,
         \/ List(s) \/ Evaluate(s) \/ Probe(s) \/ Insert(s) \/ NothingNew(s)
         \/ Reconcile(s) \/ Resolve(s) \/ Report(s) \/ Raise(s) \/ Crash(s)
  PROVE  ExactAlone'
  <1>s. s \in Sessions
    BY DEF Sessions
  <1>b. Base /\ TypeOK /\ Sessioned
    BY DEF Locked, Base
  <1>k. \A d : KeysOf(d)' = KeysOf(d)
    BY DEF KeysOf
  <1>x. ExactUnlessDisturbed(s)
    BY DEF ExactAlone
  <1>p. ASSUME NEW label, Goto(s, label)
        PROVE  pc'[s] = label /\ \E v : pc' = [pc EXCEPT ![s] = v]
    BY <1>s, <1>b, <1>p DEF TypeOK, Goto
  <1>c. ASSUME NEW label, Score(s, label)
        PROVE  /\ pc'[s] = "score" /\ then'[s] = label
               /\ \E v : pc' = [pc EXCEPT ![s] = v]
               /\ \E v : then' = [then EXCEPT ![s] = v]
    BY <1>s, <1>b, <1>c DEF TypeOK, Score, Goto
  <1>i. ASSUME pc'[s] \notin Working
        PROVE  ExactUnlessDisturbed(s)'
    BY <1>i DEF ExactUnlessDisturbed
  <1>1. CASE List(s)
    <2>1. /\ Goto(s, "evaluate") /\ alert' = alert
          /\ at' = at /\ then' = then /\ drafts' = drafts /\ left' = left
          /\ missing' = missing /\ read' = read /\ alone' = alone
      BY <1>1 DEF List, tableVars, historyVars
    <2>2. pc'[s] = "evaluate" /\ Aside(s)
      BY <1>p, <1>b, <2>1, OneAside
    <2> QED BY <1>s, <1>i, <2>1, <2>2, ExactWithoutWrite DEF Working
  <1>2. CASE Evaluate(s)
    <2>1. PICK d \in todo[s] :
            /\ at' = [at EXCEPT ![s] = d]
            /\ drafts' = [drafts EXCEPT ![s] = KeysOf(d) \cap world]
            /\ left' = [left EXCEPT ![s] = KeysOf(d) \cap world]
      BY <1>2 DEF Evaluate
    <2>2. /\ Goto(s, "persist") /\ alert' = alert
          /\ then' = then /\ missing' = missing /\ read' = read
          /\ alone' = [alone EXCEPT ![s] = TRUE]
      BY <1>2 DEF Evaluate, tableVars
    <2>3. pc'[s] = "persist" /\ Aside(s)
      BY <1>p, <1>b, <2>1, <2>2, OneAside
    <2>4. at'[s] = d /\ drafts'[s] \subseteq KeysOf(d) /\ left'[s] = drafts'[s]
      BY <1>s, <1>b, <2>1 DEF TypeOK
    <2>5. ExactUnlessDisturbed(s)'
      BY <1>k, <2>3, <2>4 DEF ExactUnlessDisturbed, Exact
    <2> QED BY <1>s, <2>2, <2>3, <2>5, ExactWithoutWrite
  <1>3. CASE Probe(s)
    <2>1. PICK k \in left[s] :
            /\ left' = [left EXCEPT ![s] = @ \ {k}]
            /\ missing' = [missing EXCEPT ![s] = IF HasOpen(k) THEN @ ELSE @ \cup {k}]
      BY <1>3 DEF Probe
    <2>2. /\ pc[s] = "persist" /\ alert' = alert
          /\ pc' = pc /\ at' = at /\ then' = then /\ drafts' = drafts
          /\ read' = read /\ alone' = alone
      BY <1>3 DEF Probe, historyVars
    <2>3. Aside(s)
      BY <1>b, <2>1, <2>2, OneAside
    <2>4. /\ left'[s] = left[s] \ {k}
          /\ missing'[s] = IF HasOpen(k) THEN missing[s] ELSE missing[s] \cup {k}
      BY <1>b, <2>1 DEF TypeOK
    <2>5. \A l : Raised(l)' <=> Raised(l)
      BY <2>2, AllSpared
    <2>6. HasOpen(k) => Raised(k)
      BY DEF Raised
    <2>7. ASSUME alone[s], Exact(s) PROVE Exact(s)'
      <3>1. \A l \in drafts[s] : l \in left'[s] \/ l \in missing'[s] \/ Raised(l)'
        BY <2>2, <2>4, <2>5, <2>6, <2>7 DEF Exact
      <3> QED BY <1>k, <2>2, <2>7, <3>1 DEF Exact
    <2>8. ExactUnlessDisturbed(s)'
      BY <1>x, <2>2, <2>7 DEF ExactUnlessDisturbed, Working
    <2> QED BY <1>s, <2>2, <2>3, <2>8, ExactWithoutWrite
  <1>4. CASE Insert(s)
    <2>1. /\ pc[s] = "persist" /\ left[s] = {} /\ alert' = Inserted(missing[s])
          /\ missing' = [missing EXCEPT ![s] = {}]
          /\ Score(s, "reconcile") /\ Disturb(s)
          /\ at' = at /\ drafts' = drafts /\ left' = left /\ read' = read
      BY <1>4 DEF Insert
    <2>2. pc'[s] = "score" /\ then'[s] = "reconcile" /\ Aside(s)
      BY <1>c, <1>b, <2>1, OneAside
    <2>3. missing[s] \subseteq KeysOf(at[s])
      BY <1>b DEF TypeOK, Sessioned, Missing, Locking, KeysOf
    <2>4. ASSUME NEW t \in Scans, t # s PROVE ExactUnlessDisturbed(t)'
      <3>1. alone'[t] => at[t] # at[s]
        BY <2>1, <2>4 DEF Disturb
      <3>2. ASSUME alone'[t], NEW k \in KeysOf(at[t]) PROVE Spares(k)
        <4>1. k \in Keys /\ k \notin missing[s]
          BY <2>3, <3>1, <3>2 DEF KeysOf
        <4> QED BY <1>b, <2>1, <4>1, InsertedRaises
      <3> QED BY <2>2, <2>4, <3>2, SparedKeeps, Zenon DEF Aside, ExactAlone
    <2>5. ExactUnlessDisturbed(s)'
      <3>1. alone'[s] => alone[s]
        BY <2>1 DEF Disturb
      <3>2. ASSUME Exact(s) PROVE Exact(s)'
        <4>1. drafts'[s] = drafts[s] /\ at'[s] = at[s]
          BY <2>1
        <4>2. ASSUME NEW k \in drafts[s] PROVE Raised(k)'
          <5>1. k \in Keys /\ (k \in missing[s] \/ Raised(k))
            BY <1>b, <2>1, <3>2 DEF Exact, TypeOK
          <5> QED BY <1>b, <2>1, <5>1, InsertedRaises
        <4> QED BY <1>k, <2>2, <3>2, <4>1, <4>2 DEF Exact
      <3> QED BY <1>x, <2>1, <3>1, <3>2 DEF ExactUnlessDisturbed, Working
    <2> QED BY <2>4, <2>5 DEF ExactAlone
  <1>5. CASE NothingNew(s)
    <2>1. /\ pc[s] = "persist" /\ left[s] = {} /\ missing[s] = {}
          /\ Goto(s, "reconcile") /\ alert' = alert
          /\ at' = at /\ then' = then /\ drafts' = drafts /\ left' = left
          /\ missing' = missing /\ read' = read /\ alone' = alone
      BY <1>5 DEF NothingNew, tableVars, scanVars, historyVars
    <2>2. pc'[s] = "reconcile" /\ Aside(s)
      BY <1>p, <1>b, <2>1, OneAside
    <2>3. \A l : Raised(l)' <=> Raised(l)
      BY <2>1, AllSpared
    <2>4. Exact(s) => Exact(s)'
      BY <1>k, <2>1, <2>2, <2>3 DEF Exact
    <2>5. ExactUnlessDisturbed(s)'
      BY <1>x, <2>1, <2>4 DEF ExactUnlessDisturbed, Working
    <2> QED BY <1>s, <2>1, <2>2, <2>5, ExactWithoutWrite
  <1>6. CASE Reconcile(s)
    <2>1. PICK stale :
            /\ stale = {a \in OpenOf(at[s]) : a[1] \notin drafts[s]}
            /\ read' = [read EXCEPT ![s] = stale]
            /\ \/ stale = {} /\ Score(s, "next")
               \/ Goto(s, "resolve") /\ then' = then
      BY <1>6 DEF Reconcile
    <2>2. /\ pc[s] = "reconcile" /\ alert' = alert
          /\ at' = at /\ drafts' = drafts /\ left' = left
          /\ missing' = missing /\ alone' = alone
      BY <1>6 DEF Reconcile, tableVars, scanVars, historyVars
    <2>3. /\ Aside(s) /\ read'[s] = stale
          /\ \/ stale = {} /\ pc'[s] = "score"
             \/ pc'[s] = "resolve"
      BY <1>c, <1>p, <1>s, <1>b, <2>1, <2>2, OneAside DEF TypeOK
    <2>4. \A l : (Raised(l)' <=> Raised(l)) /\ (HasOpen(l)' <=> HasOpen(l))
      BY <2>2, AllSpared
    <2>5. \A k \in KeysOf(at[s]) \ drafts[s] : \A i \in DOMAIN alert[k] :
            alert[k][i] = "open" => <<k, i>> \in stale
      BY <1>b, <2>1, OpenType
    <2>6. \A z \in stale : z[1] \notin drafts[s]
      BY <2>1
    <2>7. stale = {} => \A k \in KeysOf(at[s]) \ drafts[s] : ~HasOpen(k)
      BY <2>5 DEF HasOpen
    <2>8. ASSUME Exact(s) PROVE Exact(s)'
      <3>1. /\ drafts'[s] \subseteq KeysOf(at'[s])
            /\ \A k \in drafts'[s] : Raised(k)'
        BY <2>2, <2>4, <2>8 DEF Exact
      <3>2. CASE stale = {} /\ pc'[s] = "score"
        BY <1>k, <2>2, <2>4, <2>7, <3>1, <3>2 DEF Exact
      <3>3. CASE pc'[s] = "resolve"
        BY <1>k, <2>2, <2>3, <2>5, <2>6, <3>1, <3>3 DEF Exact
      <3> QED BY <2>3, <3>2, <3>3
    <2>9. ExactUnlessDisturbed(s)'
      BY <1>x, <2>2, <2>8 DEF ExactUnlessDisturbed, Working
    <2> QED BY <1>s, <2>2, <2>3, <2>9, ExactWithoutWrite
  <1>7. CASE Resolve(s)
    <2>1. /\ pc[s] = "resolve" /\ alert' = Marked(read[s], "resolved_by_scan")
          /\ Score(s, "final") /\ Disturb(s)
          /\ read' = [read EXCEPT ![s] = {}]
          /\ at' = at /\ drafts' = drafts /\ left' = left /\ missing' = missing
      BY <1>7 DEF Resolve, scanVars
    <2>2. pc'[s] = "score" /\ then'[s] = "final" /\ Aside(s)
      BY <1>c, <1>b, <2>1, OneAside
    <2>3. \A z \in read[s] : z[1] \in KeysOf(at[s])
      BY <1>s, <1>b, <2>1 DEF Sessioned, Reads
    <2>r. "resolved_by_scan" \in RowState /\ "resolved_by_scan" # "open"
      BY DEF RowState
    <2>4. ASSUME NEW k \in Keys, \A z \in read[s] : z[1] # k PROVE Spares(k)
      <3>1. \A i \in DOMAIN alert[k] : <<k, i>> \notin read[s]
        BY <2>4
      <3> QED BY <1>b, <2>1, <2>r, <3>1, MarkedSpares
    <2>5. ASSUME NEW t \in Scans, t # s PROVE ExactUnlessDisturbed(t)'
      <3>1. alone'[t] => at[t] # at[s]
        BY <2>1, <2>5 DEF Disturb
      <3>2. ASSUME alone'[t], NEW k \in KeysOf(at[t]) PROVE Spares(k)
        BY <2>3, <2>4, <3>1, <3>2 DEF KeysOf
      <3> QED BY <2>2, <2>5, <3>2, SparedKeeps, Zenon DEF Aside, ExactAlone
    <2>6. ExactUnlessDisturbed(s)'
      <3>1. alone'[s] => alone[s]
        BY <2>1 DEF Disturb
      <3>2. ASSUME Exact(s) PROVE Exact(s)'
        <4>1. drafts'[s] = drafts[s] /\ at'[s] = at[s]
          BY <2>1
        <4>2. ASSUME NEW k \in drafts[s] PROVE Raised(k)'
          <5>1. k \in Keys /\ Raised(k) /\ \A z \in read[s] : z[1] # k
            BY <1>b, <2>1, <3>2 DEF Exact, TypeOK
          <5>2. Spares(k)
            BY <2>4, <5>1
          <5> QED BY <5>1, <5>2 DEF Spares
        <4>3. ASSUME NEW k \in KeysOf(at[s]) \ drafts[s] PROVE ~HasOpen(k)'
          <5>t. alert \in Table /\ k \in Keys
            BY <1>b DEF TypeOK, Table, KeysOf
          <5>1. /\ DOMAIN alert'[k] = DOMAIN alert[k]
                /\ \A i \in DOMAIN alert[k] : alert'[k][i] =
                     IF <<k, i>> \in read[s] THEN "resolved_by_scan" ELSE alert[k][i]
            BY <5>t, <2>1, <2>r, MarkedRows
          <5>2. \A i \in DOMAIN alert[k] : alert[k][i] = "open" => <<k, i>> \in read[s]
            BY <2>1, <3>2 DEF Exact
          <5> QED BY <5>1, <5>2, <2>r DEF HasOpen
        <4> QED BY <1>k, <2>2, <3>2, <4>1, <4>2, <4>3 DEF Exact
      <3> QED BY <1>x, <2>1, <3>1, <3>2 DEF ExactUnlessDisturbed, Working
    <2> QED BY <2>5, <2>6 DEF ExactAlone
  <1>8. CASE Report(s) \/ Raise(s) \/ Crash(s)
    <2>1. /\ Goto(s, "done") \/ Goto(s, "failed") \/ Goto(s, "list")
          /\ Close(s) /\ alert' = alert /\ then' = then
      BY <1>8 DEF Report, Raise, Crash
    <2>2. pc'[s] \in {"done", "failed", "list"} /\ \E v : pc' = [pc EXCEPT ![s] = v]
      BY <1>p, <2>1
    <2>3. Aside(s)
      BY <1>b, <2>1, <2>2, OneAside DEF Close
    <2> QED BY <1>s, <1>i, <2>1, <2>2, <2>3, ExactWithoutWrite DEF Working
  <1> QED BY <1>1, <1>2, <1>3, <1>4, <1>5, <1>6, <1>7, <1>8

LEMMA RequestExact ==
  ASSUME Locked, ExactAlone, NEW u \in Resolvers, Get(u) \/ Update(u) \/ RequestFails(u)
  PROVE  ExactAlone'
  <1>s. u \in Sessions /\ u \notin Scans
    BY AlertScanAssumption DEF Sessions
  <1>b. Base /\ TypeOK
    BY DEF Locked, Base
  <1>1. CASE Get(u)
    <2>1. /\ \E v : read' = [read EXCEPT ![u] = v]
          /\ \E v : at' = [at EXCEPT ![u] = v]
          /\ \E v : pc' = [pc EXCEPT ![u] = v]
      BY <1>1 DEF Get, Goto
    <2>2. /\ alert' = alert /\ then' = then /\ drafts' = drafts /\ left' = left
          /\ missing' = missing /\ alone' = alone
      BY <1>1 DEF Get, tableVars, scanVars, historyVars
    <2>3. Aside(u)
      BY <1>b, <2>1, <2>2, OneAside
    <2> QED BY <1>s, <2>2, <2>3, ExactWithoutWrite
  <1>2. CASE Update(u)
    <2>1. /\ at' = at /\ drafts' = drafts /\ left' = left /\ missing' = missing
          /\ read' = read /\ alone' = alone
          /\ \E v : pc' = [pc EXCEPT ![u] = v]
          /\ then' = then \/ \E v : then' = [then EXCEPT ![u] = v]
      BY <1>2 DEF Update, Score, Goto, scanVars, historyVars
    <2>2. Aside(u)
      BY <1>b, <2>1, OneAside
    <2>3. alert' = alert \/ alert' = Marked(read[u], "resolved_by_api")
      BY <1>2 DEF Update
    <2>4. CASE alert' = alert
      BY <1>s, <2>2, <2>4, ExactWithoutWrite
    <2>5. CASE alert' = Marked(read[u], "resolved_by_api")
      <3>1. ASSUME NEW k \in Keys PROVE Spares(k)
        <4>1. "resolved_by_api" \in RowState /\ "resolved_by_api" # "open"
          BY DEF RowState
        <4> QED BY <1>b, <2>5, <4>1, MarkedSpares
      <3>2. ASSUME NEW t \in Scans PROVE ExactUnlessDisturbed(t)'
        <4>1. \A k \in KeysOf(at[t]) : Spares(k)
          BY <3>1 DEF KeysOf
        <4> QED BY <1>s, <2>2, <4>1, SparedKeeps DEF Aside, ExactAlone
      <3> QED BY <3>2 DEF ExactAlone
    <2> QED BY <2>3, <2>4, <2>5
  <1>3. CASE RequestFails(u)
    <2>1. /\ alert' = alert /\ at' = at /\ then' = then /\ drafts' = drafts
          /\ left' = left /\ missing' = missing /\ read' = read /\ alone' = alone
          /\ \E v : pc' = [pc EXCEPT ![u] = v]
      BY <1>3 DEF RequestFails, Goto, tableVars, scanVars
    <2>2. Aside(u)
      BY <1>b, <2>1, OneAside
    <2> QED BY <1>s, <2>1, <2>2, ExactWithoutWrite
  <1> QED BY <1>1, <1>2, <1>3

\* Where AfterScore leaves a scan that had raised its drafts, and may have resolved
\* the rest.
LEMMA AfterScoreExact ==
  ASSUME Base, NEW s \in Scans, AfterScore(s), pc[s] \in {"score", "snapshot"},
         ExactUnlessDisturbed(s), alert' = alert, drafts' = drafts, left' = left,
         missing' = missing, alone' = alone
  PROVE  ExactUnlessDisturbed(s)'
  <1>s. s \in Sessions
    BY DEF Sessions
  <1>k. \A d : KeysOf(d)' = KeysOf(d)
    BY DEF KeysOf
  <1>r. \A l : (Raised(l)' <=> Raised(l)) /\ (HasOpen(l)' <=> HasOpen(l))
    BY AllSpared
  <1>t. then[s] \in {"reconcile", "final", "next"}
    BY <1>s DEF Base, TypeOK, Roles, Then
  <1>1. CASE then[s] = "reconcile"
    <2>1. pc'[s] = "reconcile" /\ at'[s] = at[s]
      BY <1>s, <1>1 DEF AfterScore, Goto, Base, TypeOK
    <2>2. Exact(s) => Exact(s)'
      BY <1>k, <1>r, <2>1 DEF Exact
    <2> QED BY <2>2 DEF ExactUnlessDisturbed, Working
  <1>2. CASE then[s] = "final"
    <2>1. pc'[s] = "score" /\ at'[s] = at[s]
      BY <1>s, <1>2 DEF AfterScore, Score, Goto, Base, TypeOK
    <2>2. Exact(s) => Exact(s)'
      BY <1>k, <1>r, <1>2, <2>1 DEF Exact
    <2> QED BY <2>2 DEF ExactUnlessDisturbed, Working
  <1>3. CASE then[s] = "next"
    <2>1. pc'[s] = "evaluate"
      BY <1>s, <1>3 DEF AfterScore, Goto, Base, TypeOK
    <2> QED BY <2>1 DEF ExactUnlessDisturbed, Working
  <1> QED BY <1>t, <1>1, <1>2, <1>3

LEMMA AfterScoreAside ==
  ASSUME TypeOK, NEW x \in Sessions, AfterScore(x)
  PROVE  /\ pc' = pc \/ \E v : pc' = [pc EXCEPT ![x] = v]
         /\ at' = at \/ \E v : at' = [at EXCEPT ![x] = v]
         /\ then' = then \/ \E v : then' = [then EXCEPT ![x] = v]
  <1>t. then[x] \in Then
    BY DEF TypeOK
  <1>1. CASE then[x] = "reconcile"
    BY <1>1 DEF AfterScore, Goto
  <1>2. CASE then[x] = "final"
    BY <1>2 DEF AfterScore, Score, Goto
  <1>3. CASE then[x] = "next"
    BY <1>3 DEF AfterScore, Goto
  <1>4. CASE then[x] = "answered"
    BY <1>4 DEF AfterScore, Goto
  <1> QED BY <1>1, <1>2, <1>3, <1>4, <1>t DEF Then

LEMMA ScoreExact ==
  ASSUME Locked, ExactAlone, NEW x \in Sessions,
         ReadAlerts(x) \/ Snapshot(x) \/ RefreshFails(x)
  PROVE  ExactAlone'
  <1>b. Base /\ TypeOK
    BY DEF Locked, Base
  <1>x. x \in Scans => ExactUnlessDisturbed(x)
    BY DEF ExactAlone
  <1>1. /\ alert' = alert /\ drafts' = drafts /\ left' = left /\ missing' = missing
        /\ alone' = alone
        /\ \E v : read' = [read EXCEPT ![x] = v]
        /\ pc[x] \in {"score", "snapshot"}
    BY DEF ReadAlerts, Snapshot, RefreshFails, Owes, tableVars, scanVars, historyVars
  <1>2. CASE ReadAlerts(x)
    <2>1. /\ Goto(x, "snapshot") /\ pc[x] = "score"
          /\ at' = at /\ then' = then
      BY <1>2 DEF ReadAlerts
    <2>2. pc'[x] = "snapshot"
      BY <1>b, <2>1 DEF TypeOK, Goto
    <2>3. Aside(x)
      BY <1>b, <1>1, <2>1, OneAside DEF Goto
    <2>4. \A l : (Raised(l)' <=> Raised(l)) /\ (HasOpen(l)' <=> HasOpen(l))
      BY <1>1, AllSpared
    <2>5. \A d : KeysOf(d)' = KeysOf(d)
      BY DEF KeysOf
    <2>6. x \in Scans /\ Exact(x) => Exact(x)'
      BY <1>1, <2>1, <2>2, <2>4, <2>5 DEF Exact
    <2>7. x \in Scans => ExactUnlessDisturbed(x)'
      BY <1>x, <1>1, <2>6 DEF ExactUnlessDisturbed, Working
    <2> QED BY <1>1, <2>3, <2>7, ExactWithoutWrite
  <1>3. CASE AfterScore(x)
    <2>1. Aside(x)
      BY <1>b, <1>1, <1>3, AfterScoreAside, OneAside
    <2>2. x \in Scans => ExactUnlessDisturbed(x)'
      BY <1>b, <1>x, <1>1, <1>3, AfterScoreExact
    <2> QED BY <1>1, <2>1, <2>2, ExactWithoutWrite
  <1>4. CASE x \notin Scans /\ Goto(x, "error") /\ UNCHANGED <<expired, then, at>>
    <2>1. Aside(x)
      BY <1>b, <1>1, <1>4, OneAside DEF Goto
    <2> QED BY <1>1, <1>4, <2>1, ExactWithoutWrite
  <1> QED BY <1>2, <1>3, <1>4 DEF Snapshot, RefreshFails

\* After a scan of a document that no other scan disturbed, its open alerts are
\* those the rules raised, but for what users have resolved since.
THEOREM UndisturbedScansAreExact == Spec => []ScanIsExact
  <1>1. Init => ExactAlone
    BY DEF Init, ExactAlone, ExactUnlessDisturbed
  <1>2. Locked /\ ExactAlone /\ [Next]_vars => ExactAlone'
    <2> SUFFICES ASSUME Locked, ExactAlone, [Next]_vars PROVE ExactAlone'
      OBVIOUS
    <2>1. ASSUME \/ \E k \in Keys : Drift(k)
                 \/ \E d \in Docs : Delete(d)
                 \/ UNCHANGED vars
          PROVE  ExactAlone'
      <3>1. /\ pc' = pc /\ at' = at /\ then' = then /\ alert' = alert
            /\ drafts' = drafts /\ left' = left /\ missing' = missing
            /\ read' = read /\ alone' = alone
        BY <2>1 DEF Drift, Delete, vars, tableVars, scanVars, historyVars
      <3>2. \A s \in Scans : Leaves(s)
        BY <3>1 DEF Leaves
      <3>3. \A k : Spares(k)
        BY <3>1, AllSpared
      <3> QED BY <3>2, <3>3, SparedKeeps DEF ExactAlone
    <2> QED BY <2>1, ScanExact, RequestExact, ScoreExact DEF Next
  <1>3. Locked /\ ExactAlone => ScanIsExact
    <2> SUFFICES ASSUME Locked, ExactAlone, NEW s \in Scans,
                        alone[s], pc[s] \in {"score", "snapshot"}, then[s] = "next",
                        NEW k \in KeysOf(at[s])
                 PROVE  /\ HasOpen(k) => k \in drafts[s]
                        /\ k \in drafts[s] => Raised(k)
      BY DEF ScanIsExact, Raised
    <2>1. Exact(s)
      BY DEF ExactAlone, ExactUnlessDisturbed, Working
    <2> QED BY <2>1 DEF Exact
  <1> QED BY <1>1, <1>2, <1>3, Invariance, PTL DEF Spec

-------------------------------------------------------------------------------
(* That no alert is forgotten when nothing fails.                            *)

Known(k, i) == <<k, i>> \in notified \/ \E s \in Scans : <<k, i>> \in created[s]

\* No worker died and no scan failed.
Unbroken == crashes = 0 /\ \A s \in Scans : pc[s] # "failed"

Counted ==
  /\ \A s \in Scans : pc[s] = "done" => created[s] = {}
  /\ Unbroken => \A k \in Keys : \A i \in DOMAIN alert[k] : Known(k, i)

LEMMA CountedKeeps ==
  ASSUME TypeOK, Counted, NEW x \in Sessions,
         \A s \in Scans : s # x => pc'[s] = pc[s] /\ created'[s] = created[s],
         x \in Scans => /\ pc[x] # "failed"
                        /\ pc'[x] = "done" => created'[x] = {},
         notified \subseteq notified',
         Unbroken' =>
           /\ crashes' = crashes
           /\ x \in Scans => created[x] \subseteq created'[x] \cup notified'
           /\ \A k \in Keys : \A i \in DOMAIN alert'[k] :
                i \in DOMAIN alert[k] \/ (x \in Scans /\ <<k, i>> \in created'[x])
  PROVE  Counted'
  <1>1. \A s \in Scans : pc'[s] = "done" => created'[s] = {}
    BY DEF Counted
  <1>2. ASSUME Unbroken', NEW k \in Keys, NEW i \in DOMAIN alert'[k] PROVE Known(k, i)'
    <2>1. Unbroken
      BY <1>2 DEF Unbroken
    <2>2. CASE i \in DOMAIN alert[k]
      <3>1. CASE <<k, i>> \in notified
        BY <3>1 DEF Known
      <3>2. ASSUME NEW s \in Scans, <<k, i>> \in created[s] PROVE Known(k, i)'
        <4>1. <<k, i>> \in created'[s] \/ <<k, i>> \in notified'
          BY <1>2, <3>2
        <4> QED BY <4>1 DEF Known
      <3> QED BY <2>1, <2>2, <3>1, <3>2 DEF Counted, Known
    <2>3. CASE x \in Scans /\ <<k, i>> \in created'[x]
      BY <2>3 DEF Known
    <2> QED BY <1>2, <2>2, <2>3
  <1> QED BY <1>1, <1>2 DEF Counted

\* No row is taken from the table, and none is added but by an INSERT.
LEMMA RowsStay ==
  ASSUME TypeOK, NEW S, NEW state \in RowState,
         alert' = alert \/ alert' = Marked(S, state), NEW k \in Keys
  PROVE  DOMAIN alert'[k] = DOMAIN alert[k]
  <1>1. alert \in Table
    BY DEF TypeOK, Table
  <1> QED BY <1>1, MarkedRows

\* A step of x that inserts and reports nothing.
LEMMA CountedQuietly ==
  ASSUME TypeOK, Counted, NEW x \in Sessions,
         \A s \in Scans : s # x => pc'[s] = pc[s],
         x \in Scans => pc[x] # "failed" /\ pc'[x] # "done",
         created' = created, notified' = notified, crashes' = crashes,
         \A k \in Keys : DOMAIN alert'[k] = DOMAIN alert[k]
  PROVE  Counted'
  BY CountedKeeps

LEMMA ScanCounted ==
  ASSUME Locked, Counted, NEW s \in Scans,
         \/ List(s) \/ Evaluate(s) \/ Probe(s) \/ Insert(s) \/ NothingNew(s)
         \/ Reconcile(s) \/ Resolve(s) \/ Report(s) \/ Raise(s) \/ Crash(s)
  PROVE  Counted'
  <1>s. s \in Sessions
    BY DEF Sessions
  <1>b. TypeOK
    BY DEF Locked, Base
  <1>p. ASSUME NEW label, pc' = [pc EXCEPT ![s] = label]
        PROVE  pc'[s] = label /\ \A t \in Scans : t # s => pc'[t] = pc[t]
    BY <1>s, <1>b, <1>p DEF TypeOK
  <1>c. ASSUME NEW S, created' = [created EXCEPT ![s] = S]
        PROVE  created'[s] = S /\ \A t \in Scans : t # s => created'[t] = created[t]
    BY <1>b, <1>c DEF TypeOK
  <1>1. CASE \/ List(s) \/ Evaluate(s) \/ Probe(s) \/ NothingNew(s) \/ Reconcile(s)
             \/ Resolve(s)
    <2>1. /\ pc[s] \in {"list", "evaluate", "persist", "reconcile", "resolve"}
          /\ created' = created /\ notified' = notified /\ crashes' = crashes
          /\ alert' = alert \/ alert' = Marked(read[s], "resolved_by_scan")
      BY <1>1 DEF List, Evaluate, Probe, NothingNew, Reconcile, Resolve, tableVars, scanVars
    <2>2. \/ pc' = pc
          \/ \E v \in {"evaluate", "persist", "reconcile", "resolve", "score"} :
               pc' = [pc EXCEPT ![s] = v]
      BY <1>1 DEF List, Evaluate, Probe, NothingNew, Reconcile, Resolve, Score, Goto
    <2>3. pc'[s] # "done" /\ \A t \in Scans : t # s => pc'[t] = pc[t]
      BY <1>p, <2>1, <2>2
    <2>4. \A k \in Keys : DOMAIN alert'[k] = DOMAIN alert[k]
      BY <1>b, <2>1, RowsStay DEF RowState
    <2> QED BY <1>s, <1>b, <2>1, <2>3, <2>4, CountedQuietly
  <1>2. CASE Insert(s)
    <2>1. PICK S : /\ S = {<<k, Len(alert[k]) + 1>> : k \in missing[s]}
                   /\ created' = [created EXCEPT ![s] = @ \cup S]
      BY <1>2 DEF Insert
    <2>2. /\ pc[s] = "persist" /\ pc' = [pc EXCEPT ![s] = "score"]
          /\ alert' = Inserted(missing[s])
          /\ notified' = notified /\ crashes' = crashes
      BY <1>2 DEF Insert, Score, Goto
    <2>3. pc'[s] = "score" /\ \A t \in Scans : t # s => pc'[t] = pc[t]
      BY <1>p, <2>2
    <2>4. created'[s] = created[s] \cup S /\ \A t \in Scans : t # s => created'[t] = created[t]
      BY <1>b, <2>1 DEF TypeOK
    <2>5. ASSUME NEW k \in Keys, NEW i \in DOMAIN alert'[k]
          PROVE  i \in DOMAIN alert[k] \/ <<k, i>> \in S
      <3>t. alert \in Table
        BY <1>b DEF TypeOK, Table
      <3>1. /\ k \notin missing[s] => alert'[k] = alert[k]
            /\ k \in missing[s] => DOMAIN alert'[k] = 1..(Len(alert[k]) + 1)
            /\ DOMAIN alert[k] = 1..Len(alert[k]) /\ Len(alert[k]) \in Nat
        BY <3>t, <2>2, InsertedRows
      <3>2. CASE k \in missing[s]
        <4>1. i \in 1..Len(alert[k]) \/ i = Len(alert[k]) + 1
          BY <2>5, <3>1, <3>2
        <4> QED BY <2>1, <3>1, <3>2, <4>1
      <3> QED BY <2>5, <3>1, <3>2
    <2> QED BY <1>s, <1>b, <2>2, <2>3, <2>4, <2>5, CountedKeeps
  <1>3. CASE Report(s) \/ Raise(s) \/ Crash(s)
    <2>1. /\ pc[s] \notin {"failed", "done"} /\ created' = [created EXCEPT ![s] = {}]
          /\ alert' = alert
      BY <1>3 DEF Report, Raise, Crash, Close
    <2>2. created'[s] = {} /\ \A t \in Scans : t # s => created'[t] = created[t]
      BY <1>c, <2>1
    <2>3. CASE Report(s)
      <3>1. /\ notified' = notified \cup created[s] /\ crashes' = crashes
            /\ pc' = [pc EXCEPT ![s] = "done"]
        BY <2>3 DEF Report, Goto
      <3>2. \A t \in Scans : t # s => pc'[t] = pc[t]
        BY <1>p, <3>1
      <3> QED BY <1>s, <1>b, <2>1, <2>2, <3>1, <3>2, CountedKeeps
    <2>4. CASE Raise(s) \/ Crash(s)
      <3>1. /\ notified' = notified
            /\ \/ pc' = [pc EXCEPT ![s] = "failed"]
               \/ pc' = [pc EXCEPT ![s] = "list"] /\ crashes' = crashes + 1
        BY <2>4 DEF Raise, Crash, Goto
      <3>2. \A t \in Scans : t # s => pc'[t] = pc[t]
        BY <1>p, <3>1
      <3>3. pc'[s] = "failed" \/ crashes' # 0
        <4>1. CASE pc' = [pc EXCEPT ![s] = "failed"]
          BY <1>p, <4>1
        <4>2. CASE crashes' = crashes + 1
          <5>1. crashes \in Nat
            BY <1>b DEF TypeOK
          <5> QED BY <4>2, <5>1
        <4> QED BY <3>1, <4>1, <4>2
      <3>4. ~Unbroken'
        BY <3>3 DEF Unbroken
      <3>5. \A t \in Scans : pc'[t] = "done" => created'[t] = {}
        BY <2>2, <3>2 DEF Counted
      <3> QED BY <3>4, <3>5 DEF Counted
    <2> QED BY <1>3, <2>3, <2>4
  <1> QED BY <1>1, <1>2, <1>3

LEMMA OthersCounted ==
  ASSUME Locked, Counted, NEW x \in Sessions,
         \/ x \in Resolvers /\ (Get(x) \/ Update(x) \/ RequestFails(x))
         \/ ReadAlerts(x) \/ Snapshot(x) \/ RefreshFails(x)
  PROVE  Counted'
  <1>b. Base /\ TypeOK
    BY DEF Locked, Base
  <1>1. created' = created /\ notified' = notified /\ crashes' = crashes
    BY DEF Get, Update, RequestFails, ReadAlerts, Snapshot, RefreshFails, scanVars
  <1>2. \A k \in Keys : DOMAIN alert'[k] = DOMAIN alert[k]
    <2>1. alert' = alert \/ alert' = Marked(read[x], "resolved_by_api")
      BY DEF Get, Update, RequestFails, ReadAlerts, Snapshot, RefreshFails, tableVars
    <2> QED BY <1>b, <2>1, RowsStay DEF RowState
  <1>3. CASE x \in Resolvers /\ (Get(x) \/ Update(x) \/ RequestFails(x))
    <2>1. x \notin Scans
      BY <1>3, AlertScanAssumption
    <2>2. \E v : pc' = [pc EXCEPT ![x] = v]
      BY <1>3 DEF Get, Update, RequestFails, Score, Goto
    <2>3. \A s \in Scans : s # x => pc'[s] = pc[s]
      BY <1>b, <2>2 DEF TypeOK, Sessions
    <2> QED BY <1>b, <1>1, <1>2, <2>1, <2>3, CountedQuietly
  <1>4. CASE ReadAlerts(x) \/ Snapshot(x) \/ RefreshFails(x)
    <2>1. pc[x] \in {"score", "snapshot"}
      BY <1>4 DEF ReadAlerts, Snapshot, RefreshFails, Owes
    <2>2. \/ Goto(x, "snapshot")
          \/ AfterScore(x)
          \/ Goto(x, "error")
      BY <1>4 DEF ReadAlerts, Snapshot, RefreshFails
    <2>3. pc'[x] # "done" /\ \A s \in Scans : s # x => pc'[s] = pc[s]
      BY <1>b, <2>2, AfterScoreQuiet DEF Goto, TypeOK, Sessions
    <2> QED BY <1>b, <1>1, <1>2, <2>1, <2>3, CountedQuietly
  <1> QED BY <1>3, <1>4

\* When every scan has ended well and no worker died, every alert that was ever
\* inserted has been handed to the notifications.
THEOREM RaisedAlertsAreNotified == Spec => []CreatedIsNotified
  <1>1. Init => Counted
    <2>1. DOMAIN <<>> = {}
      OBVIOUS
    <2> QED BY <2>1 DEF Init, Counted
  <1>2. Locked /\ Counted /\ [Next]_vars => Counted'
    <2> SUFFICES ASSUME Locked, Counted, [Next]_vars PROVE Counted'
      OBVIOUS
    <2>1. ASSUME \/ \E k \in Keys : Drift(k)
                 \/ \E d \in Docs : Delete(d)
                 \/ UNCHANGED vars
          PROVE  Counted'
      <3>1. /\ pc' = pc /\ alert' = alert /\ created' = created
            /\ notified' = notified /\ crashes' = crashes
        BY <2>1 DEF Drift, Delete, vars, tableVars, scanVars
      <3> QED BY <3>1 DEF Counted, Unbroken, Known
    <2>2. Resolvers \subseteq Sessions
      BY DEF Sessions
    <2> QED BY <2>1, <2>2, ScanCounted, OthersCounted DEF Next
  <1>3. Counted => CreatedIsNotified
    BY DEF Counted, CreatedIsNotified, Unbroken, Known
  <1> QED BY <1>1, <1>2, <1>3, Invariance, PTL DEF Spec

===============================================================================
