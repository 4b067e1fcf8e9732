--------------------------- MODULE DriftCheck_proofs ---------------------------
(***************************************************************************)
(* Proofs about DriftRules and DriftCheck: the order of versions, and the  *)
(* dashboards that are reported.                                           *)
(***************************************************************************)
EXTENDS DriftCheck, FiniteSetTheorems, WellFoundedInduction, TLAPS

-----------------------------------------------------------------------------
(* The order of versions.                                                  *)

\* The smallest of some natural numbers.
LEMMA Least ==
  ASSUME NEW T \in SUBSET Nat, T # {}
  PROVE  \E x \in T : \A y \in T : x <= y
  <1>1. PICK x \in T : \A y \in T : <<y, x>> \notin OpToRel(<, Nat)
    BY NatLessThanWellFounded, WFMin, Zenon
  <1>2. \A y \in T : ~(y < x)
    BY <1>1, Zenon DEF OpToRel
  <1>3. \A y \in T : x <= y
    BY ONLY <1>2, T \in SUBSET Nat, x \in T, SMT
  <1> QED BY <1>3, Zenon

LEMMA PartIsNat ==
  ASSUME NEW v \in Version, NEW k \in 1 .. 3
  PROVE  Part(v, k) \in Nat
  BY DEF Version, Part

\* The comparison of the cores, written out.
LEMMA CoreLex ==
  ASSUME NEW v \in Version, NEW w \in Version
  PROVE  CoreOlder(v, w) <=>
           \/ Part(v, 1) < Part(w, 1)
           \/ Part(v, 1) = Part(w, 1) /\ Part(v, 2) < Part(w, 2)
           \/ /\ Part(v, 1) = Part(w, 1) /\ Part(v, 2) = Part(w, 2)
              /\ Part(v, 3) < Part(w, 3)
  BY DEF CoreOlder

LEMMA CoreSame ==
  ASSUME NEW v, NEW w
  PROVE  SameCore(v, w) <=> /\ Part(v, 1) = Part(w, 1)
                            /\ Part(v, 2) = Part(w, 2)
                            /\ Part(v, 3) = Part(w, 3)
  BY DEF SameCore

LEMMA IdOrder ==
  ASSUME NEW x \in Identifier, NEW y \in Identifier, NEW z \in Identifier
  PROVE  /\ ~(IdBefore(x, y) /\ IdBefore(y, x))
         /\ IdBefore(x, y) /\ IdBefore(y, z) => IdBefore(x, z)
         /\ x = y \/ IdBefore(x, y) \/ IdBefore(y, x)
  BY DEF Identifier, IdBefore

LEMMA PreAsymmetric ==
  ASSUME NEW p \in Seq(Identifier), NEW q \in Seq(Identifier),
         PreBefore(p, q), PreBefore(q, p)
  PROVE  FALSE
  <1>1. PICK k \in 1 .. Len(q) : /\ k <= Len(p) + 1
                                 /\ \A j \in 1 .. (k - 1) : p[j] = q[j]
                                 /\ k <= Len(p) => IdBefore(p[k], q[k])
    BY DEF PreBefore
  <1>2. PICK l \in 1 .. Len(p) : /\ l <= Len(q) + 1
                                 /\ \A j \in 1 .. (l - 1) : q[j] = p[j]
                                 /\ l <= Len(q) => IdBefore(q[l], p[l])
    BY DEF PreBefore
  <1>3. \A x \in Identifier : ~IdBefore(x, x)
    BY IdOrder
  <1>4. CASE k < l
    BY <1>1, <1>2, <1>3, <1>4
  <1>5. CASE l < k
    BY <1>1, <1>2, <1>3, <1>5
  <1>6. CASE k = l
    BY <1>1, <1>2, <1>6, IdOrder
  <1> QED BY <1>4, <1>5, <1>6

LEMMA PreTransitive ==
  ASSUME NEW p \in Seq(Identifier), NEW q \in Seq(Identifier),
         NEW r \in Seq(Identifier), PreBefore(p, q), PreBefore(q, r)
  PROVE  PreBefore(p, r)
  <1>1. PICK k \in 1 .. Len(q) : /\ k <= Len(p) + 1
                                 /\ \A j \in 1 .. (k - 1) : p[j] = q[j]
                                 /\ k <= Len(p) => IdBefore(p[k], q[k])
    BY DEF PreBefore
  <1>2. PICK l \in 1 .. Len(r) : /\ l <= Len(q) + 1
                                 /\ \A j \in 1 .. (l - 1) : q[j] = r[j]
                                 /\ l <= Len(q) => IdBefore(q[l], r[l])
    BY DEF PreBefore
  <1>3. CASE k < l
    <2>1. k \in 1 .. Len(r) /\ q[k] = r[k]
      BY <1>2, <1>3
    <2>2. \A j \in 1 .. (k - 1) : p[j] = r[j]
      BY <1>1, <1>2, <1>3
    <2> QED BY <1>1, <2>1, <2>2 DEF PreBefore
  <1>4. CASE l < k
    <2>1. l <= Len(p) /\ p[l] = q[l] /\ IdBefore(q[l], r[l])
      BY <1>1, <1>2, <1>4
    <2>2. \A j \in 1 .. (l - 1) : p[j] = r[j]
      BY <1>1, <1>2, <1>4
    <2> QED BY <2>1, <2>2 DEF PreBefore
  <1>5. CASE k = l
    <2>1. k \in 1 .. Len(r) /\ IdBefore(q[k], r[k])
      BY <1>2, <1>5
    <2>2. k <= Len(p) => IdBefore(p[k], r[k])
      BY <1>1, <2>1, IdOrder
    <2>3. \A j \in 1 .. (k - 1) : p[j] = r[j]
      BY <1>1, <1>2, <1>5
    <2> QED BY <1>1, <2>1, <2>2, <2>3 DEF PreBefore
  <1> QED BY <1>3, <1>4, <1>5

LEMMA PreTotal ==
  ASSUME NEW p \in Seq(Identifier), NEW q \in Seq(Identifier), p # q
  PROVE  PreBefore(p, q) \/ PreBefore(q, p)
  <1> DEFINE Differ == {k \in Nat \ {0} :
                \/ k > Len(p) /\ k <= Len(q)
                \/ k > Len(q) /\ k <= Len(p)
                \/ k <= Len(p) /\ k <= Len(q) /\ p[k] # q[k]}
  <1>1. Differ # {}
    <2> SUFFICES ASSUME Differ = {} PROVE p = q
      OBVIOUS
    <2>1. \A k \in Nat \ {0} : k \notin Differ
      OBVIOUS
    <2>2. Len(p) = Len(q)
      <3>1. Len(p) \in Nat /\ Len(q) \in Nat
        OBVIOUS
      <3>2. CASE Len(p) < Len(q)
        BY <2>1, <3>1, <3>2
      <3>3. CASE Len(q) < Len(p)
        BY <2>1, <3>1, <3>3
      <3> QED BY <3>1, <3>2, <3>3
    <2>3. \A k \in 1 .. Len(p) : p[k] = q[k]
      BY <2>1, <2>2
    <2> QED BY <2>2, <2>3
  <1>2. Differ \in SUBSET Nat
    OBVIOUS
  <1>3. PICK k \in Differ : \A j \in Differ : k <= j
    BY <1>1, <1>2, Least
  <1>4. \A j \in 1 .. (k - 1) : j <= Len(p) /\ j <= Len(q) /\ p[j] = q[j]
    <2> SUFFICES ASSUME NEW j \in 1 .. (k - 1)
                 PROVE  j <= Len(p) /\ j <= Len(q) /\ p[j] = q[j]
      OBVIOUS
    <2>1. j \notin Differ /\ j \in Nat \ {0} /\ j < k /\ k \in Nat \ {0}
      BY <1>3
    <2>2. k <= Len(p) \/ k <= Len(q)
      BY <1>3
    <2> QED BY <2>1, <2>2
  <1>5. k \in Nat \ {0} /\ k <= Len(p) + 1 /\ k <= Len(q) + 1
    <2>1. k \in Nat \ {0} /\ Len(p) \in Nat /\ Len(q) \in Nat
      BY <1>3
    <2>2. CASE k = 1
      BY <2>1, <2>2
    <2>3. CASE k # 1
      <3>1. k - 1 \in 1 .. (k - 1)
        BY <2>1, <2>3
      <3> QED BY <1>4, <2>1, <3>1
    <2> QED BY <2>2, <2>3
  <1>6. CASE k > Len(p)
    <2>1. k <= Len(q)
      BY <1>3, <1>6
    <2> QED BY <1>4, <1>5, <1>6, <2>1 DEF PreBefore
  <1>7. CASE k > Len(q)
    <2>1. k <= Len(p)
      BY <1>3, <1>7
    <2> QED BY <1>4, <1>5, <1>7, <2>1 DEF PreBefore
  <1>8. CASE k <= Len(p) /\ k <= Len(q)
    <2>1. p[k] # q[k]
      BY <1>3, <1>8
    <2>2. p[k] \in Identifier /\ q[k] \in Identifier
      BY <1>5, <1>8
    <2>3. IdBefore(p[k], q[k]) \/ IdBefore(q[k], p[k])
      BY <2>1, <2>2, IdOrder
    <2> QED BY <1>4, <1>5, <1>8, <2>3 DEF PreBefore
  <1> QED BY <1>5, <1>6, <1>7, <1>8

\* The comparison written by hand is a strict order, for versions of every length:
\* no two are older than each other, older than older is older, and two of which
\* neither is older are the same (HelmVersionStaleRule._compare_versions).
THEOREM OlderIsAnOrder ==
  ASSUME NEW u \in Version, NEW v \in Version, NEW w \in Version,
         u.valid, v.valid, w.valid
  PROVE  /\ ~(Older(u, v) /\ Older(v, u))
         /\ Older(u, v) /\ Older(v, w) => Older(u, w)
         /\ Older(u, v) \/ Older(v, u) \/ SameVersion(u, v)
  <1>1. /\ u.pre \in Seq(Identifier) /\ v.pre \in Seq(Identifier)
        /\ w.pre \in Seq(Identifier)
    BY DEF Version
  <1>2. \A x, y \in {u, v, w} :
          /\ ~(CoreOlder(x, y) /\ CoreOlder(y, x))
          /\ CoreOlder(x, y) \/ CoreOlder(y, x) \/ SameCore(x, y)
          /\ SameCore(x, y) => ~CoreOlder(x, y) /\ SameCore(y, x)
    BY CoreLex, CoreSame, PartIsNat
  <1>3. /\ CoreOlder(u, v) /\ CoreOlder(v, w) => CoreOlder(u, w)
        /\ CoreOlder(u, v) /\ SameCore(v, w) => CoreOlder(u, w)
        /\ SameCore(u, v) /\ CoreOlder(v, w) => CoreOlder(u, w)
        /\ SameCore(u, v) /\ SameCore(v, w) => SameCore(u, w)
    BY CoreLex, CoreSame, PartIsNat
  <1>4. ~(PreBefore(u.pre, v.pre) /\ PreBefore(v.pre, u.pre))
    BY <1>1, PreAsymmetric
  <1>5. PreBefore(u.pre, v.pre) /\ PreBefore(v.pre, w.pre)
          => PreBefore(u.pre, w.pre)
    BY <1>1, PreTransitive
  <1>6. u.pre = v.pre \/ PreBefore(u.pre, v.pre) \/ PreBefore(v.pre, u.pre)
    BY <1>1, PreTotal
  <1>7. u.final \in BOOLEAN /\ v.final \in BOOLEAN /\ w.final \in BOOLEAN
    BY DEF Version
  <1>8. ~(Older(u, v) /\ Older(v, u))
    BY <1>2, <1>4, Zenon DEF Older
  <1>9. Older(u, v) /\ Older(v, w) => Older(u, w)
    BY <1>3, <1>5, Zenon DEF Older
  <1>10. Older(u, v) \/ Older(v, u) \/ SameVersion(u, v)
    BY <1>2, <1>6, <1>7, Zenon DEF Older, SameVersion
  <1> QED BY <1>8, <1>9, <1>10

\* Entries that cover a command and are equally long are the same.
LEMMA SameLengthSameEntry ==
  ASSUME NEW T, NEW c \in Seq(T), NEW e \in Seq(T), NEW f \in Seq(T),
         Covers(e, c), Covers(f, c), Len(e) = Len(f)
  PROVE  e = f
  <1>1. CASE e = c \/ f = c
    BY <1>1 DEF Covers
  <1>2. CASE e # c /\ f # c
    BY <1>2 DEF Covers
  <1> QED BY <1>1, <1>2

\* Of the entries that cover a command, at least one and however many, exactly one is
\* the most specific: the replacement that is proposed depends neither on the order of
\* the evidence nor on how equal lengths are sorted (CommandDeprecatedRule).
THEOREM TheBestEntryIsOne ==
  ASSUME NEW T, NEW c \in Seq(T), NEW E \in SUBSET Seq(T), E # {},
         \A e \in E : Covers(e, c)
  PROVE  \E e \in E : /\ \A f \in E : Len(f) <= Len(e)
                      /\ \A d \in E : (\A f \in E : Len(f) <= Len(d)) => d = e
  <1>1. \A e \in E : Len(e) \in Nat /\ Len(e) <= Len(c) /\ Len(c) \in Nat
    BY DEF Covers
  <1> DEFINE Short == {Len(c) - Len(e) : e \in E}
  <1>2. Short \in SUBSET Nat /\ Short # {}
    BY <1>1
  <1>3. PICK x \in Short : \A y \in Short : x <= y
    BY <1>2, Least
  <1>4. PICK e \in E : x = Len(c) - Len(e)
    BY <1>3
  <1>5. ASSUME NEW f \in E PROVE Len(f) <= Len(e)
    <2>1. Len(c) - Len(e) <= Len(c) - Len(f)
      BY <1>3, <1>4
    <2> QED BY <1>1, <2>1
  <1>6. ASSUME NEW d \in E, \A f \in E : Len(f) <= Len(d) PROVE d = e
    <2>1. Len(d) = Len(e)
      BY <1>1, <1>5, <1>6
    <2> QED BY <2>1, SameLengthSameEntry
  <1> QED BY <1>5, <1>6

\* A score is from 0 to 100, and an alert more never raises it, whatever its severity.
THEOREM MoreAlertsScoreNoHigher ==
  ASSUME NEW B, IsFiniteSet(B), NEW A \in SUBSET B, NEW scored
  PROVE  /\ ScoreOf(A, scored) \in 0 .. 100
         /\ ScoreOf(B, scored) <= ScoreOf(A, scored)
  <1>1. ASSUME NEW v
        PROVE  /\ Open(A, v) \in Nat /\ Open(B, v) \in Nat
               /\ Open(A, v) <= Open(B, v)
    <2>1. /\ {a \in A : a.severity = v} \subseteq {a \in B : a.severity = v}
          /\ {a \in B : a.severity = v} \subseteq B
      OBVIOUS
    <2>2. IsFiniteSet({a \in B : a.severity = v})
      BY <2>1, FS_Subset
    <2>3. IsFiniteSet({a \in A : a.severity = v})
      BY <2>1, <2>2, FS_Subset
    <2> QED BY <2>1, <2>2, <2>3, FS_Subset, FS_CardinalityType DEF Open
  <1>2. /\ AlertDeduction(A) \in Nat /\ AlertDeduction(B) \in Nat
        /\ AlertDeduction(A) <= AlertDeduction(B)
    BY <1>1 DEF AlertDeduction
  <1>3. ExtractionDeduction(scored) \in Nat
    BY DEF ExtractionDeduction
  <1> QED BY <1>2, <1>3 DEF ScoreOf

-----------------------------------------------------------------------------
(* The inputs of a check.                                                  *)

\* The document and what is given are those of a case, unchanged.
InputsOK ==
  \E i \in Cases : /\ doc = i.doc /\ given = i.given /\ catalog = i.catalog
                   /\ todo \subseteq DashboardUrls(i.doc) \cup i.asks
                   /\ DOMAIN store \subseteq DashboardUrls(i.doc) \cup i.asks

\* A probe that was filed is what its answer makes of it.
Filed(x) ==
  LET p == ProbePayload(answers[x])
  IN store[x] = [status |-> StatusOf(p), error |-> p.error, code |-> p.code]

\* Each URL of the document is still to be probed or on file, and the rules are
\* evaluated on what is on file then.
Collected ==
  /\ DOMAIN answers = DOMAIN store
  /\ \A x \in DashboardUrls(doc) : x \in todo \cup DOMAIN store
  /\ \A x \in DOMAIN store :
       x[1] = "http" => /\ Filed(x)
                        /\ answers[x] \in Answers({"timeout", "failed", "unsafe"})
  /\ lookup # NoLookup => lookup.target[1] = "incidentio" /\ lookup.target \in todo
  /\ stage = "done" => todo = {} /\ lookup = NoLookup
                         /\ drafts = Evaluated(doc, store, given)

CInv == InputsOK /\ Collected

LEMMA HttpAreUrls ==
  ASSUME InputsOK
  PROVE  \A x \in todo \cup DOMAIN store : x[1] = "http" => x \in DashboardUrls(doc)
  BY CheckAssumption DEF InputsOK, CheckAssumption

LEMMA FileKeepsInputs ==
  ASSUME InputsOK, NEW x \in todo, NEW p, NEW a, File(x, p, a), UNCHANGED inputs,
         x = <<x[1], x[2]>>
  PROVE  InputsOK'
  <1>1. DOMAIN store' = DOMAIN store \cup {x} /\ todo' = todo \ {x}
    BY Zenon DEF File, Upserted
  <1> QED BY <1>1, SMT DEF InputsOK, inputs

LEMMA PairsToDo ==
  ASSUME InputsOK, NEW x \in todo
  PROVE  x = <<x[1], x[2]>>
  BY CheckAssumption DEF InputsOK, CheckAssumption, DashboardUrls

\* Whatever a collector returns, once filed, is no URL that was not probed.
LEMMA FileKeepsCollected ==
  ASSUME CInv, stage = "collect", NEW x \in todo, NEW p, NEW a, File(x, p, a),
         x[1] = "http" => /\ p = ProbePayload(a)
                          /\ a \in Answers({"timeout", "failed", "unsafe"}),
         lookup' = NoLookup, UNCHANGED <<inputs, stage, drafts>>
  PROVE  Collected'
  <1>1. x = <<x[1], x[2]>>
    BY PairsToDo DEF CInv
  <1>2. /\ DOMAIN store' = DOMAIN store \cup {x}
        /\ store'[x] = [status |-> StatusOf(p), error |-> p.error, code |-> p.code]
        /\ \A y \in DOMAIN store : y # x => store'[y] = store[y]
    BY <1>1, Zenon DEF File, Upserted
  <1>3. answers'[x] = a /\ \A y \in DOMAIN answers : y # x => answers'[y] = answers[y]
    BY Zenon DEF File
  <1>4. \A y \in DashboardUrls(doc') : y \in todo' \cup DOMAIN store'
    <2>1. DashboardUrls(doc') = DashboardUrls(doc) /\ todo' = todo \ {x}
      BY Zenon DEF inputs, File
    <2> QED BY <1>2, <2>1, SMT DEF CInv, Collected
  <1>5. DOMAIN answers' = DOMAIN store'
    <2>1. DOMAIN answers' = DOMAIN answers \cup {x}
      BY Zenon DEF File
    <2> QED BY <1>2, <2>1, Zenon DEF CInv, Collected
  <1>6. ASSUME NEW y \in DOMAIN store', y[1] = "http"
        PROVE  Filed(y)' /\ answers'[y] \in Answers({"timeout", "failed", "unsafe"})
    <2>1. CASE y = x
      BY <1>2, <1>3, <1>6, <2>1, Zenon DEF Filed
    <2>2. CASE y # x
      <3>1. y \in DOMAIN store /\ y \in DOMAIN answers
        BY <1>2, <1>6, <2>2, Zenon DEF CInv, Collected
      <3>2. store'[y] = store[y] /\ answers'[y] = answers[y]
        BY <1>2, <1>3, <2>2, <3>1, Zenon
      <3>3. Filed(y) /\ answers[y] \in Answers({"timeout", "failed", "unsafe"})
        BY <1>6, <3>1, Zenon DEF CInv, Collected
      <3> QED BY <3>2, <3>3, Zenon DEF Filed
    <2> QED BY <2>1, <2>2
  <1>7. stage' # "done"
    BY SMT
  <1> QED BY <1>4, <1>5, <1>6, <1>7, Zenon DEF Collected

LEMMA InitCollected == Init => CInv
  <1> SUFFICES ASSUME Init PROVE CInv
    OBVIOUS
  <1>1. PICK i \in Cases :
          /\ doc = i.doc /\ given = i.given /\ catalog = i.catalog
          /\ todo = DashboardUrls(i.doc) \cup i.asks
    BY Zenon DEF Init
  <1>2. DOMAIN store = {} /\ DOMAIN answers = {} /\ lookup = NoLookup
    BY DEF Init
  <1>3. InputsOK
    BY <1>1, <1>2, Zenon DEF InputsOK
  <1>4. Collected
    BY <1>1, <1>2 DEF Init, Collected
  <1> QED BY <1>3, <1>4 DEF CInv

\* A step that files nothing keeps what is on file.
LEMMA NothingFiled ==
  ASSUME CInv, UNCHANGED <<inputs, todo, store, answers>>,
         lookup' # NoLookup => lookup'.target[1] = "incidentio" /\ lookup'.target \in todo,
         stage' = "done" => todo = {} /\ lookup' = NoLookup
                              /\ drafts' = Evaluated(doc, store, given)
  PROVE  CInv'
  <1>1. InputsOK'
    BY Zenon DEF CInv, InputsOK, inputs
  <1>2. Collected'
    BY Zenon DEF CInv, Collected, inputs, Filed
  <1> QED BY <1>1, <1>2 DEF CInv

LEMMA FileKeeps ==
  ASSUME CInv, stage = "collect", NEW x \in todo, NEW p, NEW a, File(x, p, a),
         x[1] = "http" => /\ p = ProbePayload(a)
                          /\ a \in Answers({"timeout", "failed", "unsafe"}),
         lookup' = NoLookup, UNCHANGED <<inputs, stage, drafts>>
  PROVE  CInv'
  BY FileKeepsCollected, FileKeepsInputs, PairsToDo, Zenon DEF CInv

LEMMA StepCollected == CInv /\ [Next]_vars => CInv'
  <1> SUFFICES ASSUME CInv, [Next]_vars PROVE CInv'
    OBVIOUS
  <1>1. ASSUME NEW x \in todo, Probe(x) PROVE CInv'
    <2>1. PICK a \in Answers({"timeout", "failed", "unsafe"}) :
            File(x, ProbePayload(a), a)
      BY <1>1, Zenon DEF Probe
    <2>2. stage = "collect" /\ lookup' = NoLookup /\ UNCHANGED <<inputs, stage, drafts>>
      BY <1>1 DEF Probe, Collecting
    <2> QED BY <2>1, <2>2, FileKeeps, Zenon
  <1>2. ASSUME NEW x \in todo, FindDeployment(x) PROVE CInv'
    <2>1. PICK a : File(x, DeploymentPayload(x \in Known, a), a)
      BY <1>2, Zenon DEF FindDeployment
    <2>2. x[1] # "http" /\ stage = "collect" /\ lookup' = NoLookup
      BY <1>2 DEF FindDeployment, Collecting
    <2>3. UNCHANGED <<inputs, stage, drafts>>
      BY <1>2 DEF FindDeployment
    <2> QED BY <2>1, <2>2, <2>3, FileKeeps, Zenon
  <1>3. ASSUME NEW x \in todo, FindFile(x) PROVE CInv'
    <2>1. PICK a : File(x, FilePayload(x \in Known, a), a)
      BY <1>3, Zenon DEF FindFile
    <2>2. x[1] # "http" /\ stage = "collect" /\ lookup' = NoLookup
      BY <1>3 DEF FindFile, Collecting
    <2>3. UNCHANGED <<inputs, stage, drafts>>
      BY <1>3 DEF FindFile
    <2> QED BY <2>1, <2>2, <2>3, FileKeeps, Zenon
  <1>4. ASSUME NEW x \in todo, StartLookup(x) PROVE CInv'
    <2>1. /\ x[1] = "incidentio" /\ stage = "collect" /\ lookup = NoLookup
          /\ UNCHANGED <<inputs, stage, drafts>>
      BY <1>4 DEF StartLookup, Collecting
    <2>2. CASE x \in Known
      <3>1. lookup'.target = x /\ UNCHANGED <<store, answers, todo>>
        BY <1>4, <2>2 DEF StartLookup
      <3> QED BY <2>1, <3>1, NothingFiled
    <2>3. CASE x \notin Known
      <3>1. /\ File(x, Failure("text"), [kind |-> "failed", code |-> 0])
            /\ lookup' = NoLookup
        BY <1>4, <2>1, <2>3, Zenon DEF StartLookup
      <3>2. x[1] # "http"
        BY <2>1
      <3> QED BY <2>1, <3>1, <3>2, FileKeeps, Zenon
    <2> QED BY <2>2, <2>3
  <1>5. ASSUME NEW p, NEW a, stage = "collect", lookup # NoLookup, EndLookup(p, a),
               UNCHANGED <<inputs, stage, drafts>>
        PROVE  CInv'
    <2>1. lookup.target[1] # "http" /\ lookup.target \in todo
      BY <1>5 DEF CInv, Collected
    <2>2. File(lookup.target, p, a) /\ lookup' = NoLookup
      BY <1>5, Zenon DEF EndLookup
    <2> QED BY <1>5, <2>1, <2>2, FileKeeps, Zenon
  <1>6. ASSUME ReadPage PROVE CInv'
    <2>1. stage = "collect" /\ lookup # NoLookup /\ UNCHANGED <<inputs, stage, drafts>>
      BY <1>6 DEF ReadPage
    <2>2. CASE \E p, a : EndLookup(p, a)
      BY <1>5, <2>1, <2>2
    <2>3. CASE \E c : Follow(c) /\ UNCHANGED <<store, answers, todo>>
      <3>1. lookup'.target = lookup.target /\ UNCHANGED <<store, answers, todo>>
        BY <2>3 DEF Follow
      <3> QED BY <2>1, <3>1, NothingFiled DEF CInv, Collected
    <2>4. \/ \E p, a : EndLookup(p, a)
          \/ \E c : Follow(c) /\ UNCHANGED <<store, answers, todo>>
      BY <1>6, Zenon DEF ReadPage
    <2> QED BY <2>2, <2>3, <2>4
  <1>7. ASSUME PageFails PROVE CInv'
    <2>1. stage = "collect" /\ lookup # NoLookup /\ UNCHANGED <<inputs, stage, drafts>>
      BY <1>7 DEF PageFails
    <2>2. PICK a : EndLookup(Failure(Message(a)), a)
      BY <1>7, Zenon DEF PageFails
    <2> QED BY <1>5, <2>1, <2>2, Zenon
  <1>8. ASSUME Evaluate PROVE CInv'
    <2>1. /\ todo = {} /\ lookup' = NoLookup /\ lookup = NoLookup
          /\ drafts' = Evaluated(doc, store, given)
          /\ UNCHANGED <<inputs, todo, store, answers>>
      BY <1>8, Zenon DEF Evaluate, Collecting
    <2> QED BY <2>1, NothingFiled, Zenon
  <1>9. ASSUME EvaluateRaises PROVE CInv'
    <2>1. /\ lookup' = NoLookup /\ stage' = "raised"
          /\ UNCHANGED <<inputs, todo, store, answers>>
      BY <1>9, Zenon DEF EvaluateRaises, Collecting
    <2>2. stage' # "done"
      BY <2>1
    <2> QED BY <2>1, <2>2, NothingFiled, Zenon
  <1>10. CASE UNCHANGED vars
    <2>1. UNCHANGED <<inputs, todo, store, answers>> /\ UNCHANGED <<lookup, stage, drafts>>
      BY <1>10, Zenon DEF vars
    <2> QED BY <2>1, NothingFiled, Zenon DEF CInv, Collected
  <1> QED BY <1>1, <1>2, <1>3, <1>4, <1>6, <1>7, <1>8, <1>9, <1>10 DEF Next

-----------------------------------------------------------------------------
(* The dashboards that are reported.                                       *)

\* The URLs on file; that some drafts tell of a dead target that evidence calls s;
\* that one of some targets is so called, and dead.
Targets(records) == {x[2] : x \in {y \in DOMAIN records : y[1] = "http"}}

Told(some, s) ==
  \E a \in some : a.rule = "dashboard_dead" /\ "target" \in DOMAIN a /\ a.target = s

OneIsDead(targets, records, s) ==
  \E t \in targets : Safe(t) = s /\ IsDead(records[<<"http", t>>])

\* When each target on file is of the document, the dead ones are reported, by
\* what evidence may say of them, and no other target is.
LEMMA DeadOnes ==
  ASSUME NEW d, NEW records, NEW g, Targets(records) # {}, d.refs # <<>>,
         \A t \in Targets(records) : Matching(d, t) # {}
  PROVE  \A s : Told(DeadDashboards(d, records, g), s)
                 <=> OneIsDead(Targets(records), records, s)
  <1> DEFINE Ref(t) == Safe(d.refs[CHOOSE i \in Matching(d, t) :
                                     \A j \in Matching(d, t) : i <= j])
             Draft(t) == [rule |-> "dashboard_dead", severity |-> "medium",
                          dashboard |-> Ref(t), target |-> Safe(t),
                          found |-> records[<<"http", t>>]]
             dead == {t \in Targets(records) : IsDead(records[<<"http", t>>])}
  <1>1. {t \in Targets(records) : Matching(d, t) # {}} = Targets(records)
    BY Zenon
  <1>2. DeadDashboards(d, records, g) = {Draft(t) : t \in dead}
    BY <1>1, Zenon DEF DeadDashboards, Targets
  <1>3. \A t : /\ Draft(t).rule = "dashboard_dead" /\ Draft(t).target = Safe(t)
               /\ "target" \in DOMAIN Draft(t)
    <2> HIDE DEF Ref
    <2> QED BY Zenon
  <1> HIDE DEF Draft
  <1> QED BY <1>2, <1>3, Zenon DEF Told, OneIsDead

\* The other rules make no draft of this rule.
LEMMA OtherDrafts ==
  ASSUME NEW d, NEW g,
         NEW a \in OwnerMissing(d) \cup Undocumented(d, g) \cup StaleCharts(d, g)
                     \cup DeprecatedCommands(d, g)
  PROVE  a.rule # "dashboard_dead"
  <1>1. CASE a \in OwnerMissing(d)
    BY <1>1 DEF OwnerMissing
  <1>2. CASE a \in Undocumented(d, g)
    <2>1. PICK x : a = [rule |-> "dependency_undocumented", severity |-> "medium",
                        dependency |-> x, documented |-> {Lower[e] : e \in d.deps}]
      BY <1>2, Zenon DEF Undocumented
    <2> QED BY <2>1
  <1>3. CASE a \in StaleCharts(d, g)
    <2>1. PICK c : a = [rule |-> "helm_version_stale", severity |-> "medium",
                        chart |-> c.chart, current |-> c.version,
                        latest |-> g.latest[c.chart]]
      BY <1>3, Zenon DEF StaleCharts
    <2> QED BY <2>1
  <1>4. CASE a \in DeprecatedCommands(d, g)
    <2>1. \E c, r : a = [rule |-> "command_deprecated", severity |-> "medium",
                         command |-> c, replacement |-> r]
      BY <1>4, Zenon DEF DeprecatedCommands
    <2> QED BY <2>1
  <1> QED BY <1>1, <1>2, <1>3, <1>4

\* What the store says of a probe is what the answer was.
LEMMA DeadIsUnreachable ==
  ASSUME NEW x, Filed(x), answers[x] \in Answers({"timeout", "failed", "unsafe"})
  PROVE  IsDead(store[x]) <=> Unreachable(answers[x])
  <1>1. PICK a : a = answers[x]
    OBVIOUS
  <1>2. PICK p : p = ProbePayload(a)
    OBVIOUS
  <1>3. /\ store[x].status = StatusOf(p) /\ store[x].error = p.error
        /\ store[x].code = p.code
    <2>1. store[x] = [status |-> StatusOf(p), error |-> p.error, code |-> p.code]
      BY <1>1, <1>2, Zenon DEF Filed
    <2> QED BY ONLY <2>1, SMT
  <1>4. /\ p.exists = "absent" /\ p.code = a.code
        /\ p.error = IF a.kind = "answered" THEN "none" ELSE Message(a)
    BY <1>2, Zenon DEF ProbePayload
  <1>5. CASE a.kind = "answered"
    <2>1. p.error = "none" /\ StatusOf(p) = "found"
      BY <1>4, <1>5, SMT DEF StatusOf
    <2>2. store[x].status \notin DeadStatuses /\ store[x].error # "text"
      BY <1>3, <2>1, SMT DEF DeadStatuses
    <2>3. a.kind \notin {"failed", "unsafe"}
      BY <1>5
    <2> QED BY <1>1, <1>3, <1>4, <2>2, <2>3, Zenon DEF IsDead, Unreachable
  <1>6. CASE a.kind = "timeout"
    <2>1. a.code = 0
      BY <1>1, <1>6 DEF Answers
    <2>2. p.error = "blank" /\ StatusOf(p) = "found"
      BY <1>4, <1>6, SMT DEF StatusOf, Message
    <2>3. ~IsDead(store[x])
      BY <1>3, <1>4, <2>1, <2>2, SMT DEF IsDead, DeadStatuses
    <2>4. ~Unreachable(a)
      BY <1>6, <2>1, SMT DEF Unreachable
    <2> QED BY <1>1, <2>3, <2>4
  <1>7. CASE a.kind \in {"failed", "unsafe"}
    <2>1. p.error = "text"
      BY <1>4, <1>7, SMT DEF Message
    <2> QED BY <1>1, <1>3, <1>7, <2>1, Zenon DEF IsDead, Unreachable
  <1> QED BY <1>1, <1>5, <1>6, <1>7 DEF Answers

LEMMA UrlIsPair ==
  ASSUME NEW d, NEW x \in DashboardUrls(d)
  PROVE  /\ x[1] = "http" /\ x = <<"http", x[2]>>
         /\ d.refs # <<>> /\ Matching(d, x[2]) # {}
  <1>1. PICK i \in DOMAIN d.refs : IsUrl(d.refs[i]) /\ x = <<"http", d.refs[i]>>
    BY Zenon DEF DashboardUrls
  <1>2. x[1] = "http" /\ x[2] = d.refs[i] /\ x = <<"http", x[2]>>
    BY <1>1
  <1>3. RefMatches(d.refs[i], x[2])
    BY <1>1, <1>2, Zenon DEF RefMatches
  <1>4. Matching(d, x[2]) # {}
    BY <1>1, <1>3, Zenon DEF Matching
  <1>5. d.refs # <<>>
    BY <1>1
  <1> QED BY <1>2, <1>4, <1>5

LEMMA ReportsAreExact == CInv => DashboardsExact
  <1> SUFFICES ASSUME CInv, stage = "done", NEW x \in DashboardUrls(doc)
               PROVE  Told(drafts, Safe(x[2]))
                        <=> \E y \in DashboardUrls(doc) :
                              Safe(y[2]) = Safe(x[2]) /\ Unreachable(answers[y])
    BY Zenon DEF DashboardsExact, Told
  <1>1. todo = {} /\ drafts = Evaluated(doc, store, given)
    BY Zenon DEF CInv, Collected
  <1>2. \A y : y \in DashboardUrls(doc) <=> y \in DOMAIN store /\ y[1] = "http"
    <2>1. ASSUME NEW y \in DashboardUrls(doc)
          PROVE  y \in DOMAIN store /\ y[1] = "http"
      BY <1>1, UrlIsPair, SMT DEF CInv, Collected
    <2>2. ASSUME NEW y \in DOMAIN store, y[1] = "http"
          PROVE  y \in DashboardUrls(doc)
      BY <2>2, HttpAreUrls, SMT DEF CInv
    <2> QED BY <2>1, <2>2
  <1>3. PICK targets : targets = Targets(store)
    OBVIOUS
  <1>4. \A t : t \in targets <=> <<"http", t>> \in DashboardUrls(doc)
    <2>1. ASSUME NEW t \in targets PROVE <<"http", t>> \in DashboardUrls(doc)
      <3>1. PICK z \in DOMAIN store : z[1] = "http" /\ t = z[2]
        BY <1>3, <2>1, Zenon DEF Targets
      <3> QED BY <1>2, <3>1, UrlIsPair, Zenon
    <2>2. ASSUME NEW t, <<"http", t>> \in DashboardUrls(doc) PROVE t \in targets
      <3>1. <<"http", t>>[1] = "http" /\ <<"http", t>>[2] = t
        OBVIOUS
      <3> QED BY <1>2, <1>3, <2>2, <3>1, Zenon DEF Targets
    <2> QED BY <2>1, <2>2
  <1>5. targets # {} /\ doc.refs # <<>> /\ \A t \in targets : Matching(doc, t) # {}
    <2>1. x[2] \in targets /\ doc.refs # <<>>
      BY <1>4, UrlIsPair, Zenon
    <2>2. ASSUME NEW t \in targets PROVE Matching(doc, t) # {}
      <3>1. <<"http", t>> \in DashboardUrls(doc) /\ <<"http", t>>[2] = t
        BY <1>4
      <3> QED BY <3>1, UrlIsPair, Zenon
    <2> QED BY <2>1, <2>2
  <1>6. Told(DeadDashboards(doc, store, given), Safe(x[2]))
          <=> OneIsDead(targets, store, Safe(x[2]))
    BY <1>3, <1>5, DeadOnes, Zenon
  <1>7. \A a : a.rule = "dashboard_dead" =>
          (a \in drafts <=> a \in DeadDashboards(doc, store, given))
    BY <1>1, OtherDrafts, Zenon DEF Evaluated
  <1>8. \A y \in DashboardUrls(doc) : IsDead(store[y]) <=> Unreachable(answers[y])
    BY <1>2, DeadIsUnreachable, Zenon DEF CInv, Collected
  <1>9. OneIsDead(targets, store, Safe(x[2]))
          <=> \E y \in DashboardUrls(doc) :
                Safe(y[2]) = Safe(x[2]) /\ Unreachable(answers[y])
    <2>1. ASSUME NEW t \in targets, Safe(t) = Safe(x[2]), IsDead(store[<<"http", t>>])
          PROVE  \E y \in DashboardUrls(doc) :
                   Safe(y[2]) = Safe(x[2]) /\ Unreachable(answers[y])
      <3>1. <<"http", t>> \in DashboardUrls(doc) /\ <<"http", t>>[2] = t
        BY <1>4
      <3> QED BY <1>8, <2>1, <3>1, Zenon
    <2>2. ASSUME NEW y \in DashboardUrls(doc), Safe(y[2]) = Safe(x[2]),
                 Unreachable(answers[y])
          PROVE  \E t \in targets : Safe(t) = Safe(x[2]) /\ IsDead(store[<<"http", t>>])
      <3>1. y = <<"http", y[2]>>
        BY UrlIsPair
      <3>2. y[2] \in targets /\ IsDead(store[<<"http", y[2]>>])
        BY <1>4, <1>8, <2>2, <3>1, Zenon
      <3> QED BY <2>2, <3>2
    <2> QED BY <2>1, <2>2, Zenon DEF OneIsDead
  <1>10. Told(drafts, Safe(x[2])) <=> Told(DeadDashboards(doc, store, given), Safe(x[2]))
    BY <1>7, Zenon DEF Told
  <1> QED BY <1>6, <1>9, <1>10, Zenon

-----------------------------------------------------------------------------
(* What the store says of the targets that are not probed.                 *)

\* The other system, with catalog c, has the target.
Has(c, x, a) ==
  IF x[1] = "incidentio"
  THEN \E p \in Reached(c) : x[2] \in c[p].holds
  ELSE Success(a)

Asked(x, a) ==
  x \in Known /\ a.kind = "answered" /\ (Success(a) \/ a.code = 404)

\* A payload p that answer a to x settled says no more than the truth.
TrueOf(c, x, p, a) ==
  x[1] # "http" /\ a.kind # "timeout" =>
    /\ StatusOf(p) = "found" => Has(c, x, a) /\ Asked(x, a)
    /\ StatusOf(p) = "not_found" => ~Has(c, x, a) /\ Asked(x, a)

FiledTrue ==
  \A x \in DOMAIN store :
    \E p : TrueOf(catalog, x, p, answers[x]) /\ store[x].status = StatusOf(p)

\* The pages that a lookup has asked for: the first, and those it followed cursors to.
Pages(l) == {FirstPage} \cup l.seen

\* A lookup has been at no page but those the cursors lead to, at each once, and each
\* that it left names another that it has been at, and not the service.
Following ==
  /\ DOMAIN lookup = {"target", "page", "seen", "asked"}
  /\ lookup.target \in Known /\ lookup.target[1] = "incidentio"
  /\ lookup.page \in Pages(lookup)
  /\ lookup.seen \subseteq DOMAIN catalog \ {FirstPage}
  /\ lookup.asked = Cardinality(lookup.seen)
  /\ Pages(lookup) \subseteq Reached(catalog)
  /\ \A p \in Pages(lookup) \ {lookup.page} :
       catalog[p].next \in lookup.seen /\ lookup.target[2] \notin catalog[p].holds

EInv == FiledTrue /\ (lookup # NoLookup => Following)

LEMMA CatalogShape ==
  ASSUME InputsOK
  PROVE  /\ FirstPage \in DOMAIN catalog /\ IsFiniteSet(DOMAIN catalog)
         /\ \A p \in DOMAIN catalog :
              catalog[p].next \in (DOMAIN catalog \ {FirstPage}) \cup {NoCursor}
  BY CheckAssumption DEF InputsOK, CheckAssumption

LEMMA ReachedStep ==
  ASSUME InputsOK
  PROVE  /\ FirstPage \in Reached(catalog)
         /\ \A p \in Reached(catalog) :
              catalog[p].next # NoCursor => catalog[p].next \in Reached(catalog)
         /\ \A P \in SUBSET DOMAIN catalog :
              Closed(P, catalog) => Reached(catalog) \subseteq P
  <1>1. FirstPage \in Reached(catalog)
    BY CatalogShape, Zenon DEF Reached, Closed
  <1>2. ASSUME NEW p \in Reached(catalog), catalog[p].next # NoCursor
        PROVE  catalog[p].next \in Reached(catalog)
    <2>1. p \in DOMAIN catalog
      BY Zenon DEF Reached
    <2>2. catalog[p].next \in DOMAIN catalog
      BY <1>2, <2>1, CatalogShape
    <2>3. ASSUME NEW P \in SUBSET DOMAIN catalog, Closed(P, catalog)
          PROVE  catalog[p].next \in P
      <3>1. p \in P
        BY <2>3, Zenon DEF Reached
      <3> QED BY <1>2, <2>3, <3>1, Zenon DEF Closed
    <2> QED BY <2>2, <2>3, Zenon DEF Reached
  <1>3. ASSUME NEW P \in SUBSET DOMAIN catalog, Closed(P, catalog)
        PROVE  Reached(catalog) \subseteq P
    BY <1>3, Zenon DEF Reached
  <1> QED BY <1>1, <1>2, <1>3

\* What one of the collectors makes of one answer is true of it.
LEMMA DeploymentTrue ==
  ASSUME NEW x, x[1] = "kubernetes", NEW a
  PROVE  TrueOf(catalog, x, DeploymentPayload(x \in Known, a), a)
  <1>1. x[1] # "incidentio"
    OBVIOUS
  <1>2. Success(a) => a.kind = "answered"
    BY DEF Success
  <1> QED
    BY <1>1, <1>2 DEF TrueOf, Has, Asked, DeploymentPayload, StatusOf, Failure,
       Found, Missing, Message

LEMMA FileTrue ==
  ASSUME NEW x, x[1] = "github", NEW a
  PROVE  TrueOf(catalog, x, FilePayload(x \in Known, a), a)
  <1>1. x[1] # "incidentio"
    OBVIOUS
  <1>2. Success(a) => a.kind = "answered"
    BY DEF Success
  <1> QED
    BY <1>1, <1>2 DEF TrueOf, Has, Asked, FilePayload, StatusOf, Failure,
       Found, Missing

\* A failure is neither found nor missing, but for a timeout.
LEMMA FailureTrue ==
  ASSUME NEW x, NEW a
  PROVE  TrueOf(catalog, x, Failure(Message(a)), a) /\ TrueOf(catalog, x, Failure("text"), a)
  BY DEF TrueOf, StatusOf, Failure, Message

\* To file what is true keeps what is on file true.
LEMMA FileKeepsTrue ==
  ASSUME CInv, FiledTrue, NEW x \in todo, NEW p, NEW a, File(x, p, a),
         TrueOf(catalog, x, p, a), UNCHANGED inputs
  PROVE  FiledTrue'
  <1>1. x = <<x[1], x[2]>>
    BY PairsToDo DEF CInv
  <1>2. /\ DOMAIN store' = DOMAIN store \cup {x}
        /\ store'[x] = [status |-> StatusOf(p), error |-> p.error, code |-> p.code]
        /\ \A y \in DOMAIN store : y # x => store'[y] = store[y]
    BY <1>1, Zenon DEF File, Upserted
  <1>3. answers'[x] = a /\ \A y \in DOMAIN answers : y # x => answers'[y] = answers[y]
    BY Zenon DEF File
  <1>4. catalog' = catalog
    BY DEF inputs
  <1>5. ASSUME NEW y \in DOMAIN store'
        PROVE  \E q : TrueOf(catalog, y, q, answers'[y]) /\ store'[y].status = StatusOf(q)
    <2>1. CASE y = x
      <3>1. store'[x].status = StatusOf(p)
        BY <1>2
      <3> QED BY <1>3, <2>1, <3>1
    <2>2. CASE y # x
      <3>1. y \in DOMAIN store /\ y \in DOMAIN answers
        BY <1>2, <2>2, Zenon DEF CInv, Collected
      <3>2. \E q : TrueOf(catalog, y, q, answers[y]) /\ store[y].status = StatusOf(q)
        BY <3>1, Zenon DEF FiledTrue
      <3> QED BY <1>2, <1>3, <2>2, <3>1, <3>2, Zenon
    <2> QED BY <2>1, <2>2
  <1> QED BY <1>4, <1>5, Zenon DEF FiledTrue

LEMMA SameKeepsTrue ==
  ASSUME FiledTrue, UNCHANGED <<inputs, store, answers>>
  PROVE  FiledTrue'
  BY Zenon DEF FiledTrue, inputs

\* A page that holds the service is one the cursors lead to; when no page is left to
\* ask for, none that they lead to holds it.
LEMMA PageTells ==
  ASSUME CInv, lookup # NoLookup, Following, NEW a, a = [kind |-> "answered", code |-> 200]
  PROVE  /\ lookup.target[2] \in catalog[lookup.page].holds
              => TrueOf(catalog, lookup.target, Found, a)
         /\ (/\ lookup.target[2] \notin catalog[lookup.page].holds
             /\ catalog[lookup.page].next \in lookup.seen \cup {NoCursor})
              => TrueOf(catalog, lookup.target, Missing, a)
  <1>1. Success(a) /\ Asked(lookup.target, a)
    BY DEF Success, Asked, Following
  <1>2. StatusOf(Found) = "found" /\ StatusOf(Missing) = "not_found"
    BY DEF StatusOf, Found, Missing
  <1>3. Has(catalog, lookup.target, a) <=>
          \E p \in Reached(catalog) : lookup.target[2] \in catalog[p].holds
    BY Zenon DEF Has, Following
  <1>4. ASSUME lookup.target[2] \in catalog[lookup.page].holds
        PROVE  TrueOf(catalog, lookup.target, Found, a)
    <2>1. lookup.page \in Reached(catalog)
      BY DEF Following
    <2>2. Has(catalog, lookup.target, a)
      BY <1>3, <1>4, <2>1, Zenon
    <2> QED BY <1>1, <1>2, <2>2 DEF TrueOf
  <1>5. ASSUME lookup.target[2] \notin catalog[lookup.page].holds,
               catalog[lookup.page].next \in lookup.seen \cup {NoCursor}
        PROVE  TrueOf(catalog, lookup.target, Missing, a)
    <2>1. Pages(lookup) \in SUBSET DOMAIN catalog
      BY CatalogShape DEF CInv, Following, Pages
    <2>2. \A p \in Pages(lookup) : /\ catalog[p].next \in lookup.seen \cup {NoCursor}
                                   /\ lookup.target[2] \notin catalog[p].holds
      BY <1>5 DEF Following
    <2>3. Closed(Pages(lookup), catalog)
      BY <2>2 DEF Closed, Pages
    <2>4. Reached(catalog) \subseteq Pages(lookup)
      BY <2>1, <2>3, ReachedStep DEF CInv
    <2>5. ~Has(catalog, lookup.target, a)
      BY <1>3, <2>2, <2>4, Zenon
    <2> QED BY <1>1, <1>2, <2>5 DEF TrueOf
  <1> QED BY <1>4, <1>5

LEMMA FollowKeeps ==
  ASSUME CInv, lookup # NoLookup, Following, UNCHANGED inputs, NEW c,
         c = catalog[lookup.page].next, c # NoCursor, c \notin lookup.seen, Follow(c),
         lookup.target[2] \notin catalog[lookup.page].holds
  PROVE  Following'
  <1>1. /\ lookup.page \in DOMAIN catalog /\ lookup.page \in Reached(catalog)
        /\ lookup.seen \subseteq DOMAIN catalog
    BY CatalogShape DEF CInv, Following, Pages
  <1>2. c \in DOMAIN catalog \ {FirstPage} /\ c \in Reached(catalog)
    BY <1>1, CatalogShape, ReachedStep DEF CInv
  <1>3. IsFiniteSet(lookup.seen)
    BY <1>1, CatalogShape, FS_Subset DEF CInv
  <1>4. Cardinality(lookup.seen \cup {c}) = Cardinality(lookup.seen) + 1
    BY <1>3, FS_AddElement
  <1>5. /\ lookup' = [lookup EXCEPT !.page = c, !.seen = @ \cup {c}, !.asked = @ + 1]
        /\ catalog' = catalog
    BY DEF Follow, inputs
  <1>6. /\ lookup'.target = lookup.target /\ lookup'.page = c
        /\ lookup'.seen = lookup.seen \cup {c} /\ lookup'.asked = lookup.asked + 1
        /\ DOMAIN lookup' = {"target", "page", "seen", "asked"}
    BY <1>5 DEF Following
  <1>7. /\ lookup'.asked = Cardinality(lookup'.seen)
        /\ lookup'.page \in Pages(lookup')
        /\ lookup'.seen \subseteq DOMAIN catalog' \ {FirstPage}
        /\ Pages(lookup') \subseteq Reached(catalog')
    BY <1>2, <1>4, <1>5, <1>6 DEF Following, Pages
  <1>8. ASSUME NEW p \in Pages(lookup') \ {lookup'.page}
        PROVE  catalog[p].next \in lookup'.seen /\ lookup.target[2] \notin catalog[p].holds
    <2>1. p \in Pages(lookup)
      BY <1>6, <1>8 DEF Pages
    <2>2. CASE p = lookup.page
      BY <1>6, <2>2
    <2>3. CASE p # lookup.page
      BY <1>6, <2>1, <2>3 DEF Following
    <2> QED BY <2>2, <2>3
  <1> QED BY <1>5, <1>6, <1>7, <1>8, Zenon DEF Following


LEMMA StepTrue == CInv /\ EInv /\ [Next]_vars => EInv'
  <1> SUFFICES ASSUME CInv, EInv, [Next]_vars PROVE EInv'
    OBVIOUS
  <1>a. FiledTrue /\ (lookup # NoLookup => Following)
    BY DEF EInv
  <1>1. ASSUME NEW x \in todo, Probe(x) PROVE EInv'
    <2>1. PICK a : File(x, ProbePayload(a), a)
      BY <1>1, Zenon DEF Probe
    <2>2. x[1] = "http" /\ lookup' = NoLookup /\ UNCHANGED inputs
      BY <1>1 DEF Probe, Collecting
    <2>3. TrueOf(catalog, x, ProbePayload(a), a)
      BY <2>2, Zenon DEF TrueOf
    <2> QED BY <1>a, <2>1, <2>2, <2>3, FileKeepsTrue, Zenon DEF EInv
  <1>2. ASSUME NEW x \in todo, FindDeployment(x) PROVE EInv'
    <2>1. PICK a : File(x, DeploymentPayload(x \in Known, a), a)
      BY <1>2, Zenon DEF FindDeployment
    <2>2. x[1] = "kubernetes" /\ lookup' = NoLookup /\ UNCHANGED inputs
      BY <1>2 DEF FindDeployment, Collecting
    <2>3. TrueOf(catalog, x, DeploymentPayload(x \in Known, a), a)
      BY <2>2, DeploymentTrue
    <2> QED BY <1>a, <2>1, <2>2, <2>3, FileKeepsTrue, Zenon DEF EInv
  <1>3. ASSUME NEW x \in todo, FindFile(x) PROVE EInv'
    <2>1. PICK a : File(x, FilePayload(x \in Known, a), a)
      BY <1>3, Zenon DEF FindFile
    <2>2. x[1] = "github" /\ lookup' = NoLookup /\ UNCHANGED inputs
      BY <1>3 DEF FindFile, Collecting
    <2>3. TrueOf(catalog, x, FilePayload(x \in Known, a), a)
      BY <2>2, FileTrue
    <2> QED BY <1>a, <2>1, <2>2, <2>3, FileKeepsTrue, Zenon DEF EInv
  <1>4. ASSUME NEW x \in todo, StartLookup(x) PROVE EInv'
    <2>1. x[1] = "incidentio" /\ lookup = NoLookup /\ UNCHANGED inputs
      BY <1>4 DEF StartLookup, Collecting
    <2>2. CASE x \in Known
      <3>1. /\ lookup' = [target |-> x, page |-> FirstPage, seen |-> {}, asked |-> 0]
            /\ UNCHANGED <<store, answers>>
        BY <1>4, <2>2, Zenon DEF StartLookup
      <3>2. FirstPage \in Reached(catalog)
        BY ReachedStep DEF CInv
      <3>3. Cardinality({}) = 0
        BY FS_EmptySet
      <3>4. Following'
        BY <2>1, <2>2, <3>1, <3>2, <3>3 DEF Following, Pages, inputs
      <3> QED BY <1>a, <2>1, <3>1, <3>4, SameKeepsTrue DEF EInv
    <2>3. CASE x \notin Known
      <3>1. /\ File(x, Failure("text"), [kind |-> "failed", code |-> 0])
            /\ lookup' = NoLookup
        BY <1>4, <2>1, <2>3, Zenon DEF StartLookup
      <3>2. TrueOf(catalog, x, Failure("text"), [kind |-> "failed", code |-> 0])
        BY FailureTrue
      <3> QED BY <1>a, <2>1, <3>1, <3>2, FileKeepsTrue, Zenon DEF EInv
    <2> QED BY <2>2, <2>3
  <1>5. ASSUME NEW p, NEW a, lookup # NoLookup, EndLookup(p, a), UNCHANGED inputs,
               TrueOf(catalog, lookup.target, p, a)
        PROVE  EInv'
    <2>1. lookup.target \in todo
      BY <1>5 DEF CInv, Collected
    <2>2. File(lookup.target, p, a) /\ lookup' = NoLookup
      BY <1>5, Zenon DEF EndLookup
    <2> QED BY <1>5, <1>a, <2>1, <2>2, FileKeepsTrue, Zenon DEF EInv
  <1>6. ASSUME ReadPage PROVE EInv'
    <2> DEFINE page == catalog[lookup.page]
               name == lookup.target[2]
               good == [kind |-> "answered", code |-> 200]
    <2>1. lookup # NoLookup /\ UNCHANGED inputs /\ Following
      BY <1>6, <1>a DEF ReadPage
    <2>2. CASE name \in page.holds /\ EndLookup(Found, good)
      <3>1. TrueOf(catalog, lookup.target, Found, good)
        BY <2>1, <2>2, PageTells
      <3> QED BY <1>5, <2>1, <2>2, <3>1
    <2>3. CASE /\ name \notin page.holds
               /\ page.next = NoCursor \/ page.next \in lookup.seen
               /\ EndLookup(Missing, good)
      <3>1. TrueOf(catalog, lookup.target, Missing, good)
        BY <2>1, <2>3, PageTells
      <3> QED BY <1>5, <2>1, <2>3, <3>1
    <2>4. CASE /\ name \notin page.holds
               /\ page.next # NoCursor /\ page.next \notin lookup.seen
               /\ Follow(page.next)
               /\ UNCHANGED <<store, answers, todo>>
      <3>1. Following'
        BY <2>1, <2>4, FollowKeeps
      <3>2. FiledTrue'
        BY <1>a, <2>1, <2>4, SameKeepsTrue
      <3> QED BY <3>1, <3>2 DEF EInv
    <2> QED BY <1>6, <2>2, <2>3, <2>4, Zenon DEF ReadPage
  <1>7. ASSUME PageFails PROVE EInv'
    <2>1. lookup # NoLookup /\ UNCHANGED inputs
      BY <1>7 DEF PageFails
    <2>2. PICK a : EndLookup(Failure(Message(a)), a)
      BY <1>7, Zenon DEF PageFails
    <2>3. TrueOf(catalog, lookup.target, Failure(Message(a)), a)
      BY FailureTrue
    <2> QED BY <1>5, <2>1, <2>2, <2>3
  <1>8. CASE Evaluate \/ EvaluateRaises
    <2>1. UNCHANGED <<inputs, store, answers>> /\ UNCHANGED lookup
      BY <1>8, Zenon DEF Evaluate, EvaluateRaises
    <2>2. lookup' = NoLookup
      BY <1>8, <2>1, Zenon DEF Evaluate, EvaluateRaises, Collecting
    <2> QED BY <1>a, <2>1, <2>2, SameKeepsTrue DEF EInv
  <1>9. CASE UNCHANGED vars
    <2>1. UNCHANGED <<inputs, store, answers>> /\ UNCHANGED <<inputs, lookup>>
      BY <1>9, Zenon DEF vars
    <2>2. lookup # NoLookup => Following'
      BY <1>a, <2>1, Zenon DEF Following, inputs
    <2> QED BY <1>a, <2>1, <2>2, SameKeepsTrue, Zenon DEF EInv
  <1> QED BY <1>1, <1>2, <1>3, <1>4, <1>6, <1>7, <1>8, <1>9 DEF Next

LEMMA TrueEvidence == CInv /\ EInv => EvidenceIsTrue
  <1> SUFFICES ASSUME CInv, EInv PROVE EvidenceIsTrue
    OBVIOUS
  <1>1. ASSUME NEW x \in DOMAIN store, x[1] # "http", answers[x].kind # "timeout"
        PROVE  /\ store[x].status = "found" => Has(catalog, x, answers[x])
                                                 /\ Asked(x, answers[x])
               /\ store[x].status = "not_found" => ~Has(catalog, x, answers[x])
                                                     /\ Asked(x, answers[x])
    <2>1. PICK p : /\ TrueOf(catalog, x, p, answers[x])
                   /\ store[x].status = StatusOf(p)
      BY Zenon DEF EInv, FiledTrue
    <2> QED BY <1>1, <2>1, Zenon DEF TrueOf
  <1>2. ASSUME lookup # NoLookup
        PROVE  lookup.asked <= Cardinality(DOMAIN catalog)
    <2>1. /\ lookup.seen \subseteq DOMAIN catalog
          /\ lookup.asked = Cardinality(lookup.seen)
      BY <1>2 DEF EInv, Following
    <2> QED BY <2>1, CatalogShape, FS_Subset DEF CInv
  <1> QED BY <1>1, <1>2, Zenon DEF EvidenceIsTrue, Has, Asked

-----------------------------------------------------------------------------
(* The theorems.                                                           *)

\* The inductive invariant: each URL of the document is still to be probed or is on
\* file as its answer has it, and the alerts are the rules' on what is on file.
THEOREM Invariance == Spec => []CInv
  BY InitCollected, StepCollected, PTL DEF Spec

\* The versions of every document and every evidence are compared as an order.
THEOREM VersionsAlwaysOrdered == Spec => []VersionsOrdered
  <1>1. CInv => VersionsOrdered
    <2> SUFFICES ASSUME CInv PROVE VersionsOrdered
      OBVIOUS
    <2>1. Versions \subseteq Version
      BY CheckAssumption, Zenon DEF CInv, InputsOK, CheckAssumption, Versions
    <2> QED BY <2>1, OlderIsAnOrder, Zenon DEF VersionsOrdered
  <1> QED BY <1>1, Invariance, PTL

\* Of any document, with any dashboards and any answers, exactly the URLs whose
\* probe failed or was answered by an error are reported as dead.
THEOREM DashboardsAlwaysExact == Spec => []DashboardsExact
  BY ReportsAreExact, Invariance, PTL

\* For every catalog, with every cycle of cursors, and for every order and kind of
\* answers: what the store has as found the other system has, what it has as not found
\* the other system was asked for and has not, and no lookup asks for a page twice.
THEOREM EvidenceIsAlwaysTrue == Spec => []EvidenceIsTrue
  <1>1. Init => EInv
    <2>1. Init => DOMAIN store = {} /\ lookup = NoLookup
      BY DEF Init
    <2> QED BY <2>1 DEF EInv, FiledTrue
  <1> QED BY <1>1, StepTrue, TrueEvidence, Invariance, PTL DEF Spec
=============================================================================
