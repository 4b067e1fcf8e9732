------------------------------ MODULE DriftCheck ------------------------------
(***************************************************************************)
(* The check of one document: evidence about it is collected into a store, *)
(* the rules are evaluated, and the document is scored                     *)
(* (app/services/audit/audit_scan_service.py, for one document; AlertScan  *)
(* has the loop over all and the persistence).                             *)
(*                                                                         *)
(* The audit scan probes the dashboards and gives the rules no evidence    *)
(* but the store.  The other collectors and the other evidence the rules   *)
(* read are for callers of their own; such a caller is modelled as a       *)
(* document with other targets, and evidence that is given.                *)
(***************************************************************************)
EXTENDS Collectors, DriftRules

CONSTANTS
  Cases,       \* the documents considered, with what else is given: records
               \* [doc, given, catalog, asks], where catalog is a catalog of
               \* incident.io (page -> [holds, next]) and asks is the set of
               \* targets of the other collectors, <<collector, name>>
  Known,       \* the targets whose request can be made (names, settings)
  FirstPage,   \* the page that is asked for without a cursor
  NoCursor     \* the end of a catalog

ASSUME CheckAssumption ==
  /\ Codes \subseteq 100 .. 599
  /\ \A i \in Cases :
       /\ \A c \in i.doc.charts : c.version \in Version
       /\ \A c \in DOMAIN i.given.latest : i.given.latest[c] \in Version
       /\ \A x \in i.asks : /\ x = <<x[1], x[2]>>
                            /\ x[1] \in {"kubernetes", "github", "incidentio"}
       /\ FirstPage \in DOMAIN i.catalog /\ IsFiniteSet(DOMAIN i.catalog)
       /\ \A p \in DOMAIN i.catalog :
            i.catalog[p].next \in (DOMAIN i.catalog \ {FirstPage}) \cup {NoCursor}

VARIABLES
  doc,         \* the document
  given,       \* what is given besides the store
  catalog,     \* the catalog of incident.io
  stage,       \* "collect", "done", or "raised"
  todo,        \* the targets that are not collected yet
  lookup,      \* the incident.io lookup in progress, or NoLookup
  store,       \* EvidenceStore._records
  answers,     \* history: target -> the answer that settled it
  drafts,      \* what the rules returned
  score        \* the score of the document

inputs == <<doc, given, catalog>>
vars == <<inputs, stage, todo, lookup, store, answers, drafts, score>>

NoLookup == [target |-> NoCursor]

\* _dashboard_urls: the distinct URLs, and no other reference.
DashboardUrls(d) ==
  {<<"http", d.refs[i]>> : i \in {j \in DOMAIN d.refs : IsUrl(d.refs[j])}}

Init ==
  /\ \E i \in Cases :
       /\ doc = i.doc /\ given = i.given /\ catalog = i.catalog
       /\ todo = DashboardUrls(i.doc) \cup i.asks
  /\ stage = "collect"
  /\ lookup = NoLookup
  /\ store = <<>> /\ answers = <<>> /\ drafts = {} /\ score = 100

\* The collector returns p for x, which the caller files; a settled it.
File(x, p, a) ==
  /\ store' = Upserted(store, x[1], x[2], p)
  /\ answers' = [y \in DOMAIN answers \cup {x} |->
                   IF y = x THEN a ELSE answers[y]]
  /\ todo' = todo \ {x}

Collecting == stage = "collect" /\ lookup = NoLookup

\* A URL that cannot be parsed, or that is not public, is not asked.
Probe(x) ==
  /\ Collecting /\ x \in todo /\ x[1] = "http"
  /\ \E a \in Answers({"timeout", "failed", "unsafe"}) :
       /\ ~x[2].parses => a.kind = "unsafe"
       /\ File(x, ProbePayload(a), a)
  /\ UNCHANGED <<inputs, stage, lookup, drafts, score>>

FindDeployment(x) ==
  /\ Collecting /\ x \in todo /\ x[1] = "kubernetes"
  /\ \E a \in Answers({"timeout", "failed", "badbody"}) :
       File(x, DeploymentPayload(x \in Known, a), a)
  /\ UNCHANGED <<inputs, stage, lookup, drafts, score>>

FindFile(x) ==
  /\ Collecting /\ x \in todo /\ x[1] = "github"
  /\ \E a \in Answers({"failed", "directory"}) :
       File(x, FilePayload(x \in Known, a), a)
  /\ UNCHANGED <<inputs, stage, lookup, drafts, score>>

(***************************************************************************)
(* IncidentIOCollector.collect_service: page after page, until one names   *)
(* the service, there is no cursor, or the cursor was followed before.     *)
(***************************************************************************)
StartLookup(x) ==
  /\ Collecting /\ x \in todo /\ x[1] = "incidentio"
  /\ IF x \in Known
     THEN /\ lookup' = [target |-> x, page |-> FirstPage, seen |-> {},
                        asked |-> 0]
          /\ UNCHANGED <<store, answers, todo>>
     ELSE /\ File(x, Failure("text"), [kind |-> "failed", code |-> 0])
          /\ UNCHANGED lookup
  /\ UNCHANGED <<inputs, stage, drafts, score>>

\* Mutant: a cursor is remembered only by the request that follows it.
FollowLast(c) ==
  lookup' = [lookup EXCEPT !.page = c, !.seen = {c}, !.asked = @ + 1]

Follow(c) ==
  lookup' = [lookup EXCEPT !.page = c, !.seen = @ \cup {c}, !.asked = @ + 1]

EndLookup(p, a) ==
  File(lookup.target, p, a) /\ lookup' = NoLookup

ReadPage ==
  /\ stage = "collect" /\ lookup # NoLookup
  /\ LET page == catalog[lookup.page]
         name == lookup.target[2]
         good == [kind |-> "answered", code |-> 200]
     IN \/ name \in page.holds /\ EndLookup(Found, good)
        \/ /\ name \notin page.holds
           /\ page.next = NoCursor \/ page.next \in lookup.seen
           /\ EndLookup(Missing, good)
        \/ /\ name \notin page.holds
           /\ page.next # NoCursor /\ page.next \notin lookup.seen
           /\ Follow(page.next)
           /\ UNCHANGED <<store, answers, todo>>
  /\ UNCHANGED <<inputs, stage, drafts, score>>

\* No page, an answer that is an error, or a body that cannot be used.
PageFails ==
  /\ stage = "collect" /\ lookup # NoLookup
  /\ \E a \in Answers({"timeout", "failed", "badbody"}) :
       ~Success(a) /\ EndLookup(Failure(Message(a)), a)
  /\ UNCHANGED <<inputs, stage, drafts, score>>

(***************************************************************************)
(* The rules and the score.  The drafts are the open alerts of the document*)
(* when it is scored (see AlertScan).                                      *)
(***************************************************************************)
Evaluate ==
  /\ Collecting /\ todo = {}
  /\ ~Unparsable(doc, store)
  /\ drafts' = Evaluated(doc, store, given)
  /\ score' = ScoreOf(drafts', doc)
  /\ stage' = "done"
  /\ UNCHANGED <<inputs, todo, lookup, store, answers>>

\* One URL that cannot be parsed ends the scan, of this document and of the rest.
EvaluateRaises ==
  /\ Collecting /\ todo = {}
  /\ Unparsable(doc, store)
  /\ stage' = "raised"
  /\ UNCHANGED <<inputs, todo, lookup, store, answers, drafts, score>>

Next ==
  \/ \E x \in todo : \/ Probe(x) \/ FindDeployment(x) \/ FindFile(x)
                     \/ StartLookup(x)
  \/ ReadPage \/ PageFails \/ Evaluate \/ EvaluateRaises

Spec == Init /\ [][Next]_vars

(***************************************************************************)
(* Properties                                                              *)
(***************************************************************************)
Unreachable(a) == a.kind \in {"failed", "unsafe"} \/ a.code >= 400

\* A document is told that a dashboard is dead exactly for those of its URLs
\* whose probe failed or was answered by an error, whatever else it names.
\* (A probe that timed out leaves a blank message, and counts as alive; URLs that
\* differ in a sensitive value only are told apart by nothing in the alert.)
DashboardsExact ==
  stage = "done" =>
    \A x \in DashboardUrls(doc) :
      (\E a \in drafts : a.rule = "dashboard_dead" /\ "target" \in DOMAIN a
                           /\ a.target = Safe(x[2]))
        <=> \E y \in DashboardUrls(doc) :
              Safe(y[2]) = Safe(x[2]) /\ Unreachable(answers[y])

\* The pages that the cursors of a catalog lead to: those in every set of pages
\* that has the first and, with a page, the one its cursor names.
Closed(P, c) ==
  FirstPage \in P /\ \A p \in P : c[p].next # NoCursor => c[p].next \in P

Reached(c) == {p \in DOMAIN c : \A P \in SUBSET DOMAIN c : Closed(P, c) => p \in P}

\* What the store says of the targets of the other collectors is so: found only
\* what the other system has, not found only what it denied, a service on no
\* page of a catalog that was read to its end, and no page asked for again.
EvidenceIsTrue ==
  /\ \A x \in DOMAIN store : x[1] # "http" /\ answers[x].kind # "timeout" =>
       LET there == IF x[1] = "incidentio"
                    THEN \E p \in Reached(catalog) : x[2] \in catalog[p].holds
                    ELSE Success(answers[x])
           asked == /\ x \in Known /\ answers[x].kind = "answered"
                    /\ Success(answers[x]) \/ answers[x].code = 404
       IN /\ store[x].status = "found" => there /\ asked
          /\ store[x].status = "not_found" => ~there /\ asked
  /\ lookup # NoLookup => lookup.asked <= Cardinality(DOMAIN catalog)

\* Among the versions at hand, the comparison written by hand is an order: no two
\* are older than each other, older than older is older, and two that are not
\* older either way are the same version.
Versions ==
  {c.version : c \in doc.charts}
    \cup {given.latest[c] : c \in DOMAIN given.latest}

SameVersion(v, w) ==
  SameCore(v, w) /\ v.final = w.final /\ (~v.final => v.pre = w.pre)

VersionsOrdered ==
  \A u, v, w \in {x \in Versions : x.valid} :
    /\ ~(Older(u, v) /\ Older(v, u))
    /\ Older(u, v) /\ Older(v, w) => Older(u, w)
    /\ Older(u, v) \/ Older(v, u) \/ SameVersion(u, v)
=============================================================================
