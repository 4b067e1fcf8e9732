------------------------------ MODULE DriftRules ------------------------------
(***************************************************************************)
(* The five rules of app/services/drift/rules and the score of a document  *)
(* (app/services/scoring/scoring_service.py), as functions of a document   *)
(* and of the evidence about it.                                           *)
(*                                                                         *)
(* A document is what extraction found in it, by entity type:              *)
(*   refs      its dashboards, in the order of the query;                  *)
(*   charts    its Helm charts, [chart, version];                          *)
(*   commands  its commands, each a sequence of words and of the characters*)
(*             between them;                                               *)
(*   deps      its dependencies;                                           *)
(*   owner, service   whether it names one;   others   how many entities of*)
(*             further types it has.                                       *)
(* The evidence is the records of the store and what else is given: latest *)
(* (chart -> version), observed (dependencies), deprecated (command ->     *)
(* replacement) and health (dashboard_http_status).                        *)
(*                                                                         *)
(* An alert draft is what its fingerprint is made of, so the rules engine, *)
(* which drops a draft whose fingerprint it has seen, returns a set.       *)
(***************************************************************************)
EXTENDS Integers, Sequences, FiniteSets

CONSTANTS
  Lower,      \* name -> the name in lower case
  Boundary    \* the characters that end a word of a command

(***************************************************************************)
(* dashboard_dead.  A dashboard is a URL or a reference as grafana:slug; a *)
(* URL has a page (its scheme, host and path), the words of its path, and a*)
(* query, of which sensitive values are replaced in evidence.  A URL whose *)
(* port is not a number in range cannot be parsed.                         *)
(***************************************************************************)
IsUrl(r) == r.kind = "url"
Safe(r) == IF IsUrl(r) /\ r.secret # "none" THEN [r EXCEPT !.secret = "redacted"]
           ELSE r

RefMatches(ref, target) ==
  IF IsUrl(ref) THEN ref.page = target.page ELSE ref.slug \in target.words

DeadStatuses == {"not_found", "collection_error", "dead"}

\* Mutant: an answer that is an error counts as an answer.
IsDeadByStatus(record) ==
  record.status \in DeadStatuses \/ record.error = "text"

IsDead(record) ==
  record.status \in DeadStatuses \/ record.error = "text" \/ record.code >= 400

Matching(doc, target) ==
  {i \in DOMAIN doc.refs : RefMatches(doc.refs[i], target)}

DeadDashboards(doc, records, given) ==
  LET targets == {x[2] : x \in {y \in DOMAIN records : y[1] = "http"}}
      matched == {t \in targets : Matching(doc, t) # {}}
      First(t) == CHOOSE i \in Matching(doc, t) :
                    \A j \in Matching(doc, t) : i <= j
  IN IF doc.refs = <<>> THEN {}
     ELSE IF matched # {}
     THEN {[rule |-> "dashboard_dead", severity |-> "medium",
            dashboard |-> Safe(doc.refs[First(t)]), target |-> Safe(t),
            found |-> records[<<"http", t>>]] :
            t \in {u \in matched : IsDead(records[<<"http", u>>])}}
     ELSE IF given.health \in DeadStatuses
     THEN {[rule |-> "dashboard_dead", severity |-> "medium",
            first |-> Safe(doc.refs[1])]}
     ELSE {}

\* The rule raises when it has to parse a URL that cannot be.
Unparsable(doc, records) ==
  \E x \in DOMAIN records : x[1] = "http" /\ ~x[2].parses

(***************************************************************************)
(* helm_version_stale.  A version is its core of one to three numbers and, *)
(* unless it is final, the identifiers of its pre-release: numbers, or     *)
(* words, which the order of n stands for.                                 *)
(***************************************************************************)
Identifier == [num : BOOLEAN, n : Nat]
Version == [valid : BOOLEAN, core : Seq(Nat), final : BOOLEAN,
            pre : Seq(Identifier)]

Part(v, k) == IF k <= Len(v.core) THEN v.core[k] ELSE 0

CoreOlder(v, w) ==
  \E k \in 1 .. 3 : /\ Part(v, k) < Part(w, k)
                    /\ \A j \in 1 .. (k - 1) : Part(v, j) = Part(w, j)

IdBefore(x, y) == IF x.num = y.num THEN x.n < y.n ELSE x.num

\* Mutant: only the identifiers that both have are compared.
PreBeforeZip(p, q) ==
  \E k \in 1 .. Len(q) :
    /\ k <= Len(p)
    /\ \A j \in 1 .. (k - 1) : p[j] = q[j]
    /\ IdBefore(p[k], q[k])

PreBefore(p, q) ==
  \E k \in 1 .. Len(q) :
    /\ k <= Len(p) + 1
    /\ \A j \in 1 .. (k - 1) : p[j] = q[j]
    /\ k <= Len(p) => IdBefore(p[k], q[k])

SameCore(v, w) == \A k \in 1 .. 3 : Part(v, k) = Part(w, k)

\* _is_stale: the comparison of the two is negative.
Older(v, w) ==
  /\ v.valid /\ w.valid
  /\ \/ CoreOlder(v, w)
     \/ SameCore(v, w) /\ ~v.final /\ w.final
     \/ SameCore(v, w) /\ ~v.final /\ ~w.final /\ PreBefore(v.pre, w.pre)

StaleCharts(doc, given) ==
  {[rule |-> "helm_version_stale", severity |-> "medium", chart |-> c.chart,
    current |-> c.version, latest |-> given.latest[c.chart]] :
    c \in {x \in doc.charts : /\ x.chart \in DOMAIN given.latest
                              /\ Older(x.version, given.latest[x.chart])}}

(***************************************************************************)
(* command_deprecated: the evidence may name the command itself, or words  *)
(* it begins with; the most specific entry counts.                         *)
(***************************************************************************)
Covers(entry, command) ==
  \/ entry = command
  \/ /\ Len(entry) < Len(command)
     /\ SubSeq(command, 1, Len(entry)) = entry
     /\ command[Len(entry) + 1] \in Boundary

DeprecatedCommands(doc, given) ==
  LET entries(c) == {e \in DOMAIN given.deprecated : Covers(e, c)}
      best(c) == CHOOSE e \in entries(c) :
                   \A f \in entries(c) : Len(f) <= Len(e)
  IN {[rule |-> "command_deprecated", severity |-> "medium", command |-> c,
       replacement |-> given.deprecated[best(c)]] :
       c \in {x \in doc.commands : entries(x) # {}}}

Undocumented(doc, given) ==
  {[rule |-> "dependency_undocumented", severity |-> "medium",
    dependency |-> x, documented |-> {Lower[d] : d \in doc.deps}] :
    x \in {Lower[o] : o \in given.observed} \ {Lower[d] : d \in doc.deps}}

OwnerMissing(doc) ==
  IF doc.owner THEN {} ELSE {[rule |-> "owner_missing", severity |-> "high"]}

\* RulesEngine.evaluate with the rules of the audit scan.
Evaluated(doc, records, given) ==
  OwnerMissing(doc) \cup DeadDashboards(doc, records, given)
    \cup Undocumented(doc, given) \cup StaleCharts(doc, given)
    \cup DeprecatedCommands(doc, given)

(***************************************************************************)
(* The score: deductions for open alerts by severity, and for what         *)
(* extraction did not find, from 100 down to 0.                            *)
(***************************************************************************)
Open(alerts, severity) == Cardinality({a \in alerts : a.severity = severity})

AlertDeduction(alerts) ==
  30 * Open(alerts, "critical") + 20 * Open(alerts, "high")
    + 10 * Open(alerts, "medium") + 5 * Open(alerts, "low")

Entities(doc) ==
  Len(doc.refs) + Cardinality(doc.charts) + Cardinality(doc.commands)
    + Cardinality(doc.deps) + doc.others
    + (IF doc.owner THEN 1 ELSE 0) + (IF doc.service THEN 1 ELSE 0)

ExtractionDeduction(doc) ==
  (IF doc.owner THEN 0 ELSE 15) + (IF doc.service THEN 0 ELSE 10)
    + (IF Entities(doc) < 3 THEN 5 ELSE 0)

ScoreOf(alerts, doc) ==
  LET rest == 100 - (AlertDeduction(alerts) + ExtractionDeduction(doc))
  IN IF rest < 0 THEN 0 ELSE rest
=============================================================================
