---------------------------- MODULE MCDriftCheck ----------------------------
(***************************************************************************)
(* Documents, evidence and catalogs for TLC.                               *)
(***************************************************************************)
EXTENDS DriftCheck

Url(page, secret) == [kind |-> "url", page |-> page, secret |-> secret,
                      parses |-> TRUE, words |-> {page}]
BadPort == [Url("pay", "none") EXCEPT !.parses = FALSE]
Slug(s) == [kind |-> "slug", slug |-> s]

Plain == [refs |-> <<>>, charts |-> {}, commands |-> {}, deps |-> {},
          owner |-> TRUE, service |-> TRUE, others |-> 1]

\* Distinct pages, one page under two secrets, references that match or not.
Dashboards == {
  <<Url("pay", "none")>>, <<Url("pay", "none"), Url("ship", "none")>>,
  <<Url("pay", "a"), Url("pay", "b")>>, <<Url("pay", "none"), Url("pay", "a")>>,
  <<Slug("pay"), Url("pay", "none"), Url("ship", "a")>>, <<Slug("ship")>>,
  <<Url("pay", "none"), BadPort>> }

V(core, pre) == [valid |-> TRUE, core |-> core, pre |-> pre,
                 final |-> pre = <<>>]
Num(n) == [num |-> TRUE, n |-> n]
Word(n) == [num |-> FALSE, n |-> n]
SomeVersions == {
  V(<<1>>, <<>>), V(<<1, 0>>, <<Word(1)>>), V(<<1, 0, 0>>, <<Word(1), Num(2)>>),
  V(<<1>>, <<Word(1), Num(10)>>), V(<<1>>, <<Word(1), Word(0)>>),
  V(<<1>>, <<Num(3)>>), V(<<1, 2>>, <<>>), V(<<1, 10>>, <<>>),
  [valid |-> FALSE, core |-> <<>>, pre |-> <<>>, final |-> TRUE] }

Nothing == [latest |-> <<>>, observed |-> {}, deprecated |-> <<>>, health |-> ""]
Get == <<"kubectl", " ", "get">>
GetPods == <<"kubectl", " ", "get", " ", "pods">>
Deprecations == [c \in {<<"kubectl">>, Get} |-> Len(c)]

NoCatalog == [p \in {0} |-> [holds |-> {}, next |-> 9]]
Case(d, g) == [doc |-> d, given |-> g, catalog |-> NoCatalog, asks |-> {}]

\* What an audit scan meets; a document with another owner or service.
ScanCases ==
  {Case([Plain EXCEPT !.refs = r, !.owner = o], [Nothing EXCEPT !.health = h]) :
     r \in Dashboards, o \in BOOLEAN, h \in {"", "dead"}}

\* What a caller with evidence of its own may give.
RuleCases ==
  {Case([Plain EXCEPT !.charts = {[chart |-> "api", version |-> v],
                                  [chart |-> "db", version |-> w]}],
        [Nothing EXCEPT !.latest = [c \in {"api"} |-> l]]) :
     v \in SomeVersions, w \in SomeVersions, l \in SomeVersions}
    \cup
  {Case([Plain EXCEPT !.commands = {c}, !.deps = d, !.service = FALSE],
        [Nothing EXCEPT !.deprecated = Deprecations, !.observed = {"DB", "mq"}]) :
     c \in {Get, GetPods, <<"kubectl", "ctx">>, <<"kubectl-x", " ", "get">>},
     d \in {{}, {"db"}, {"DB", "mq"}}}

\* Catalogs of a first page and three cursors; 9 is the end.
SomeCatalogs ==
  {[p \in 0 .. 3 |-> [holds |-> IF p = h THEN {"pay"} ELSE {}, next |-> n[p]]] :
     h \in 0 .. 4, n \in [0 .. 3 -> {1, 2, 3, 9}]}

CollectorCases ==
  {[Case(Plain, Nothing) EXCEPT !.catalog = c, !.asks = {<<"incidentio", "pay">>}] :
     c \in SomeCatalogs}
    \cup
  {[Case(Plain, Nothing) EXCEPT !.asks =
      {<<"kubernetes", "pay">>, <<"github", "pay">>, <<"kubernetes", "no">>,
       <<"github", "no">>, <<"incidentio", "no">>}]}

AllCases == ScanCases \cup RuleCases \cup CollectorCases
Askable == {"kubernetes", "github", "incidentio"} \X {"pay"}
LowerCase == [n \in {"db", "DB", "mq"} |-> IF n = "DB" THEN "db" ELSE n]
=============================================================================
