---------------------------- MODULE MCAuditReport ----------------------------
(***************************************************************************)
(* Model values for AuditReport.                                           *)
(***************************************************************************)
EXTENDS AuditReport, TLC

CONSTANTS d1, d2, d3, a1, a2, a3, high, low

SomeDocs == {d1, d2, d3}
SomeAlerts == {a1, a2, a3}
TwoSeverities == {high, low}
OneLow == [a \in SomeAlerts |-> IF a = a3 THEN low ELSE high]
SomeScores == {40, 70}
Alike == Permutations(SomeDocs) \cup Permutations({a1, a2})
=============================================================================
