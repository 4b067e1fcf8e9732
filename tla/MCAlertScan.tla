----------------------------- MODULE MCAlertScan -----------------------------
(***************************************************************************)
(* Small instances of AlertScan for TLC.                                   *)
(***************************************************************************)
EXTENDS AlertScan, TLC

CONSTANTS a, b, c, s1, s2, u1

OneKey == {a}
ThreeKeys == {a, b, c}

\* a and b are raised on the first document, c on the second
KeyDocs == [k \in Keys |-> IF k = c THEN 2 ELSE 1]
KeyRanks == [k \in Keys |-> IF k = b THEN 2 ELSE 1]

OneScan == {s1}
TwoScans == {s1, s2}
OneResolver == {u1}
NoResolver == {}

AllFaults == FaultKinds
OnlyErrors == {"error"}
OnlyCrash == {"crash"}
OnlyDelete == {"delete"}

SameScans == Permutations(TwoScans)
==============================================================================
