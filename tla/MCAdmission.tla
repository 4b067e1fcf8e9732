----------------------------- MODULE MCAdmission -----------------------------
(***************************************************************************)
(* A small instance of Admission for TLC.                                  *)
(***************************************************************************)
EXTENDS Admission

CONSTANTS r1, r2, k, s1, s2

OneRequest == {r1}
OneUpload == {r2}
OneSubject == {k}
OneKey == [r \in {r1, r2} |-> k]
TwoSources == {s1, s2}

FirstNight == {1}
AllProducers == {r1} \cup {1}
AllCronJobs == {<<1, NoSource>>}
AllJobIds == {<<r, NoSource>> : r \in {r1}} \cup AllCronJobs
               \cup ((1 .. MaxDay) \X {s1, s2})

AllFaults == FaultKinds
=============================================================================
