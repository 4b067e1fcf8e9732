----------------------------- MODULE MCAuditJobs -----------------------------
(***************************************************************************)
(* Small instances of AuditJobs for TLC.                                   *)
(***************************************************************************)
EXTENDS AuditJobs, TLC

CONSTANTS j1, j2, w1, w2

OneJob == {j1}
TwoJobs == {j1, j2}
OneWorker == {w1}
TwoWorkers == {w1, w2}

NoFaults == {}
ReliableFaults == {"api_crash", "worker_crash", "timeout", "db_error"}
AllFaults == FaultKinds
OnlyLostReply == {"lost_reply"}
OnlyCrash == {"worker_crash"}

Slots == Permutations(TwoWorkers)
==============================================================================
