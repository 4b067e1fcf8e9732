----------------------- MODULE MCNotificationDelivery -----------------------
(***************************************************************************)
(* Small instances of NotificationDelivery for TLC.                        *)
(***************************************************************************)
EXTENDS NotificationDelivery, NotificationPlan, TLC

CONSTANTS r1, r2, s1, s2, a1, a2

TwoRuns == {r1, r2}
OneSender == {s1}
TwoSenders == {s1, s2}

Severity == a1 :> "critical" @@ a2 :> "low"

\* The first run created the alerts a1 and a2, of which a1 is severe enough;
\* the second found nothing new.
Alerts == r1 :> <<a1, a2>> @@ r2 :> <<>>

PlanAll ==
  [r \in Runs |-> PlanOf(Alerts[r], Severity, "medium", {"slack"}, TRUE)]
PlanCompletion ==
  [r \in Runs |-> PlanOf(<<>>, Severity, "medium", {"slack"}, TRUE)]

AllKeys ==
  {Key("audit_completed", NoAlert, "completion_webhook"),
   Key("alert_created", a1, "slack")}
CompletionKeys == {Key("audit_completed", NoAlert, "completion_webhook")}

AllFaults == FaultKinds
LosingFaults == {"run_stops", "queue_error", "crash", "timeout"}

\* only where both runs have the same plan
SameRuns == Permutations(TwoSenders) \cup Permutations(TwoRuns)
=============================================================================
