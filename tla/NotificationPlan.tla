-------------------------- MODULE NotificationPlan --------------------------
(***************************************************************************)
(* Which deliveries a completed audit run calls for: the loops of          *)
(* NotificationService.create_audit_notifications.  A delivery is named by *)
(* its idempotency key; the audit job is the same for all of them, so a    *)
(* key is an event, the alert it is about and a channel.                   *)
(***************************************************************************)
EXTENDS Naturals, Sequences

NoAlert == "no_alert"
AlertChannels == {"slack", "email"}             \* ALERT_CHANNELS

Key(event, alert, channel) ==
  [event |-> event, alert |-> alert, channel |-> channel]

SeverityRank == [low |-> 0, medium |-> 1, high |-> 2, critical |-> 3]

\* An unknown minimum counts as "low"; an alert of unknown severity is never
\* notified.
ShouldNotify(severity, minimum) ==
  /\ severity \in DOMAIN SeverityRank
  /\ minimum \in DOMAIN SeverityRank =>
       SeverityRank[severity] >= SeverityRank[minimum]

\* sorted(self.channels & ALERT_CHANNELS)
Sorted(channels) ==
  SelectSeq(<<"email", "slack">>, LAMBDA c : c \in channels \cap AlertChannels)

\* The alerts in the order in which the scan created them, each on every
\* channel, and last the completion webhook if its URL is configured.
PlanOf(alerts, severity, minimum, channels, webhook) ==
  LET notified == SelectSeq(alerts, LAMBDA a : ShouldNotify(severity[a], minimum))
      list == Sorted(channels)
      width == Len(list)
      AlertKey(i) ==
        Key("alert_created", notified[((i - 1) \div width) + 1],
            list[((i - 1) % width) + 1])
  IN  [i \in 1..(Len(notified) * width) |-> AlertKey(i)]
        \o IF webhook THEN <<Key("audit_completed", NoAlert, "completion_webhook")>>
                      ELSE <<>>
=============================================================================
