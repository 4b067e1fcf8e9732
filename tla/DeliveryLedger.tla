--------------------------- MODULE DeliveryLedger ---------------------------
(***************************************************************************)
(* What notification_service.py promises of each delivery: it is attempted *)
(* at most MAX_ATTEMPTS times, one attempt after the other, and each is on *)
(* record before the target can get anything.  An attempt reaches the      *)
(* target at most once and ends delivered, failed, or without a word; only *)
(* one that the target confirmed makes the delivery delivered, and then    *)
(* there is no other.                                                      *)
(*                                                                         *)
(* This is the abstract specification that module NotificationDelivery,    *)
(* with its runs, queue, senders and stale objects, is shown to implement. *)
(***************************************************************************)
EXTENDS Naturals

CONSTANTS
  Keys,        \* idempotency keys
  MaxAttempts  \* MAX_ATTEMPTS

VARIABLES
  row,       \* [Keys -> Delivery]: notification_deliveries, as committed
  received,  \* [Keys -> Nat]: how often the target got it
  attempt    \* [Keys -> Phase]: how far the attempt at hand is, if there is one

Phase == {"none", "open", "confirmed", "unanswered"}

NoRow == [status |-> "none", attempts |-> 0, stamped |-> FALSE, error |-> FALSE]

Init ==
  /\ row = [k \in Keys |-> NoRow]
  /\ received = [k \in Keys |-> 0]
  /\ attempt = [k \in Keys |-> "none"]

Unsent(k) == row[k].status \notin {"none", "delivered"}
Set(k, delivery) == row' = [row EXCEPT ![k] = delivery]
Turn(k, from, to) == attempt[k] = from /\ attempt' = [attempt EXCEPT ![k] = to]

Create(k) ==
  /\ row[k] = NoRow
  /\ Set(k, [NoRow EXCEPT !.status = "pending"])
  /\ UNCHANGED <<received, attempt>>

Begin(k) ==
  /\ Unsent(k) /\ row[k].attempts < MaxAttempts
  /\ Set(k, [row[k] EXCEPT !.status = "sending", !.attempts = @ + 1, !.error = FALSE])
  /\ Turn(k, "none", "open")
  /\ UNCHANGED received

\* "maximum delivery attempts reached"
Refuse(k) ==
  /\ Unsent(k) /\ row[k].attempts = MaxAttempts /\ attempt[k] = "none"
  /\ Set(k, [row[k] EXCEPT !.status = "failed", !.error = TRUE])
  /\ UNCHANGED <<received, attempt>>

Reach(k) ==
  /\ received' = [received EXCEPT ![k] = @ + 1]
  /\ Turn(k, "open", "confirmed") \/ Turn(k, "open", "unanswered")
  /\ UNCHANGED row

Miss(k) ==
  /\ Turn(k, "open", "unanswered")
  /\ UNCHANGED <<row, received>>

Deliver(k) ==
  /\ Set(k, [row[k] EXCEPT !.status = "delivered", !.stamped = TRUE, !.error = FALSE])
  /\ Turn(k, "confirmed", "none")
  /\ UNCHANGED received

Fail(k) ==
  /\ Set(k, [row[k] EXCEPT !.status = "failed", !.error = TRUE])
  /\ Turn(k, "unanswered", "none")
  /\ UNCHANGED received

\* the sender dies, is cancelled, or cannot write
Abandon(k) ==
  /\ \E phase \in Phase \ {"none"} : Turn(k, phase, "none")
  /\ UNCHANGED <<row, received>>

Next ==
  \E k \in Keys :
    \/ Create(k) \/ Begin(k) \/ Refuse(k)
    \/ Reach(k) \/ Miss(k)
    \/ Deliver(k) \/ Fail(k) \/ Abandon(k)

Spec == Init /\ [][Next]_<<row, received, attempt>>
=============================================================================
