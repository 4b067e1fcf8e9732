------------------------------ MODULE RateLimit ------------------------------
(***************************************************************************)
(* The limit on heavy requests of app/dependencies/rate_limit.py: one      *)
(* deque of the times of the admitted requests per subject (an API key, or *)
(* the address of a client without one), in the memory of one API process. *)
(*                                                                         *)
(* A deque is kept with its history: log[s] holds every time that was ever *)
(* appended for s, and the deque is what follows its first front[s]        *)
(* elements.  So popleft() moves front, append() appends to log, and the   *)
(* properties can speak of the requests the deque has forgotten.  The      *)
(* dependency never awaits, so a request is decided in one step.           *)
(***************************************************************************)
EXTENDS Integers, Sequences

CONSTANTS
  Subjects,   \* API keys and addresses
  Limit,      \* settings.heavy_endpoint_rate_limit
  Window,     \* settings.rate_limit_window_seconds
  MaxTime     \* bound on the clock

ASSUME LimitAssumption == Limit \in Int /\ Window \in Int /\ MaxTime \in Nat

VARIABLES
  now,        \* time.monotonic()
  log,        \* subject -> the times of its admitted requests, oldest first
  front       \* subject -> how many of them have left its deque

limitVars == <<now, log, front>>

LimitTypeOK ==
  /\ now \in Nat
  /\ log \in [Subjects -> Seq(Nat)]
  /\ front \in [Subjects -> Nat]
  /\ \A s \in Subjects : front[s] <= Len(log[s])

LimitInit ==
  /\ now = 0
  /\ log = [s \in Subjects |-> <<>>]
  /\ front = [s \in Subjects |-> 0]

\* A limit or a window that is not positive switches the check off.
Enforced == Limit > 0 /\ Window > 0

\* Mutant: a hit exactly as old as the window still counts.
ExpiredLater(s, i) == log[s][i] < now - Window

\* Mutant: a hit leaves one unit before it is as old as the window.
ExpiredSooner(s, i) == log[s][i] <= now - Window + 1

Expired(s, i) == log[s][i] <= now - Window

\* k is where the deque of s begins when the popleft loop ends.
PoppedTo(s, k) ==
  /\ k \in front[s] .. Len(log[s])
  /\ \A i \in (front[s] + 1) .. k : Expired(s, i)
  /\ k < Len(log[s]) => ~Expired(s, k + 1)

\* The request of s is admitted, and recorded when the limit is enforced.
Admit(s) ==
  /\ IF Enforced
     THEN \E k \in 0 .. Len(log[s]) :
            /\ PoppedTo(s, k)
            /\ Len(log[s]) - k < Limit
            /\ front' = [front EXCEPT ![s] = k]
            /\ log' = [log EXCEPT ![s] = Append(@, now)]
     ELSE UNCHANGED <<log, front>>
  /\ UNCHANGED now

\* The request of s is answered with 429; what the loop popped stays popped.
Refuse(s) ==
  /\ Enforced
  /\ \E k \in 0 .. Len(log[s]) :
       /\ PoppedTo(s, k)
       /\ Len(log[s]) - k >= Limit
       /\ front' = [front EXCEPT ![s] = k]
  /\ UNCHANGED <<now, log>>

Elapse == now < MaxTime /\ now' = now + 1 /\ UNCHANGED <<log, front>>

\* The deques are in memory: a new API process starts with empty ones.
Forget ==
  /\ log' = [s \in Subjects |-> <<>>]
  /\ front' = [s \in Subjects |-> 0]
  /\ UNCHANGED now

(***************************************************************************)
(* Of one subject, no more than Limit requests are admitted in any window: *)
(* the times of two that are Limit apart differ by the window at least.    *)
(***************************************************************************)
WithinLimit ==
  Enforced =>
    \A s \in Subjects : \A i \in 1 .. Len(log[s]) :
      i + Limit <= Len(log[s]) => log[s][i + Limit] - log[s][i] >= Window

(***************************************************************************)
(* A request of s may be refused only when Limit requests of s were        *)
(* admitted less than a window ago.                                        *)
(***************************************************************************)
AtLimit(s) ==
  /\ Limit <= Len(log[s])
  /\ now - log[s][Len(log[s]) - Limit + 1] < Window
=============================================================================
