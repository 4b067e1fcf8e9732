--------------------- MODULE NotificationDelivery_proofs ---------------------
(***************************************************************************)
(* Theorems about NotificationDelivery, for every plan of deliveries, and  *)
(* every number of runs, senders, attempts, tries and crashes.             *)
(***************************************************************************)
EXTENDS NotificationDelivery, TLAPS

-------------------------------------------------------------------------------
(* The inductive invariant, one part per property.                           *)

Assigned ==
  \A s \in Senders :
    /\ task[s] = NoKey <=> pc[s] = "idle"
    /\ task[s] # NoKey => queue[task[s]] # "absent"

\* An idle slot holds no object.
Idle == \A s \in Senders : task[s] = NoKey => copy[s] = NoRow

\* A run has created what lies behind its position, and everything when it
\* enqueues; what is in the queue belongs to a run with everything created.
Recorded ==
  /\ \A r \in Runs :
       /\ pos[r] \in Nat \ {0}
       /\ rpc[r] = "insert" => ~AtEnd(r)
       /\ rpc[r] \in {"create", "insert"} =>
            \A i \in DOMAIN Plan[r] : i < pos[r] => Exists(Plan[r][i])
       /\ rpc[r] = "enqueue" => \A i \in DOMAIN Plan[r] : Exists(Plan[r][i])
  /\ SentAfterAllCreated
  /\ \A k \in Keys : queue[k] # "absent" => Exists(k)
  /\ \A k \in Keys : ~Exists(k) => row[k] = NoRow

\* delivered_at is never taken back, and an object that has it was read from
\* a row that has it.
Stamped ==
  /\ DeliveredWasReceived
  /\ \A s \in Senders : task[s] # NoKey =>
       /\ copy[s].stamped => row[task[s]].stamped
       /\ pc[s] = "sent" => received[task[s]] > 0

\* How far the sender of a leased delivery has got: it is the only one, and
\* holds the row as it is.
Stage(s, k) ==
  /\ queue[k] = "running"
  /\ pc[s] \in {"claim", "refresh", "post", "sent", "error"} => copy[s] = row[k]
  /\ pc[s] = "claim" => row[k].status # "delivered"
  /\ pc[s] \in {"refresh", "post", "sent", "error"} => row[k].status = "sending"
  /\ pc[s] \in {"refresh", "post"} => received[k] < row[k].attempts
  /\ pc[s] \in {"load", "claim", "refresh", "post"} =>
       received[k] <= interrupted[k]

Serving(s) ==
  task[s] # NoKey /\ leased[task[s]] =>
    /\ Stage(s, task[s])
    /\ \A t \in Senders : task[t] = task[s] => t = s

Budget(k) ==
  leased[k] =>
    /\ received[k] <= row[k].attempts
    /\ received[k] <= 1 + interrupted[k]
    /\ queue[k] \in {"absent", "queued"} => received[k] <= interrupted[k]

Inv ==
  /\ TypeOK
  /\ Assigned
  /\ Idle
  /\ Recorded
  /\ Stamped
  /\ \A s \in Senders : Serving(s)
  /\ \A k \in Keys : Budget(k)

RunAct(r) == RunStep(r) \/ Stop(r)
SenderAct(s) == SenderStep(s) \/ Crash(s)

-------------------------------------------------------------------------------
(* The operators on rows.                                                    *)

LEMMA NullRows == NoRow \in Delivery /\ PendingRow \in Delivery
  <1>1. 0 \in 0..MaxAttempts
    BY DeliveryAssumption
  <1> QED BY <1>1 DEF Delivery, Status, NoRow, PendingRow

LEMMA RowTypes ==
  ASSUME NEW o \in Delivery
  PROVE  /\ ~Exhausted(o) => Sending(o) \in Delivery
         /\ Failed(o) \in Delivery
         /\ Delivered(o) \in Delivery
  <1>1. ASSUME ~Exhausted(o)
        PROVE  Sending(o) \in Delivery
    <2>1. o.attempts + 1 \in 0..MaxAttempts
      BY <1>1, DeliveryAssumption DEF Exhausted, Delivery
    <2> QED BY <2>1 DEF Sending, Delivery, Status
  <1>2. Failed(o) \in Delivery /\ Delivered(o) \in Delivery
    BY DEF Failed, Delivered, Delivery, Status
  <1> QED BY <1>1, <1>2

LEMMA WrittenType ==
  ASSUME NEW c \in Delivery, NEW o \in Delivery, NEW n \in Delivery
  PROVE  Written(c, o, n) \in Delivery
  BY DEF Written, Delivery

\* An object that is up to date is written as it is.
LEMMA WrittenSame ==
  ASSUME NEW o \in Delivery, NEW n \in Delivery
  PROVE  Written(o, o, n) = n
  BY DEF Written, Delivery

\* What any write leaves true of the row: it exists, and delivered_at is
\* neither taken back nor left out.
LEMMA WrittenKeeps ==
  ASSUME NEW c \in Delivery, NEW o \in Delivery, NEW n \in Delivery,
         c.status # "none", n.status # "none", o.stamped => n.stamped
  PROVE  /\ Written(c, o, n).status # "none"
         /\ c.stamped => Written(c, o, n).stamped
         /\ Written(c, o, n).status \in {c.status, n.status}
         /\ n.stamped /\ (o.stamped => c.stamped) => Written(c, o, n).stamped
  BY DEF Written, Delivery

LEMMA CommitType ==
  ASSUME TypeOK, NEW s \in Senders, task[s] \in Keys, NEW n \in Delivery,
         Commit(s, n)
  PROVE  /\ row' \in [Keys -> Delivery]
         /\ copy' \in [Senders -> Delivery]
         /\ row'[task[s]] = Written(row[task[s]], copy[s], n)
         /\ \A k \in Keys : k # task[s] => row'[k] = row[k]
         /\ copy'[s] = n
         /\ \A t \in Senders : t # s => copy'[t] = copy[t]
  <1>1. Written(row[task[s]], copy[s], n) \in Delivery
    BY WrittenType DEF TypeOK
  <1> QED BY <1>1 DEF Commit, TypeOK

-------------------------------------------------------------------------------
(* Type correctness.                                                         *)

LEMMA RunType ==
  ASSUME TypeOK, NEW r \in Runs, RunAct(r)
  PROVE  TypeOK'
  <1> USE DEF TypeOK, RunGoto, Advance, slotVars
  <1>p. PendingRow \in Delivery
    BY NullRows
  <1>n. pos[r] + 1 \in Nat
    OBVIOUS
  <1>1. CASE Lookup(r)
    BY <1>1, <1>n DEF Lookup, RunPC
  <1>2. CASE Insert(r)
    BY <1>2, <1>n, <1>p DEF Insert, RunPC
  <1>3. CASE AllCreated(r)
    BY <1>3 DEF AllCreated, RunPC
  <1>4. CASE ReadExpired(r) \/ Finish(r) \/ Stop(r)
    BY <1>4 DEF ReadExpired, Finish, Stop, RunPC
  <1>5. CASE Enqueue(r)
    BY <1>5, <1>n DEF Enqueue, AddJob, Lose, QueueState
  <1> QED BY <1>1, <1>2, <1>3, <1>4, <1>5 DEF RunAct, RunStep

LEMMA TaskIsKey ==
  ASSUME TypeOK, Assigned, NEW s \in Senders, SenderAct(s)
  PROVE  task[s] \in Keys /\ task[s] # NoKey
  BY DEF TypeOK, Assigned, SenderAct, SenderStep, Load, Exhaust, Claim,
     Refresh, Post, Record, DbError, Return, Crash

LEMMA SenderType ==
  ASSUME TypeOK, Assigned, NEW s \in Senders, SenderAct(s)
  PROVE  TypeOK'
  <1> USE DEF TypeOK, Goto, PC, runVars
  <1>t. task[s] \in Keys
    BY TaskIsKey
  <1>1. CASE Load(s)
    BY <1>1, <1>t DEF Load
  <1>2. CASE Exhaust(s)
    <2>1. Failed(copy[s]) \in Delivery
      BY RowTypes
    <2>2. row' \in [Keys -> Delivery] /\ copy' \in [Senders -> Delivery]
      BY <1>2, <1>t, <2>1, CommitType DEF Exhaust
    <2> QED BY <1>2, <2>2 DEF Exhaust
  <1>3. CASE Claim(s)
    <2>1. Sending(copy[s]) \in Delivery
      BY <1>3, RowTypes DEF Claim
    <2>2. row' \in [Keys -> Delivery] /\ copy' \in [Senders -> Delivery]
      BY <1>3, <1>t, <2>1, CommitType DEF Claim
    <2> QED BY <1>3, <2>2 DEF Claim
  <1>4. CASE Refresh(s)
    BY <1>4, <1>t DEF Refresh
  <1>5. CASE Post(s)
    <2>1. received[task[s]] + 1 \in Nat
      BY <1>t
    <2> QED BY <1>5, <2>1 DEF Post
  <1>6. CASE Record(s)
    <2>1. Failed(copy[s]) \in Delivery /\ Delivered(copy[s]) \in Delivery
      BY RowTypes
    <2>2. row' \in [Keys -> Delivery] /\ copy' \in [Senders -> Delivery]
      BY <1>6, <1>t, <2>1, CommitType DEF Record
    <2> QED BY <1>6, <2>2 DEF Record
  <1>7. CASE DbError(s)
    BY <1>7 DEF DbError, Lose
  <1>8. CASE Return(s) \/ Crash(s)
    <2>1. NoRow \in Delivery
      BY NullRows
    <2>2. interrupted[task[s]] + 1 \in Nat
      BY <1>t
    <2>3. lost' \in [Keys -> BOOLEAN]
      BY <1>8, <1>t DEF Return, Lose, Crash
    <2>4. CASE Return(s)
      BY <2>4, <2>1, <2>3 DEF Return, Release, QueueState
    <2>5. CASE Crash(s)
      BY <2>5, <2>1, <2>2, <2>3 DEF Crash, Release, QueueState
    <2> QED BY <1>8, <2>4, <2>5
  <1> QED
    BY <1>1, <1>2, <1>3, <1>4, <1>5, <1>6, <1>7, <1>8 DEF SenderAct, SenderStep

LEMMA QueueType ==
  ASSUME TypeOK, NEW k \in Keys,
         GiveUp(k) \/ LeaseExpires(k) \/ \E s \in Senders : Take(s, k)
  PROVE  TypeOK'
  <1> USE DEF TypeOK, QueueState, runVars, slotVars
  <1>1. CASE GiveUp(k) \/ LeaseExpires(k)
    BY <1>1 DEF GiveUp, Lose, LeaseExpires
  <1>2. CASE \E s \in Senders : Take(s, k)
    BY <1>2 DEF Take, Goto, PC
  <1> QED BY <1>1, <1>2

-------------------------------------------------------------------------------
(* What a step leaves alone.                                                 *)

LEMMA RunFrame ==
  ASSUME Inv, NEW r \in Runs, RunAct(r)
  PROVE  /\ UNCHANGED <<tries, task, pc, copy, received, interrupted, leased>>
         /\ \A k \in Keys :
              \/ row'[k] = row[k]
              \/ ~Exists(k) /\ row'[k] = PendingRow
         /\ \A k \in Keys :
              \/ queue'[k] = queue[k]
              \/ Exists(k) /\ queue[k] = "absent" /\ queue'[k] = "queued"
  <1> USE DEF Inv, TypeOK, slotVars
  <1>1. CASE Insert(r)
    BY <1>1 DEF Insert
  <1>2. CASE Enqueue(r)
    <2>1. pos[r] \in DOMAIN Plan[r]
      BY <1>2, DeliveryAssumption DEF Enqueue, AtEnd, Recorded
    <2>2. Exists(Current(r))
      BY <1>2, <2>1 DEF Enqueue, Recorded, Current
    <2> QED BY <1>2, <2>2 DEF Enqueue, AddJob
  <1>3. CASE Lookup(r) \/ AllCreated(r) \/ ReadExpired(r) \/ Finish(r) \/ Stop(r)
    BY <1>3 DEF Lookup, AllCreated, ReadExpired, Finish, Stop
  <1> QED BY <1>1, <1>2, <1>3 DEF RunAct, RunStep

LEMMA SenderFrame ==
  ASSUME Inv, NEW s \in Senders, SenderAct(s)
  PROVE  /\ task[s] \in Keys /\ task[s] # NoKey
         /\ UNCHANGED <<rpc, pos, expired, leased, tries>>
         /\ \A k \in Keys : k # task[s] =>
              /\ row'[k] = row[k] /\ queue'[k] = queue[k]
              /\ received'[k] = received[k] /\ interrupted'[k] = interrupted[k]
         /\ \A t \in Senders : t # s =>
              task'[t] = task[t] /\ pc'[t] = pc[t] /\ copy'[t] = copy[t]
         /\ \/ task'[s] = task[s] /\ pc'[s] # "idle"
            \/ task'[s] = NoKey /\ pc'[s] = "idle"
         /\ queue'[task[s]] # "absent"
  <1> USE DEF Inv, TypeOK, Goto, runVars
  <1>t. /\ task[s] \in Keys /\ task[s] # NoKey /\ pc[s] # "idle"
        /\ queue[task[s]] # "absent"
    BY TaskIsKey DEF Assigned
  <1>c. \A n : Commit(s, n) =>
          /\ \A k \in Keys : k # task[s] => row'[k] = row[k]
          /\ \A t \in Senders : t # s => copy'[t] = copy[t]
    BY <1>t DEF Commit
  <1>1. CASE Load(s) \/ Refresh(s) \/ DbError(s)
    BY <1>1, <1>t DEF Load, Refresh, DbError
  <1>2. CASE Exhaust(s)
    BY <1>2, <1>t, <1>c DEF Exhaust
  <1>3. CASE Claim(s)
    BY <1>3, <1>t, <1>c DEF Claim
  <1>4. CASE Post(s)
    BY <1>4, <1>t DEF Post
  <1>5. CASE Record(s)
    BY <1>5, <1>t, <1>c DEF Record
  <1>6. CASE Return(s) \/ Crash(s)
    BY <1>6, <1>t DEF Return, Crash, Release
  <1> QED
    BY <1>1, <1>2, <1>3, <1>4, <1>5, <1>6, <1>t DEF SenderAct, SenderStep

\* A sender writes only from "claim", "sent" or "error", what it makes of its
\* object.
LEMMA SenderWrites ==
  ASSUME Inv, NEW s \in Senders, SenderAct(s), NEW k \in Keys, k = task[s]
  PROVE  \/ row'[k] = row[k]
         \/ /\ pc[s] \in {"claim", "sent", "error"}
            /\ \E n \in Delivery :
                 /\ row'[k] = Written(row[k], copy[s], n)
                 /\ n.status # "none"
                 /\ copy[s].stamped => n.stamped
                 /\ n.status = "delivered" => n.stamped /\ pc[s] = "sent"
                 /\ n.stamped => copy[s].stamped \/ pc[s] = "sent"
                 /\ copy'[s] = n
  <1> USE DEF TypeOK
  <1>i. TypeOK
    BY DEF Inv
  <1>o. copy[s] \in Delivery
    BY <1>i
  <1>c. ASSUME NEW n \in Delivery, Commit(s, n)
        PROVE  row'[k] = Written(row[k], copy[s], n) /\ copy'[s] = n
    BY <1>i, <1>c, CommitType
  <1>f. /\ Failed(copy[s]).status = "failed"
        /\ Failed(copy[s]).stamped = copy[s].stamped
        /\ Sending(copy[s]).status = "sending"
        /\ Sending(copy[s]).stamped = copy[s].stamped
        /\ Delivered(copy[s]).status = "delivered"
        /\ Delivered(copy[s]).stamped = TRUE
    BY <1>o DEF Failed, Sending, Delivered, Delivery
  <1>n. /\ Failed(copy[s]) \in Delivery /\ Delivered(copy[s]) \in Delivery
        /\ ~Exhausted(copy[s]) => Sending(copy[s]) \in Delivery
    BY <1>o, RowTypes
  <1>1. CASE Exhaust(s)
    BY <1>1, <1>c, <1>f, <1>n DEF Exhaust
  <1>2. CASE Claim(s)
    BY <1>2, <1>c, <1>f, <1>n DEF Claim
  <1>3. CASE Record(s)
    BY <1>3, <1>c, <1>f, <1>n DEF Record
  <1>4. CASE row' = row
    BY <1>4
  <1> QED
    BY <1>1, <1>2, <1>3, <1>4 DEF SenderAct, SenderStep, Load, Refresh, Post,
       DbError, Return, Crash

\* Rows are only ever added.
LEMMA StillExists ==
  ASSUME Inv, [Next]_vars, NEW k \in Keys, Exists(k)
  PROVE  Exists(k)'
  <1> USE DEF Exists
  <1>1. ASSUME NEW r \in Runs, RunAct(r)
        PROVE  Exists(k)'
    BY <1>1, RunFrame DEF PendingRow, NoRow
  <1>2. ASSUME NEW s \in Senders, SenderAct(s)
        PROVE  Exists(k)'
    <2>1. CASE k = task[s]
      <3>1. row[k] \in Delivery /\ copy[s] \in Delivery
        BY DEF Inv, TypeOK
      <3> QED BY <1>2, <2>1, <3>1, SenderWrites, WrittenKeeps
    <2>2. CASE k # task[s]
      BY <1>2, <2>2, SenderFrame
    <2> QED BY <2>1, <2>2
  <1>3. CASE row' = row
    BY <1>3
  <1> QED
    BY <1>1, <1>2, <1>3 DEF Next, vars, RunAct, SenderAct, GiveUp,
       LeaseExpires, Take


-------------------------------------------------------------------------------
(* The steps of the invariant.                                               *)

LEMMA TypeStep ==
  ASSUME Inv, [Next]_vars
  PROVE  TypeOK'
  <1>1. CASE UNCHANGED vars
    BY <1>1 DEF vars, Inv, TypeOK
  <1>2. CASE Next
    BY <1>2, RunType, SenderType, QueueType DEF Next, Inv, RunAct, SenderAct
  <1> QED BY <1>1, <1>2

LEMMA AssignedStep ==
  ASSUME Inv, [Next]_vars
  PROVE  Assigned'
  <1> USE DEF Assigned
  <1>i. Assigned /\ TypeOK
    BY DEF Inv
  <1>1. CASE UNCHANGED vars
    BY <1>1, <1>i DEF vars
  <1>2. ASSUME NEW r \in Runs, RunAct(r)
        PROVE  Assigned'
    BY <1>2, <1>i, RunFrame DEF TypeOK
  <1>3. ASSUME NEW s \in Senders, SenderAct(s)
        PROVE  Assigned'
    <2>1. ASSUME NEW t \in Senders, t # s
          PROVE  /\ task'[t] = NoKey <=> pc'[t] = "idle"
                 /\ task'[t] # NoKey => queue'[task'[t]] # "absent"
      <3>1. task'[t] = task[t] /\ pc'[t] = pc[t]
        BY <1>3, <2>1, SenderFrame
      <3>2. task[t] \in Keys => queue'[task[t]] = queue[task[t]]
                                 \/ task[t] = task[s]
        BY <1>3, SenderFrame
      <3>3. queue'[task[s]] # "absent"
        BY <1>3, SenderFrame
      <3> QED BY <1>i, <3>1, <3>2, <3>3 DEF TypeOK
    <2>2. /\ task'[s] = NoKey <=> pc'[s] = "idle"
          /\ task'[s] # NoKey => queue'[task'[s]] # "absent"
      BY <1>3, SenderFrame
    <2> QED BY <2>1, <2>2
  <1>4. ASSUME NEW k \in Keys, GiveUp(k) \/ LeaseExpires(k)
        PROVE  Assigned'
    BY <1>4, <1>i DEF GiveUp, LeaseExpires, slotVars, TypeOK
  <1>5. ASSUME NEW k \in Keys, NEW s \in Senders, Take(s, k)
        PROVE  Assigned'
    BY <1>5, <1>i, DeliveryAssumption DEF Take, Goto, TypeOK
  <1> QED
    BY <1>1, <1>2, <1>3, <1>4, <1>5 DEF Next, RunAct, SenderAct

\* Where a run stands relative to what it has created.
LEMMA PositionStep ==
  ASSUME Inv, [Next]_vars, NEW r \in Runs
  PROVE  /\ pos'[r] \in Nat \ {0}
         /\ rpc'[r] = "insert" => ~AtEnd(r)'
         /\ rpc'[r] \in {"create", "insert"} =>
              \A i \in DOMAIN Plan[r] : i < pos'[r] => Exists(Plan[r][i])'
         /\ rpc'[r] = "enqueue" => \A i \in DOMAIN Plan[r] : Exists(Plan[r][i])'
  <1> USE DEF TypeOK, AtEnd
  <1>i. /\ TypeOK
        /\ pos[r] \in Nat \ {0}
        /\ rpc[r] = "insert" => ~AtEnd(r)
        /\ rpc[r] \in {"create", "insert"} =>
             \A i \in DOMAIN Plan[r] : i < pos[r] => Exists(Plan[r][i])
        /\ rpc[r] = "enqueue" => \A i \in DOMAIN Plan[r] : Exists(Plan[r][i])
    BY DEF Inv, Recorded
  <1>p. /\ Plan[r] \in Seq(Keys)
        /\ \A i \in DOMAIN Plan[r] : Plan[r][i] \in Keys
        /\ \A i : i \in DOMAIN Plan[r] <=> i \in 1..Len(Plan[r])
        /\ Len(Plan[r]) \in Nat
    BY DeliveryAssumption
  <1>k. \A i \in DOMAIN Plan[r] : Exists(Plan[r][i]) => Exists(Plan[r][i])'
    BY <1>p, StillExists
  <1>1. CASE rpc'[r] = rpc[r] /\ pos'[r] = pos[r]
    BY <1>1, <1>i, <1>k
  <1>2. CASE Lookup(r)
    <2>1. CASE Exists(Current(r))
      <3>1. /\ pos'[r] = pos[r] + 1 /\ rpc'[r] = "create" /\ rpc[r] = "create"
            /\ Exists(Current(r))
        BY <1>2, <1>i, <2>1 DEF Lookup, Advance
      <3>2. ASSUME NEW i \in DOMAIN Plan[r], i < pos[r] + 1
            PROVE  Exists(Plan[r][i])
        <4>1. i < pos[r] \/ i = pos[r]
          BY <1>i, <1>p, <3>2
        <4> QED BY <1>i, <3>1, <4>1 DEF Current
      <3> QED BY <1>i, <1>k, <3>1, <3>2
    <2>2. CASE ~Exists(Current(r))
      BY <1>2, <1>i, <1>k, <2>2 DEF Lookup, RunGoto
    <2> QED BY <2>1, <2>2
  <1>3. CASE Insert(r)
    <2>1. /\ pos'[r] = pos[r] + 1 /\ rpc'[r] = "create" /\ rpc[r] = "insert"
      BY <1>3, <1>i DEF Insert, Advance, RunGoto
    <2>2. pos[r] \in DOMAIN Plan[r] /\ Current(r) \in Keys
      BY <1>i, <1>p, <2>1 DEF Current
    <2>3. row'[Current(r)].status # "none"
      BY <1>3, <1>i, <2>2 DEF Insert, Exists, PendingRow
    <2>4. ASSUME NEW i \in DOMAIN Plan[r], i < pos[r] + 1
          PROVE  row'[Plan[r][i]].status # "none"
      <3>1. i < pos[r] \/ i = pos[r]
        BY <1>i, <1>p, <2>4
      <3>2. CASE i = pos[r]
        BY <2>3, <3>2 DEF Current
      <3>3. CASE i < pos[r]
        BY <1>i, <1>k, <2>1, <3>3 DEF Exists
      <3> QED BY <3>1, <3>2, <3>3
    <2> QED BY <1>i, <2>1, <2>4 DEF Exists
  <1>4. CASE AllCreated(r)
    <2>1. \A i \in DOMAIN Plan[r] : i < pos[r]
      BY <1>4, <1>i, <1>p DEF AllCreated
    <2> QED BY <1>4, <1>i, <1>k, <2>1 DEF AllCreated, RunGoto
  <1>5. CASE Enqueue(r)
    BY <1>5, <1>i, <1>k DEF Enqueue, Advance
  <1>6. CASE ReadExpired(r) \/ Finish(r) \/ Stop(r)
    BY <1>6, <1>i DEF ReadExpired, Finish, Stop, RunGoto
  <1>7. ASSUME NEW q \in Runs, q # r, RunAct(q)
        PROVE  rpc'[r] = rpc[r] /\ pos'[r] = pos[r]
    BY <1>7, <1>i DEF RunAct, RunStep, Lookup, Insert, AllCreated, ReadExpired,
       Enqueue, Finish, Stop, RunGoto, Advance
  <1>8. ASSUME NEW s \in Senders, SenderAct(s)
        PROVE  rpc'[r] = rpc[r] /\ pos'[r] = pos[r]
    BY <1>8, SenderFrame
  <1> QED
    BY <1>1, <1>2, <1>3, <1>4, <1>5, <1>6, <1>7, <1>8 DEF Next, vars, RunAct,
       RunStep, SenderAct, GiveUp, LeaseExpires, Take, runVars

LEMMA RecordedStep ==
  ASSUME Inv, [Next]_vars
  PROVE  Recorded'
  <1>i. TypeOK /\ Recorded /\ Assigned
    BY DEF Inv
  <1>1. /\ \A k \in Keys : queue'[k] # "absent" => Exists(k)
        /\ \A k \in Keys : queue'[k] # "absent" /\ queue[k] = "absent" =>
             \E r \in Runs : \A i \in DOMAIN Plan[r] : Exists(Plan[r][i])
    <2>1. ASSUME NEW r \in Runs, RunAct(r), NEW k \in Keys, queue'[k] # "absent"
          PROVE  /\ Exists(k)
                 /\ queue[k] = "absent" =>
                      \A i \in DOMAIN Plan[r] : Exists(Plan[r][i])
      <3>1. Exists(k)
        BY <1>i, <2>1, RunFrame DEF Recorded
      <3>2. CASE Enqueue(r)
        BY <1>i, <3>1, <3>2 DEF Enqueue, Recorded
      <3>3. CASE queue' = queue
        BY <2>1, <3>1, <3>3
      <3> QED
        BY <2>1, <3>2, <3>3 DEF RunAct, RunStep, Lookup, Insert, AllCreated,
           ReadExpired, Finish, Stop
    <2>2. ASSUME NEW s \in Senders, SenderAct(s), NEW k \in Keys,
                 queue'[k] # "absent"
          PROVE  queue[k] # "absent"
      BY <1>i, <2>2, SenderFrame DEF Assigned
    <2>3. ASSUME NEW k \in Keys, NEW l \in Keys,
                 \/ GiveUp(l) \/ LeaseExpires(l)
                 \/ \E s \in Senders : Take(s, l),
                 queue'[k] # "absent"
          PROVE  queue[k] # "absent"
      BY <1>i, <2>3 DEF GiveUp, LeaseExpires, Take, TypeOK
    <2>4. ASSUME UNCHANGED vars, NEW k \in Keys, queue'[k] # "absent"
          PROVE  queue[k] # "absent"
      BY <2>4 DEF vars
    <2> QED
      BY <1>i, <2>1, <2>2, <2>3, <2>4 DEF Next, RunAct, SenderAct, Recorded
  <1>2. \A k \in Keys : queue'[k] # "absent" => Exists(k)'
    BY <1>1, StillExists
  <1>3. SentAfterAllCreated'
    <2> SUFFICES ASSUME NEW k \in Keys, queue'[k] # "absent"
                 PROVE  \E r \in Runs :
                          \A i \in DOMAIN Plan[r] : Exists(Plan[r][i])'
      BY DEF SentAfterAllCreated
    <2>1. PICK r \in Runs : \A i \in DOMAIN Plan[r] : Exists(Plan[r][i])
      BY <1>i, <1>1 DEF Recorded, SentAfterAllCreated
    <2>2. \A i \in DOMAIN Plan[r] : Plan[r][i] \in Keys
      BY DeliveryAssumption
    <2> QED BY <2>1, <2>2, StillExists
  <1>4. \A k \in Keys : ~Exists(k)' => row'[k] = NoRow
    <2> SUFFICES ASSUME NEW k \in Keys, ~Exists(k)'
                 PROVE  row'[k] = NoRow
      OBVIOUS
    <2>1. ~Exists(k) /\ row[k] = NoRow
      BY <1>i, StillExists DEF Recorded
    <2>2. ASSUME NEW r \in Runs, RunAct(r)
          PROVE  row'[k] = row[k]
      BY <2>2, RunFrame DEF Exists, PendingRow
    <2>3. ASSUME NEW s \in Senders, SenderAct(s)
          PROVE  row'[k] = row[k]
      <3>1. Exists(task[s])
        BY <1>i, <2>3, SenderFrame DEF Assigned, Recorded
      <3> QED BY <2>1, <2>3, <3>1, SenderFrame
    <2>4. CASE row' = row
      BY <2>1, <2>4
    <2> QED
      BY <2>1, <2>2, <2>3, <2>4 DEF Next, vars, RunAct, SenderAct, GiveUp,
         LeaseExpires, Take
  <1> QED BY <1>2, <1>3, <1>4, PositionStep DEF Recorded


\* What one sender does to what is delivered, stamped and received.
LEMMA StampedOwn ==
  ASSUME Inv, NEW s \in Senders, SenderAct(s), NEW k \in Keys, k = task[s]
  PROVE  /\ row[k].stamped => row'[k].stamped
         /\ received[k] > 0 => received'[k] > 0
         /\ row'[k].status = "delivered" => received'[k] > 0 /\ row'[k].stamped
         /\ task'[s] # NoKey =>
              /\ copy'[s].stamped => row'[k].stamped
              /\ pc'[s] = "sent" => received'[k] > 0
  <1> USE DEF TypeOK, Goto
  <1>i. /\ TypeOK
        /\ row[k] \in Delivery /\ copy[s] \in Delivery /\ received[k] \in Nat
        /\ row[k].status = "delivered" => received[k] > 0 /\ row[k].stamped
        /\ k # NoKey
        /\ copy[s].stamped => row[k].stamped
        /\ pc[s] = "sent" => received[k] > 0
    BY DeliveryAssumption DEF Inv, Stamped, DeliveredWasReceived
  <1>e. row[k].status # "none"
    BY TaskIsKey DEF Inv, Assigned, Recorded, Exists
  <1>r. received'[k] >= received[k] /\ (pc'[s] = "sent" => received'[k] > 0)
    <2>1. CASE Post(s)
      BY <1>i, <2>1 DEF Post
    <2>2. CASE received' = received /\ pc'[s] # "sent"
      BY <1>i, <2>2
    <2> QED
      BY <1>i, <2>1, <2>2 DEF SenderAct, SenderStep, Load, Exhaust, Claim,
         Refresh, Record, DbError, Return, Crash, Release
  <1>g. received[k] > 0 => received'[k] > 0
    BY <1>i, <1>r DEF Post, SenderAct, SenderStep, Load, Exhaust, Claim,
       Refresh, Record, DbError, Return, Crash
  <1>1. CASE row'[k] = row[k]
    <2>1. task'[s] # NoKey /\ copy'[s].stamped => row[k].stamped
      <3>1. CASE Load(s) \/ Refresh(s)
        BY <1>i, <3>1 DEF Load, Refresh
      <3>2. CASE Exhaust(s) \/ Claim(s) \/ Record(s)
        <4>1. PICK n : /\ copy'[s] = n
                       /\ n.stamped => copy[s].stamped \/ pc[s] = "sent"
                       /\ row'[k] = Written(row[k], copy[s], n)
                       /\ n \in Delivery
          <5>1. Failed(copy[s]) \in Delivery /\ Delivered(copy[s]) \in Delivery
            BY <1>i, RowTypes
          <5>2. ~Exhausted(copy[s]) => Sending(copy[s]) \in Delivery
            BY <1>i, RowTypes
          <5>3. /\ Failed(copy[s]).stamped = copy[s].stamped
                /\ Sending(copy[s]).stamped = copy[s].stamped
            BY <1>i DEF Failed, Sending, Delivery
          <5>4. \A n \in Delivery : Commit(s, n) =>
                  copy'[s] = n /\ row'[k] = Written(row[k], copy[s], n)
            BY <1>i, CommitType
          <5> QED BY <3>2, <5>1, <5>2, <5>3, <5>4 DEF Exhaust, Claim, Record
        <4>2. n.stamped /\ ~copy[s].stamped => row'[k].stamped
          BY <1>i, <4>1 DEF Written, Delivery
        <4> QED BY <1>1, <1>i, <4>1, <4>2
      <3>3. CASE copy'[s] = copy[s]
        BY <1>i, <3>3
      <3>4. CASE task'[s] = NoKey
        BY <3>4
      <3> QED
        BY <1>i, <3>1, <3>2, <3>3, <3>4 DEF SenderAct, SenderStep, Post,
           DbError, Return, Crash, Release
    <2> QED BY <1>1, <1>i, <1>r, <1>g, <2>1
  <1>2. CASE row'[k] # row[k]
    <2>1. PICK n \in Delivery :
            /\ row'[k] = Written(row[k], copy[s], n)
            /\ n.status # "none"
            /\ copy[s].stamped => n.stamped
            /\ n.status = "delivered" => n.stamped /\ pc[s] = "sent"
            /\ copy'[s] = n
      BY <1>2, SenderWrites
    <2>2. /\ row[k].stamped => row'[k].stamped
          /\ row'[k].status \in {row[k].status, n.status}
          /\ n.stamped => row'[k].stamped
      BY <1>i, <1>e, <2>1, WrittenKeeps
    <2> QED BY <1>i, <1>r, <1>g, <2>1, <2>2
  <1> QED BY <1>1, <1>2

LEMMA StampedStep ==
  ASSUME Inv, [Next]_vars
  PROVE  Stamped'
  <1> USE DEF TypeOK
  <1>i. TypeOK /\ Assigned /\ Stamped /\ Recorded
    BY DEF Inv
  <1>1. CASE UNCHANGED vars
    BY <1>1, <1>i DEF vars, Stamped, DeliveredWasReceived
  <1>2. ASSUME NEW r \in Runs, RunAct(r)
        PROVE  Stamped'
    <2>1. /\ UNCHANGED <<task, pc, copy, received>>
          /\ \A k \in Keys : row'[k] = row[k] \/ (~Exists(k) /\ row'[k] = PendingRow)
      BY <1>2, RunFrame
    <2>2. DeliveredWasReceived'
      BY <1>i, <2>1 DEF Stamped, DeliveredWasReceived, PendingRow
    <2>3. ASSUME NEW s \in Senders, task[s] # NoKey
          PROVE  row'[task[s]] = row[task[s]]
      BY <1>i, <2>1, <2>3 DEF Assigned, Recorded
    <2> QED BY <1>i, <2>1, <2>2, <2>3 DEF Stamped
  <1>3. ASSUME NEW s \in Senders, SenderAct(s)
        PROVE  Stamped'
    <2>f. /\ task[s] \in Keys
          /\ \A k \in Keys : k # task[s] =>
               row'[k] = row[k] /\ received'[k] = received[k]
          /\ \A t \in Senders : t # s =>
               task'[t] = task[t] /\ pc'[t] = pc[t] /\ copy'[t] = copy[t]
          /\ task'[s] = task[s] \/ task'[s] = NoKey
      BY <1>3, SenderFrame
    <2>o. /\ row[task[s]].stamped => row'[task[s]].stamped
          /\ received[task[s]] > 0 => received'[task[s]] > 0
          /\ row'[task[s]].status = "delivered" =>
               received'[task[s]] > 0 /\ row'[task[s]].stamped
          /\ task'[s] # NoKey =>
               /\ copy'[s].stamped => row'[task[s]].stamped
               /\ pc'[s] = "sent" => received'[task[s]] > 0
      BY <1>3, <2>f, StampedOwn
    <2>1. DeliveredWasReceived'
      BY <1>i, <2>f, <2>o DEF Stamped, DeliveredWasReceived
    <2>2. ASSUME NEW t \in Senders, task'[t] # NoKey
          PROVE  /\ copy'[t].stamped => row'[task'[t]].stamped
                 /\ pc'[t] = "sent" => received'[task'[t]] > 0
      <3>1. CASE t = s
        BY <2>2, <2>f, <2>o, <3>1
      <3>2. CASE t # s
        BY <1>i, <2>2, <2>f, <2>o, <3>2 DEF Stamped
      <3> QED BY <3>1, <3>2
    <2> QED BY <2>1, <2>2 DEF Stamped
  <1>4. ASSUME NEW k \in Keys, GiveUp(k) \/ LeaseExpires(k)
        PROVE  Stamped'
    BY <1>4, <1>i DEF GiveUp, LeaseExpires, slotVars, Stamped,
       DeliveredWasReceived
  <1>5. ASSUME NEW k \in Keys, NEW s \in Senders, Take(s, k)
        PROVE  Stamped'
    <2>1. copy[s] = NoRow
      BY <1>5 DEF Take, Inv, Idle
    <2> QED
      BY <1>5, <1>i, <2>1 DEF Take, Goto, Stamped, DeliveredWasReceived, NoRow
  <1> QED
    BY <1>1, <1>2, <1>3, <1>4, <1>5 DEF Next, RunAct, SenderAct


\* What the only sender of a leased delivery does to it.
LEMMA ServingOwn ==
  ASSUME Inv, NEW s \in Senders, SenderAct(s), NEW k \in Keys, k = task[s],
         leased[k]
  PROVE  /\ Budget(k)'
         /\ task'[s] = k => Stage(s, k)'
         /\ row[k].status = "delivered" => row'[k] = row[k]
  <1> USE DEF TypeOK, Goto
  <1>i. /\ TypeOK /\ k # NoKey
        /\ Stage(s, k)
        /\ received[k] <= row[k].attempts
        /\ received[k] <= 1 + interrupted[k]
    BY DeliveryAssumption DEF Inv, Serving, Budget
  <1>t. /\ row[k] \in Delivery /\ copy[s] \in Delivery
        /\ row[k].attempts \in Nat
        /\ received[k] \in Nat /\ interrupted[k] \in Nat
    BY <1>i, DeliveryAssumption DEF Delivery
  <1>w. ASSUME NEW n \in Delivery, Commit(s, n), copy[s] = row[k]
        PROVE  row'[k] = n /\ copy'[s] = n
    BY <1>i, <1>w, CommitType, WrittenSame
  <1> USE DEF Stage, Budget
  <1>1. CASE Load(s)
    BY <1>1, <1>i, <1>t DEF Load
  <1>2. CASE Exhaust(s)
    <2>1. Failed(copy[s]) \in Delivery
      BY <1>t, RowTypes
    <2>2. row'[k] = Failed(row[k]) /\ Failed(row[k]).attempts = row[k].attempts
      BY <1>2, <1>i, <1>t, <1>w, <2>1 DEF Exhaust, Failed, Delivery
    <2> QED BY <1>2, <1>i, <1>t, <2>2 DEF Exhaust
  <1>3. CASE Claim(s)
    <2>1. Sending(copy[s]) \in Delivery
      BY <1>3, <1>t, RowTypes DEF Claim
    <2>2. /\ row'[k] = Sending(row[k]) /\ copy'[s] = row'[k]
          /\ Sending(row[k]).attempts = row[k].attempts + 1
          /\ Sending(row[k]).status = "sending"
      BY <1>3, <1>i, <1>t, <1>w, <2>1 DEF Claim, Sending, Delivery
    <2> QED BY <1>3, <1>i, <1>t, <2>2 DEF Claim
  <1>4. CASE Refresh(s)
    BY <1>4, <1>i, <1>t DEF Refresh
  <1>5. CASE Post(s)
    <2>1. /\ pc[s] = "post" /\ UNCHANGED <<row, copy, queue, interrupted>>
          /\ pc'[s] \in {"sent", "error"}
          /\ received'[k] \in {received[k], received[k] + 1}
      BY <1>5, <1>i DEF Post
    <2> QED BY <1>i, <1>t, <2>1
  <1>6. CASE Record(s)
    <2>1. Failed(copy[s]) \in Delivery /\ Delivered(copy[s]) \in Delivery
      BY <1>t, RowTypes
    <2>2. /\ row'[k] \in {Failed(row[k]), Delivered(row[k])}
          /\ Failed(row[k]).attempts = row[k].attempts
          /\ Delivered(row[k]).attempts = row[k].attempts
      BY <1>6, <1>i, <1>t, <1>w, <2>1 DEF Record, Failed, Delivered, Delivery
    <2>3. pc'[s] = "return" /\ UNCHANGED <<queue, received, interrupted>>
      BY <1>6, <1>i DEF Record
    <2>4. row'[k].attempts = row[k].attempts
      BY <2>2
    <2>5. row[k].status = "sending"
      BY <1>6, <1>i DEF Record
    <2> QED BY <1>i, <1>t, <2>3, <2>4, <2>5
  <1>7. CASE DbError(s)
    BY <1>7, <1>i, <1>t DEF DbError
  <1>8. CASE Return(s)
    BY <1>8, <1>i, <1>t DEF Return, Release
  <1>9. CASE Crash(s)
    <2>1. /\ interrupted'[k] = interrupted[k] + 1
          /\ task'[s] = NoKey /\ UNCHANGED <<row, received>>
      BY <1>9, <1>i DEF Crash, Release
    <2> QED BY <1>i, <1>t, <2>1
  <1> QED
    BY <1>1, <1>2, <1>3, <1>4, <1>5, <1>6, <1>7, <1>8, <1>9
    DEF SenderAct, SenderStep

LEMMA ServingStep ==
  ASSUME Inv, [Next]_vars
  PROVE  /\ \A s \in Senders : Serving(s)'
         /\ \A k \in Keys : Budget(k)'
         /\ \A k \in Keys :
              leased[k] /\ row[k].status = "delivered" => row'[k] = row[k]
  <1> USE DEF TypeOK
  <1>i. /\ TypeOK /\ Assigned /\ Recorded /\ Idle
        /\ \A s \in Senders : Serving(s)
        /\ \A k \in Keys : Budget(k)
    BY DEF Inv
  <1>1. CASE UNCHANGED vars
    BY <1>1, <1>i DEF vars, Serving, Stage, Budget
  <1>2. ASSUME NEW r \in Runs, RunAct(r)
        PROVE  /\ \A s \in Senders : Serving(s)'
               /\ \A k \in Keys : Budget(k)'
               /\ \A k \in Keys :
                    row[k].status = "delivered" => row'[k] = row[k]
    <2>f. /\ UNCHANGED <<task, pc, copy, received, interrupted, leased>>
          /\ \A k \in Keys : row'[k] = row[k] \/ (~Exists(k) /\ row'[k] = PendingRow)
          /\ \A k \in Keys : queue'[k] = queue[k]
                \/ (queue[k] = "absent" /\ queue'[k] = "queued")
      BY <1>2, RunFrame
    <2>1. ASSUME NEW s \in Senders
          PROVE  Serving(s)'
      <3>1. CASE task[s] = NoKey
        BY <2>f, <3>1 DEF Serving
      <3>2. CASE task[s] # NoKey
        <4>1. /\ row'[task[s]] = row[task[s]]
              /\ queue'[task[s]] = queue[task[s]]
          BY <1>i, <2>f, <3>2 DEF Assigned, Recorded
        <4> QED BY <1>i, <2>f, <4>1 DEF Serving, Stage
      <3> QED BY <3>1, <3>2
    <2>2. ASSUME NEW k \in Keys
          PROVE  Budget(k)'
      <3>1. row'[k].attempts = row[k].attempts
        BY <1>i, <2>f DEF Recorded, NoRow, PendingRow
      <3> QED BY <1>i, <2>f, <3>1 DEF Budget
    <2> QED BY <2>f, <2>1, <2>2 DEF Exists
  <1>3. ASSUME NEW s \in Senders, SenderAct(s)
        PROVE  /\ \A t \in Senders : Serving(t)'
               /\ \A k \in Keys : Budget(k)'
               /\ \A k \in Keys :
                    leased[k] /\ row[k].status = "delivered" => row'[k] = row[k]
    <2>f. /\ task[s] \in Keys /\ task[s] # NoKey
          /\ leased' = leased
          /\ \A k \in Keys : k # task[s] =>
               /\ row'[k] = row[k] /\ queue'[k] = queue[k]
               /\ received'[k] = received[k] /\ interrupted'[k] = interrupted[k]
          /\ \A t \in Senders : t # s =>
               task'[t] = task[t] /\ pc'[t] = pc[t] /\ copy'[t] = copy[t]
          /\ task'[s] = task[s] \/ task'[s] = NoKey
      BY <1>3, SenderFrame
    <2>k. PICK k \in Keys : k = task[s]
      BY <2>f
    <2>o. leased[k] =>
            /\ Budget(k)'
            /\ task'[s] = k => Stage(s, k)'
            /\ row[k].status = "delivered" => row'[k] = row[k]
      BY <1>3, <2>k, ServingOwn
    <2>1. ASSUME NEW t \in Senders, task'[t] # NoKey, leased'[task'[t]]
          PROVE  /\ Stage(t, task[t])'
                 /\ \A u \in Senders : task'[u] = task'[t] => u = t
      <3>1. /\ task'[t] = task[t] /\ Serving(t)
            /\ leased[task[t]] /\ task[t] # NoKey /\ task[t] \in Keys
        BY <1>i, <2>1, <2>f
      <3>2. \A u \in Senders : task'[u] = task'[t] => u = t
        BY <2>f, <3>1 DEF Serving
      <3>3. CASE t = s
        <4>1. Stage(s, k)'
          BY <2>k, <2>o, <3>1, <3>3
        <4> QED BY <2>k, <3>1, <3>2, <3>3, <4>1 DEF Stage
      <3>4. CASE t # s
        <4>1. task[t] # task[s]
          BY <3>1, <3>4 DEF Serving
        <4> QED BY <2>f, <3>1, <3>2, <3>4, <4>1 DEF Serving, Stage
      <3> QED BY <3>3, <3>4
    <2>2. ASSUME NEW l \in Keys
          PROVE  Budget(l)'
      <3>1. CASE l = k
        BY <2>f, <2>o, <3>1 DEF Budget
      <3>2. CASE l # k
        BY <1>i, <2>f, <2>k, <3>2 DEF Budget
      <3> QED BY <3>1, <3>2
    <2>3. ASSUME NEW l \in Keys, leased[l], row[l].status = "delivered"
          PROVE  row'[l] = row[l]
      BY <2>f, <2>k, <2>o, <2>3
    <2> QED BY <2>1, <2>2, <2>3 DEF Serving
  <1>4. ASSUME NEW k \in Keys, GiveUp(k) \/ LeaseExpires(k)
        PROVE  /\ \A t \in Senders : Serving(t)'
               /\ \A l \in Keys : Budget(l)'
               /\ row' = row
    <2>f. /\ UNCHANGED <<row, received, interrupted, task, pc, copy>>
          /\ \A l \in Keys : l # k =>
               queue'[l] = queue[l] /\ leased'[l] = leased[l]
          /\ leased'[k] => leased[k] /\ queue[k] = "queued"
          /\ leased'[k] => queue'[k] = "done"
      BY <1>4, <1>i DEF GiveUp, LeaseExpires, slotVars
    <2>1. ASSUME NEW t \in Senders
          PROVE  Serving(t)'
      BY <1>i, <2>f DEF Serving, Stage
    <2>2. ASSUME NEW l \in Keys
          PROVE  Budget(l)'
      BY <1>i, <2>f DEF Budget
    <2> QED BY <2>f, <2>1, <2>2
  <1>5. ASSUME NEW k \in Keys, NEW s \in Senders, Take(s, k)
        PROVE  /\ \A t \in Senders : Serving(t)'
               /\ \A l \in Keys : Budget(l)'
               /\ row' = row
    <2>f. /\ UNCHANGED <<row, received, interrupted, copy, leased>>
          /\ queue[k] = "queued" /\ queue'[k] = "running"
          /\ \A l \in Keys : l # k => queue'[l] = queue[l]
          /\ task'[s] = k /\ pc'[s] = "load"
          /\ \A t \in Senders : t # s => task'[t] = task[t] /\ pc'[t] = pc[t]
      BY <1>5, <1>i DEF Take, Goto
    <2>1. ASSUME leased[k], NEW t \in Senders, task[t] = k
          PROVE  FALSE
      <3>1. Serving(t) /\ k # NoKey
        BY <1>i, DeliveryAssumption
      <3> QED BY <2>1, <2>f, <3>1 DEF Serving, Stage
    <2>2. leased[k] => received[k] <= interrupted[k]
      BY <1>i, <2>f DEF Budget
    <2>3. ASSUME NEW t \in Senders
          PROVE  Serving(t)'
      BY <1>i, <2>f, <2>1, <2>2 DEF Serving, Stage
    <2>4. ASSUME NEW l \in Keys
          PROVE  Budget(l)'
      BY <1>i, <2>f, <2>2 DEF Budget
    <2> QED BY <2>f, <2>3, <2>4
  <1> QED
    BY <1>1, <1>2, <1>3, <1>4, <1>5 DEF Next, RunAct, SenderAct, vars

LEMMA IdleStep ==
  ASSUME Inv, [Next]_vars
  PROVE  Idle'
  <1> USE DEF Idle
  <1>i. TypeOK /\ Idle
    BY DEF Inv
  <1>1. ASSUME NEW s \in Senders, SenderAct(s)
        PROVE  Idle'
    <2>1. task'[s] = NoKey => copy'[s] = NoRow
      <3>1. CASE Return(s) \/ Crash(s)
        BY <1>i, <3>1 DEF Return, Crash, Release, TypeOK
      <3>2. CASE task' = task
        BY <1>1, <3>2, SenderFrame
      <3> QED
        BY <1>1, <3>1, <3>2 DEF SenderAct, SenderStep, Load, Exhaust, Claim,
           Refresh, Post, Record, DbError
    <2> QED BY <1>1, <1>i, <2>1, SenderFrame
  <1>2. ASSUME NEW r \in Runs, RunAct(r)
        PROVE  Idle'
    BY <1>2, <1>i, RunFrame
  <1>3. ASSUME NEW k \in Keys,
               \/ GiveUp(k) \/ LeaseExpires(k)
               \/ \E s \in Senders : Take(s, k)
        PROVE  Idle'
    BY <1>3, <1>i, DeliveryAssumption DEF GiveUp, LeaseExpires, Take, slotVars,
       TypeOK
  <1>4. CASE UNCHANGED vars
    BY <1>4, <1>i DEF vars
  <1> QED BY <1>1, <1>2, <1>3, <1>4 DEF Next, RunAct, SenderAct

LEMMA InitInv == Init => Inv
  <1> SUFFICES ASSUME Init PROVE Inv
    OBVIOUS
  <1>1. TypeOK
    BY NullRows DEF Init, TypeOK, RunPC, QueueState, PC
  <1>2. Recorded
    <2>1. \A r \in Runs : \A i \in DOMAIN Plan[r] : ~(i < 1)
      <3> SUFFICES ASSUME NEW r \in Runs, NEW i \in DOMAIN Plan[r]
                   PROVE  ~(i < 1)
        OBVIOUS
      <3>1. Plan[r] \in Seq(Keys)
        BY DeliveryAssumption
      <3> QED BY <3>1
    <2> QED
      BY <2>1 DEF Init, Recorded, SentAfterAllCreated, Exists
  <1>3. Stamped
    BY DEF Init, Stamped, DeliveredWasReceived, NoRow
  <1>4. Assigned /\ Idle
    BY DEF Init, Assigned, Idle
  <1>5. \A k \in Keys : Budget(k)
    BY DEF Init, Budget, NoRow
  <1>6. \A s \in Senders : Serving(s)
    BY DEF Init, Serving
  <1> QED BY <1>1, <1>2, <1>3, <1>4, <1>5, <1>6 DEF Inv

\* The inductive invariant holds in every reachable state.
THEOREM Invariance == Spec => []Inv
  <1>1. Init => Inv
    BY InitInv
  <1>2. Inv /\ [Next]_vars => Inv'
    <2> SUFFICES ASSUME Inv, [Next]_vars PROVE Inv'
      OBVIOUS
    <2> QED
      BY TypeStep, AssignedStep, IdleStep, RecordedStep, StampedStep,
         ServingStep DEF Inv
  <1> QED BY <1>1, <1>2, PTL DEF Spec

-------------------------------------------------------------------------------
(* The theorems.                                                             *)

\* The variables keep their types; in particular the number of attempts stays
\* within the table's CHECK constraint.
THEOREM TypeCorrect == Spec => []TypeOK
  <1>1. Inv => TypeOK
    BY DEF Inv
  <1> QED BY <1>1, Invariance, PTL

\* A target gets a notification at most as often as the row counts attempts.
THEOREM AttemptsAreCounted == Spec => []AttemptsCoverSends
  <1>1. Inv => AttemptsCoverSends
    BY DEF Inv, Budget, AttemptsCoverSends
  <1> QED BY <1>1, Invariance, PTL

\* Without a crash a target gets a notification at most once.
THEOREM DuplicatesAreBounded == Spec => []DuplicatesNeedACrash
  <1>1. Inv => DuplicatesNeedACrash
    BY DEF Inv, Budget, DuplicatesNeedACrash
  <1> QED BY <1>1, Invariance, PTL

\* A row says "delivered" only of what the target got, with any number of
\* senders on it.
THEOREM DeliveredRowsAreTrue == Spec => []DeliveredWasReceived
  <1>1. Inv => DeliveredWasReceived
    BY DEF Inv, Stamped
  <1> QED BY <1>1, Invariance, PTL

\* Nothing is sent before some run has recorded all it is going to send.
THEOREM SentOnceRecorded == Spec => []SentAfterAllCreated
  <1>1. Inv => SentAfterAllCreated
    BY DEF Inv, Recorded
  <1> QED BY <1>1, Invariance, PTL

\* A delivered row whose lease held is never written again.
THEOREM DeliveredRowsAreFinal == Spec => DeliveredIsFinal
  <1>1. Inv /\ [Next]_vars =>
          [\A k \in Keys :
             leased[k] /\ row[k].status = "delivered" => row'[k] = row[k]]_vars
    BY ServingStep
  <1> QED BY <1>1, Invariance, PTL DEF Spec, DeliveredIsFinal

-------------------------------------------------------------------------------
(* The refinement of DeliveryLedger, where no lease expires.                 *)

AllLeased == \A k \in Keys : leased[k]

LEMMA StaysLeased ==
  ASSUME "lease_loss" \notin Faults
  PROVE  Spec => []AllLeased
  <1>1. Init => AllLeased
    BY DEF Init, AllLeased
  <1>2. Inv /\ AllLeased /\ [Next]_vars => AllLeased'
    <2> SUFFICES ASSUME Inv, AllLeased, [Next]_vars PROVE AllLeased'
      OBVIOUS
    <2>1. ASSUME NEW r \in Runs, RunAct(r) PROVE leased' = leased
      BY <2>1, RunFrame
    <2>2. ASSUME NEW s \in Senders, SenderAct(s) PROVE leased' = leased
      BY <2>2, SenderFrame
    <2>3. leased' = leased
      BY <2>1, <2>2 DEF Next, vars, RunAct, SenderAct, GiveUp, LeaseExpires, Take
    <2> QED BY <2>3 DEF AllLeased
  <1> QED BY <1>1, <1>2, Invariance, PTL DEF Spec

\* the attempt at hand in k when the slots work on tasks and are at labels
PhaseIn(k, tasks, labels) ==
  IF \E s \in Senders : tasks[s] = k /\ labels[s] \in {"refresh", "post"} THEN "open"
  ELSE IF \E s \in Senders : tasks[s] = k /\ labels[s] \in {"sent"} THEN "confirmed"
  ELSE IF \E s \in Senders : tasks[s] = k /\ labels[s] \in {"error"} THEN "unanswered"
  ELSE "none"

PhaseAt(label) ==
  IF label \in {"refresh", "post"} THEN "open"
  ELSE IF label = "sent" THEN "confirmed"
  ELSE IF label = "error" THEN "unanswered"
  ELSE "none"

LEMMA AttemptIsPhase ==
  /\ Attempt = [k \in Keys |-> PhaseIn(k, task, pc)]
  /\ Attempt' = [k \in Keys |-> PhaseIn(k, task', pc')]
  BY DEF Attempt, PhaseIn

\* The one sender of a delivery says how far its attempt is ...
LEMMA PhaseOfOne ==
  ASSUME NEW k, NEW tasks, NEW labels, NEW s \in Senders, tasks[s] = k,
         \A t \in Senders : tasks[t] = k => t = s
  PROVE  PhaseIn(k, tasks, labels) = PhaseAt(labels[s])
  BY DEF PhaseIn, PhaseAt

\* ... and without one there is none.
LEMMA PhaseOfNone ==
  ASSUME NEW k, NEW tasks, NEW labels, \A t \in Senders : tasks[t] # k
  PROVE  PhaseIn(k, tasks, labels) = "none"
  BY DEF PhaseIn

\* Only the senders of a delivery decide on its attempt.
LEMMA SamePhase ==
  ASSUME NEW k, NEW tasks, NEW labels, NEW tasks2, NEW labels2,
         \A t \in Senders : /\ (tasks[t] = k) <=> (tasks2[t] = k)
                            /\ tasks[t] = k => labels[t] = labels2[t]
  PROVE  PhaseIn(k, tasks2, labels2) = PhaseIn(k, tasks, labels)
  BY DEF PhaseIn

\* What a step of a sender does to the attempts: it moves the one of its delivery.
LEMMA SenderTurns ==
  ASSUME Inv, AllLeased, NEW s \in Senders, SenderAct(s)
  PROVE  /\ Attempt \in [Keys -> Ledger!Phase]
         /\ Attempt[task[s]] = PhaseAt(pc[s])
         /\ Attempt' = [Attempt EXCEPT ![task[s]] = PhaseAt(pc'[s])]
  <1> DEFINE k == task[s]
  <1>1. /\ k \in Keys /\ k # NoKey
        /\ \A t \in Senders : t # s => task'[t] = task[t] /\ pc'[t] = pc[t]
        /\ \/ task'[s] = k
           \/ task'[s] = NoKey /\ pc'[s] = "idle"
    BY SenderFrame
  <1>2. \A t \in Senders : task[t] = k => t = s
    BY <1>1 DEF Inv, Serving, AllLeased
  <1>3. Attempt \in [Keys -> Ledger!Phase]
    BY AttemptIsPhase DEF PhaseIn, Ledger!Phase
  <1>4. PhaseIn(k, task, pc) = PhaseAt(pc[s])
    BY <1>2, PhaseOfOne
  <1>5. PhaseIn(k, task', pc') = PhaseAt(pc'[s])
    <2>1. CASE task'[s] = k
      <3>1. \A t \in Senders : task'[t] = k => t = s
        BY <1>1, <1>2
      <3> QED BY <2>1, <3>1, PhaseOfOne
    <2>2. CASE task'[s] = NoKey /\ pc'[s] = "idle"
      <3>1. \A t \in Senders : task'[t] # k
        BY <1>1, <1>2, <2>2
      <3>2. PhaseIn(k, task', pc') = "none"
        BY <3>1, PhaseOfNone
      <3> QED BY <2>2, <3>2 DEF PhaseAt
    <2> QED BY <1>1, <2>1, <2>2
  <1>6. ASSUME NEW q \in Keys, q # k
        PROVE  PhaseIn(q, task', pc') = PhaseIn(q, task, pc)
    <2>1. \A t \in Senders : /\ (task[t] = q) <=> (task'[t] = q)
                             /\ task[t] = q => pc[t] = pc'[t]
      BY <1>1, <1>6, DeliveryAssumption
    <2> QED BY <2>1, SamePhase
  <1>7. Attempt' = [Attempt EXCEPT ![k] = PhaseAt(pc'[s])]
    <2> HIDE DEF k
    <2> QED BY <1>5, <1>6, AttemptIsPhase
  <1> QED BY <1>1, <1>3, <1>4, <1>7, AttemptIsPhase

\* A step of a sender is a step of the ledger, on the delivery of its task.
LEMMA SenderLedger ==
  ASSUME Inv, AllLeased, NEW s \in Senders, SenderAct(s)
  PROVE  [Ledger!Next]_<<row, received, Attempt>>
  <1> DEFINE k == task[s]
  <1>1. /\ k \in Keys /\ k # NoKey
        /\ Attempt \in [Keys -> Ledger!Phase]
        /\ Attempt[k] = PhaseAt(pc[s])
        /\ Attempt' = [Attempt EXCEPT ![k] = PhaseAt(pc'[s])]
    BY SenderTurns, SenderFrame
  <1>2. /\ Stage(s, k) /\ Exists(k)
        /\ row \in [Keys -> Delivery] /\ row[k] \in Delivery
        /\ pc \in [Senders -> PC]
    BY <1>1 DEF Inv, Serving, AllLeased, Recorded, Assigned, TypeOK
  <1>3. ASSUME NEW n \in Delivery, Commit(s, n), copy[s] = row[k]
        PROVE  row' = [row EXCEPT ![k] = n]
    <2>1. Written(row[k], copy[s], n) = n
      BY <1>2, <1>3, WrittenSame
    <2> QED BY <1>3, <2>1 DEF Commit
  <1>4. ASSUME NEW label, Goto(s, label) PROVE pc'[s] = label
    BY <1>2, <1>4 DEF Goto
  <1> DEFINE Stutter == UNCHANGED <<row, received, Attempt>>
  <1>5. ASSUME row' = row, received' = received, PhaseAt(pc'[s]) = PhaseAt(pc[s])
        PROVE  Stutter
    BY <1>1, <1>5
  <1>6. ASSUME row' = row, received' = received, PhaseAt(pc'[s]) = "none",
               PhaseAt(pc[s]) # "none"
        PROVE  Ledger!Abandon(k)
    BY <1>1, <1>6 DEF Ledger!Abandon, Ledger!Turn
  <1>7. CASE Load(s)
    BY <1>4, <1>5, <1>7 DEF Load, PhaseAt
  <1>8. CASE Exhaust(s)
    <2>1. pc[s] = "claim" /\ copy[s] = row[k] /\ row[k].status \notin {"none", "delivered"}
      BY <1>2, <1>8 DEF Exhaust, Stage, Exists
    <2>2. row' = [row EXCEPT ![k] = Failed(row[k])]
      BY <1>2, <1>3, <1>8, <2>1, RowTypes DEF Exhaust
    <2>3. row[k].attempts = MaxAttempts
      BY <1>2, <1>8, <2>1, DeliveryAssumption DEF Exhaust, Exhausted, Delivery
    <2>4. PhaseAt(pc[s]) = "none" /\ PhaseAt(pc'[s]) = "none"
      BY <1>4, <1>8, <2>1 DEF Exhaust, PhaseAt
    <2>5. UNCHANGED <<received, Attempt>>
      BY <1>1, <1>8, <2>4 DEF Exhaust
    <2>6. Ledger!Refuse(k)
      BY <1>1, <2>1, <2>2, <2>3, <2>4, <2>5
      DEF Ledger!Refuse, Ledger!Unsent, Ledger!Set, Failed
    <2> QED BY <1>1, <2>6 DEF Ledger!Next
  <1>9. CASE Claim(s)
    <2>1. pc[s] = "claim" /\ copy[s] = row[k] /\ row[k].status \notin {"none", "delivered"}
      BY <1>2, <1>9 DEF Claim, Stage, Exists
    <2>2. row' = [row EXCEPT ![k] = Sending(row[k])]
      BY <1>2, <1>3, <1>9, <2>1, RowTypes DEF Claim
    <2>3. row[k].attempts < MaxAttempts
      BY <1>2, <1>9, <2>1, DeliveryAssumption DEF Claim, Exhausted, Delivery
    <2>4. PhaseAt(pc[s]) = "none" /\ PhaseAt(pc'[s]) = "open"
      BY <1>4, <1>9, <2>1 DEF Claim, PhaseAt
    <2>5. Ledger!Begin(k)
      BY <1>1, <1>9, <2>1, <2>2, <2>3, <2>4
      DEF Claim, Ledger!Begin, Ledger!Unsent, Ledger!Set, Ledger!Turn, Sending
    <2> QED BY <1>1, <2>5 DEF Ledger!Next
  <1>10. CASE Refresh(s)
    BY <1>4, <1>5, <1>10 DEF Refresh, PhaseAt
  <1>11. CASE Post(s)
    <2>1. PhaseAt(pc[s]) = "open" /\ row' = row
      BY <1>11 DEF Post, PhaseAt
    <2>2. ASSUME received' = [received EXCEPT ![k] = @ + 1],
                 Goto(s, "sent") \/ Goto(s, "error")
          PROVE  Ledger!Reach(k)
      <3>1. PhaseAt(pc'[s]) = "confirmed" \/ PhaseAt(pc'[s]) = "unanswered"
        BY <1>4, <2>2 DEF PhaseAt
      <3> QED BY <1>1, <2>1, <2>2, <3>1 DEF Ledger!Reach, Ledger!Turn
    <2>3. ASSUME Goto(s, "error"), UNCHANGED received
          PROVE  Ledger!Miss(k)
      <3>1. PhaseAt(pc'[s]) = "unanswered"
        BY <1>4, <2>3 DEF PhaseAt
      <3> QED BY <1>1, <2>1, <2>3, <3>1 DEF Ledger!Miss, Ledger!Turn
    <2>4. Ledger!Reach(k) \/ Ledger!Miss(k)
      BY <1>11, <2>2, <2>3 DEF Post
    <2> QED BY <1>1, <2>4 DEF Ledger!Next
  <1>12. CASE Record(s)
    <2>1. PhaseAt(pc'[s]) = "none" /\ received' = received
      BY <1>4, <1>12 DEF Record, PhaseAt
    <2>2. ASSUME pc[s] = "sent", Commit(s, Delivered(copy[s]))
          PROVE  Ledger!Deliver(k)
      <3>1. PhaseAt(pc[s]) = "confirmed" /\ copy[s] = row[k]
        BY <1>2, <2>2 DEF PhaseAt, Stage
      <3>2. row' = [row EXCEPT ![k] = Delivered(row[k])]
        BY <1>2, <1>3, <2>2, <3>1, RowTypes
      <3> QED BY <1>1, <2>1, <3>1, <3>2
              DEF Ledger!Deliver, Ledger!Set, Ledger!Turn, Delivered
    <2>3. ASSUME pc[s] = "error", Commit(s, Failed(copy[s]))
          PROVE  Ledger!Fail(k)
      <3>1. PhaseAt(pc[s]) = "unanswered" /\ copy[s] = row[k]
        BY <1>2, <2>3 DEF PhaseAt, Stage
      <3>2. row' = [row EXCEPT ![k] = Failed(row[k])]
        BY <1>2, <1>3, <2>3, <3>1, RowTypes
      <3> QED BY <1>1, <2>1, <3>1, <3>2
              DEF Ledger!Fail, Ledger!Set, Ledger!Turn, Failed
    <2>4. Ledger!Deliver(k) \/ Ledger!Fail(k)
      BY <1>12, <2>2, <2>3 DEF Record
    <2> QED BY <1>1, <2>4 DEF Ledger!Next
  <1>13. CASE DbError(s) \/ Return(s) \/ Crash(s)
    <2>1. row' = row /\ received' = received
      BY <1>13 DEF DbError, Return, Crash
    <2>2. pc'[s] \in {"return", "idle"}
      BY <1>2, <1>4, <1>13 DEF DbError, Return, Crash, Release
    <2>3. PhaseAt(pc'[s]) = "none"
      BY <2>2 DEF PhaseAt
    <2>4. Stutter \/ Ledger!Abandon(k)
      BY <1>5, <1>6, <2>1, <2>3
    <2> QED BY <1>1, <2>4 DEF Ledger!Next
  <1> QED
    BY <1>1, <1>7, <1>8, <1>9, <1>10, <1>11, <1>12, <1>13
    DEF SenderAct, SenderStep, Ledger!Next

LEMMA LedgerStep ==
  ASSUME Inv, AllLeased, [Next]_vars
  PROVE  [Ledger!Next]_<<row, received, Attempt>>
  <1>1. ASSUME NEW r \in Runs, RunAct(r)
        PROVE  [Ledger!Next]_<<row, received, Attempt>>
    <2>1. UNCHANGED <<task, pc, received>>
      BY <1>1, RunFrame
    <2>2. Attempt' = Attempt
      BY <2>1, AttemptIsPhase
    <2>3. CASE row' = row
      BY <2>1, <2>2, <2>3
    <2>4. CASE row' # row
      <3>1. Insert(r) /\ ~Exists(Current(r))
            /\ row' = [row EXCEPT ![Current(r)] = PendingRow]
        BY <1>1, <2>4 DEF RunAct, RunStep, Lookup, Insert, AllCreated, ReadExpired,
           Enqueue, Finish, Stop
      <3>2. pos[r] \in DOMAIN Plan[r] /\ Plan[r] \in Seq(Keys)
        BY <3>1, DeliveryAssumption DEF Insert, Inv, Recorded, AtEnd
      <3>3. Current(r) \in Keys
        BY <3>2 DEF Current
      <3>4. row[Current(r)] = Ledger!NoRow
        BY <3>1, <3>3 DEF Inv, Recorded, NoRow, Ledger!NoRow
      <3>5. Ledger!Create(Current(r))
        BY <2>1, <2>2, <3>1, <3>4
           DEF Ledger!Create, Ledger!Set, Ledger!NoRow, PendingRow
      <3> QED BY <3>3, <3>5 DEF Ledger!Next
    <2> QED BY <2>3, <2>4
  <1>2. ASSUME NEW k \in Keys, GiveUp(k) \/ LeaseExpires(k) \/ UNCHANGED vars
        PROVE  UNCHANGED <<row, received, Attempt>>
    <2>1. UNCHANGED <<row, received, task, pc>>
      BY <1>2 DEF GiveUp, LeaseExpires, vars, slotVars
    <2> QED BY <2>1, AttemptIsPhase
  <1>3. ASSUME NEW k \in Keys, NEW s \in Senders, Take(s, k)
        PROVE  UNCHANGED <<row, received, Attempt>>
    <2>1. /\ row' = row /\ received' = received
          /\ task[s] = NoKey /\ pc[s] = "idle" /\ queue[k] = "queued"
          /\ task' = [task EXCEPT ![s] = k] /\ pc' = [pc EXCEPT ![s] = "load"]
      BY <1>3 DEF Take, Goto, Inv, Assigned
    <2>2. \A t \in Senders : task[t] # k
      BY <1>3, <2>1, DeliveryAssumption DEF Inv, Serving, Stage, AllLeased
    <2>3. PhaseIn(k, task, pc) = "none"
      BY <2>2, PhaseOfNone
    <2>4. task'[s] = k /\ pc'[s] = "load" /\ \A t \in Senders : task'[t] = k => t = s
      BY <2>1, <2>2 DEF Inv, TypeOK
    <2>5. PhaseIn(k, task', pc') = "none"
      <3>1. PhaseIn(k, task', pc') = PhaseAt(pc'[s])
        BY <2>4, PhaseOfOne
      <3> QED BY <2>4, <3>1 DEF PhaseAt
    <2>6. ASSUME NEW q \in Keys, q # k
          PROVE  PhaseIn(q, task', pc') = PhaseIn(q, task, pc)
      <3>1. \A t \in Senders : /\ (task[t] = q) <=> (task'[t] = q)
                               /\ task[t] = q => pc[t] = pc'[t]
        BY <2>1, <2>6, DeliveryAssumption DEF Inv, TypeOK
      <3> QED BY <3>1, SamePhase
    <2>7. Attempt' = Attempt
      BY <2>3, <2>5, <2>6, AttemptIsPhase
    <2> QED BY <2>1, <2>7
  <1>4. ASSUME UNCHANGED vars PROVE UNCHANGED <<row, received, Attempt>>
    <2>1. UNCHANGED <<row, received, task, pc>>
      BY <1>4 DEF vars, slotVars
    <2> QED BY <2>1, AttemptIsPhase
  <1> QED
    BY <1>1, <1>2, <1>3, <1>4, SenderLedger DEF Next, RunAct, SenderAct

\* As long as no lease expires, whatever races, crashes, is cancelled or fails, what
\* happens to each delivery is what DeliveryLedger promises: one recorded attempt
\* after the other, each reaching the target at most once.
THEOREM ImplementsDeliveryLedger ==
  ASSUME "lease_loss" \notin Faults
  PROVE  Spec => DeliveryLedgerSpec
  <1>1. Init => Ledger!Init
    <2> SUFFICES ASSUME Init PROVE Ledger!Init
      OBVIOUS
    <2>1. \A k \in Keys : \A t \in Senders : task[t] # k
      BY DeliveryAssumption DEF Init
    <2>2. \A k \in Keys : PhaseIn(k, task, pc) = "none"
      BY <2>1, PhaseOfNone
    <2>3. Attempt = [k \in Keys |-> "none"]
      BY <2>2, AttemptIsPhase
    <2> QED BY <2>3 DEF Init, Ledger!Init, NoRow, Ledger!NoRow
  <1>2. Inv /\ AllLeased /\ [Next]_vars => [Ledger!Next]_<<row, received, Attempt>>
    BY LedgerStep
  <1> QED
    BY <1>1, <1>2, Invariance, StaysLeased, PTL
    DEF Spec, DeliveryLedgerSpec, Ledger!Spec

===============================================================================
