--------------------------- MODULE Admission_proofs ---------------------------
(***************************************************************************)
(* Proofs about Admission.  A step of the whole is a step, or none, of each*)
(* part: the limit, the queue, the scans.  The invariant of each part is   *)
(* shown for the steps of that part, and the parts are put together at the *)
(* end.                                                                    *)
(***************************************************************************)
EXTENDS Admission, FiniteSetTheorems, SequenceTheorems, TLAPS

(***************************************************************************)
(* The limit.                                                              *)
(***************************************************************************)

\* Times are recorded in order, none from the future, and what has left a
\* deque is as old as the window.
LimitInv ==
  /\ LimitTypeOK
  /\ \A s \in Subjects : \A i, j \in 1 .. Len(log[s]) :
       i <= j => log[s][i] <= log[s][j]
  /\ \A s \in Subjects : \A i \in 1 .. Len(log[s]) : log[s][i] <= now
  /\ \A s \in Subjects : \A i \in 1 .. front[s] : Expired(s, i)
  /\ WithinLimit

LimitNext ==
  \/ \E s \in Subjects : Admit(s) \/ Refuse(s)
  \/ Elapse
  \/ Forget
  \/ UNCHANGED limitVars

\* The deque of one subject, when the request made now is appended to it.
LEMMA AppendedLog ==
  ASSUME NEW seq \in Seq(Nat), NEW t \in Nat, NEW k \in 0 .. Len(seq),
         NEW L \in Int, NEW W \in Int, L > 0, W > 0,
         Len(seq) - k < L,
         \A i \in 1 .. k : seq[i] <= t - W,
         \A i, j \in 1 .. Len(seq) : i <= j => seq[i] <= seq[j],
         \A i \in 1 .. Len(seq) : seq[i] <= t,
         \A i \in 1 .. Len(seq) : i + L <= Len(seq) => seq[i + L] - seq[i] >= W
  PROVE  /\ Append(seq, t) \in Seq(Nat)
         /\ k <= Len(Append(seq, t))
         /\ \A i, j \in 1 .. Len(Append(seq, t)) :
              i <= j => Append(seq, t)[i] <= Append(seq, t)[j]
         /\ \A i \in 1 .. Len(Append(seq, t)) : Append(seq, t)[i] <= t
         /\ \A i \in 1 .. k : Append(seq, t)[i] <= t - W
         /\ \A i \in 1 .. Len(Append(seq, t)) :
              i + L <= Len(Append(seq, t)) =>
                Append(seq, t)[i + L] - Append(seq, t)[i] >= W
<1>1. PICK a : a = Append(seq, t)
  OBVIOUS
<1>2. /\ a \in Seq(Nat)
      /\ Len(a) = Len(seq) + 1
      /\ \A i \in 1 .. Len(seq) : a[i] = seq[i]
      /\ a[Len(seq) + 1] = t
      /\ Len(seq) \in Nat
      /\ \A i \in 1 .. Len(seq) : seq[i] \in Nat
  <2>1. /\ Append(seq, t) \in Seq(Nat)
        /\ Len(Append(seq, t)) = Len(seq) + 1
        /\ \A i \in 1 .. Len(seq) : Append(seq, t)[i] = seq[i]
        /\ Append(seq, t)[Len(seq) + 1] = t
    BY ONLY seq \in Seq(Nat), t \in Nat, AppendProperties
  <2>2. Len(seq) \in Nat /\ \A i \in 1 .. Len(seq) : seq[i] \in Nat
    BY ONLY seq \in Seq(Nat)
  <2>3. QED  BY ONLY <1>1, <2>1, <2>2
<1>3. PICK n \in Nat : n = Len(seq) /\ Len(a) = n + 1 /\ k \in 0 .. n
  BY ONLY <1>2, k \in 0 .. Len(seq)
<1>4. /\ \A i \in 1 .. n : a[i] = seq[i] /\ seq[i] \in Int /\ seq[i] <= t
      /\ a[n + 1] = t /\ t \in Int
  <2>1. \A i \in 1 .. Len(seq) : seq[i] <= t
    OBVIOUS
  <2>2. QED  BY ONLY <1>2, <1>3, <2>1, t \in Nat
<1>5. \A i, j \in 1 .. n : i <= j => seq[i] <= seq[j]
  BY ONLY <1>3, \A i, j \in 1 .. Len(seq) : i <= j => seq[i] <= seq[j]
<1>6. \A i \in 1 .. k : seq[i] <= t - W
  OBVIOUS
<1>7. ASSUME NEW i \in 1 .. n + 1, NEW j \in 1 .. n + 1, i <= j
      PROVE  a[i] <= a[j]
  <2>1. CASE j = n + 1
    <3>1. i \in 1 .. n \/ i = n + 1
      BY ONLY n \in Nat, i \in 1 .. n + 1
    <3>2. QED  BY ONLY <1>4, <2>1, <3>1
  <2>2. CASE j # n + 1
    <3>1. i \in 1 .. n /\ j \in 1 .. n
      BY ONLY <1>7, <2>2, n \in Nat, i \in 1 .. n + 1, j \in 1 .. n + 1
    <3>2. a[i] = seq[i] /\ a[j] = seq[j] /\ seq[i] <= seq[j]
      BY ONLY <1>4, <1>5, <1>7, <3>1
    <3>3. QED  BY ONLY <3>2
  <2>3. QED  BY ONLY <2>1, <2>2
<1>8. ASSUME NEW i \in 1 .. n + 1 PROVE a[i] <= t
  <2>1. i \in 1 .. n \/ i = n + 1
    BY ONLY n \in Nat, i \in 1 .. n + 1
  <2>2. QED  BY ONLY <1>4, <2>1
<1>9. ASSUME NEW i \in 1 .. k PROVE a[i] <= t - W
  <2>1. i \in 1 .. n
    BY ONLY n \in Nat, <1>3, i \in 1 .. k
  <2>2. QED  BY ONLY <1>4, <1>6, <2>1, i \in 1 .. k
<1>10. ASSUME NEW i \in 1 .. n + 1, i + L <= n + 1
       PROVE  a[i + L] - a[i] >= W
  <2>1. CASE i + L = n + 1
    <3>1. i \in 1 .. k
      <4>1. n - k < L
        BY <1>3
      <4>2. QED
        BY ONLY <1>3, <2>1, <4>1, n \in Nat, L \in Int, i \in 1 .. n + 1
    <3>2. i \in 1 .. n
      BY ONLY <1>3, <3>1, n \in Nat
    <3>3. a[i] = seq[i] /\ seq[i] \in Int /\ seq[i] <= t - W /\ a[i + L] = t
      BY ONLY <1>4, <1>6, <2>1, <3>1, <3>2
    <3>4. QED  BY ONLY <3>3, t \in Nat, W \in Int
  <2>2. CASE i + L # n + 1
    <3>1. i \in 1 .. n /\ i + L \in 1 .. n /\ i + L <= Len(seq)
      BY ONLY <1>3, <1>10, <2>2, L \in Int, L > 0, n \in Nat, i \in 1 .. n + 1
    <3>2. i \in 1 .. Len(seq)
      BY ONLY <1>3, <3>1
    <3>3. seq[i + L] - seq[i] >= W
      BY <3>1, <3>2
    <3>4. a[i] = seq[i] /\ a[i + L] = seq[i + L]
      BY ONLY <1>4, <3>1
    <3>5. QED  BY ONLY <3>3, <3>4
  <2>3. QED  BY ONLY <2>1, <2>2
<1>11. k <= Len(a)
  BY ONLY <1>3, n \in Nat
<1>12. QED
  BY ONLY <1>1, <1>2, <1>3, <1>7, <1>8, <1>9, <1>10, <1>11

\* Every step keeps the invariant of the limit.
LEMMA LimitStep == LimitInv /\ LimitNext => LimitInv'
<1> SUFFICES ASSUME LimitInv, LimitNext PROVE LimitInv'
  OBVIOUS
<1> USE LimitAssumption
<1>1. ASSUME NEW s \in Subjects, Admit(s) PROVE LimitInv'
  <2>1. CASE ~Enforced
    BY <1>1, <2>1 DEF Admit, LimitInv, LimitTypeOK, WithinLimit, Enforced,
                     Expired
  <2>2. CASE Enforced
    <3>1. PICK k \in 0 .. Len(log[s]) :
            /\ PoppedTo(s, k)
            /\ Len(log[s]) - k < Limit
            /\ front' = [front EXCEPT ![s] = k]
            /\ log' = [log EXCEPT ![s] = Append(@, now)]
            /\ now' = now
      BY <1>1, <2>2 DEF Admit
    <3>2. \A i \in 1 .. k : log[s][i] <= now - Window
      <4>1. \A i \in 1 .. k : i <= front[s] \/ i >= front[s] + 1
        BY DEF LimitInv, LimitTypeOK
      <4>2. QED
        BY <3>1, <4>1 DEF PoppedTo, Expired, LimitInv, LimitTypeOK
    <3>3. log[s] \in Seq(Nat) /\ now \in Nat /\ Limit > 0 /\ Window > 0
      BY <2>2 DEF LimitInv, LimitTypeOK, Enforced
    <3>4. /\ Append(log[s], now) \in Seq(Nat)
          /\ k <= Len(Append(log[s], now))
          /\ \A i, j \in 1 .. Len(Append(log[s], now)) :
               i <= j => Append(log[s], now)[i] <= Append(log[s], now)[j]
          /\ \A i \in 1 .. Len(Append(log[s], now)) :
               Append(log[s], now)[i] <= now
          /\ \A i \in 1 .. k : Append(log[s], now)[i] <= now - Window
          /\ \A i \in 1 .. Len(Append(log[s], now)) :
               i + Limit <= Len(Append(log[s], now)) =>
                 Append(log[s], now)[i + Limit] - Append(log[s], now)[i]
                   >= Window
      <4>1. /\ \A i, j \in 1 .. Len(log[s]) :
                 i <= j => log[s][i] <= log[s][j]
            /\ \A i \in 1 .. Len(log[s]) : log[s][i] <= now
            /\ \A i \in 1 .. Len(log[s]) :
                 i + Limit <= Len(log[s]) =>
                   log[s][i + Limit] - log[s][i] >= Window
        BY <2>2 DEF LimitInv, WithinLimit
      <4>2. QED  BY <3>1, <3>2, <3>3, <4>1, AppendedLog
    <3>5. PICK a : a = Append(log[s], now)
      OBVIOUS
    <3>6. /\ log'[s] = a /\ front'[s] = k
          /\ \A x \in Subjects \ {s} : log'[x] = log[x] /\ front'[x] = front[x]
          /\ log' \in [Subjects -> Seq(Nat)]
          /\ front' \in [Subjects -> Nat]
      BY <3>1, <3>4, <3>5 DEF LimitInv, LimitTypeOK
    <3>7. LimitTypeOK'
      BY <3>1, <3>3, <3>4, <3>5, <3>6 DEF LimitInv, LimitTypeOK
    <3>8. \A x \in Subjects : \A i, j \in 1 .. Len(log'[x]) :
            i <= j => log'[x][i] <= log'[x][j]
      BY <3>4, <3>5, <3>6 DEF LimitInv
    <3>9. \A x \in Subjects : \A i \in 1 .. Len(log'[x]) : log'[x][i] <= now'
      BY <3>1, <3>4, <3>5, <3>6 DEF LimitInv
    <3>10. \A x \in Subjects : \A i \in 1 .. front'[x] :
             log'[x][i] <= now' - Window
      BY <3>1, <3>4, <3>5, <3>6 DEF LimitInv, Expired
    <3>11. \A x \in Subjects : \A i \in 1 .. Len(log'[x]) :
             i + Limit <= Len(log'[x]) => log'[x][i + Limit] - log'[x][i] >= Window
      BY <2>2, <3>4, <3>5, <3>6 DEF LimitInv, WithinLimit
    <3>12. QED
      BY <3>7, <3>8, <3>9, <3>10, <3>11 DEF LimitInv, WithinLimit, Expired
  <2>3. QED  BY <2>1, <2>2
<1>2. ASSUME NEW s \in Subjects, Refuse(s) PROVE LimitInv'
  <2>1. PICK k \in 0 .. Len(log[s]) :
          PoppedTo(s, k) /\ front' = [front EXCEPT ![s] = k]
    BY <1>2 DEF Refuse
  <2>2. \A i \in 1 .. k : Expired(s, i)
    <3>1. \A i \in 1 .. k : i <= front[s] \/ i >= front[s] + 1
      BY DEF LimitInv, LimitTypeOK
    <3>2. QED
      BY <2>1, <3>1 DEF PoppedTo, LimitInv, LimitTypeOK
  <2>3. /\ front'[s] = k /\ front' \in [Subjects -> Nat]
        /\ \A x \in Subjects \ {s} : front'[x] = front[x]
        /\ log' = log /\ now' = now
    BY <1>2, <2>1 DEF Refuse, LimitInv, LimitTypeOK
  <2>4. LimitTypeOK'
    BY <2>1, <2>3 DEF LimitInv, LimitTypeOK
  <2>5. \A x \in Subjects : \A i \in 1 .. front'[x] : Expired(x, i)'
    BY <2>2, <2>3 DEF LimitInv, Expired
  <2>6. QED
    BY <2>3, <2>4, <2>5 DEF LimitInv, WithinLimit, Enforced
<1>3. CASE Elapse
  BY <1>3 DEF Elapse, LimitInv, LimitTypeOK, WithinLimit, Enforced, Expired
<1>4. CASE Forget
  <2>1. \A s \in Subjects : log'[s] = <<>> /\ front'[s] = 0
    BY <1>4 DEF Forget
  <2>2. \A s \in Subjects : Len(log'[s]) = 0
    BY <2>1
  <2>3. LimitTypeOK'
    BY <1>4, <2>1, <2>2 DEF Forget, LimitInv, LimitTypeOK
  <2>4. QED
    BY <2>1, <2>2, <2>3 DEF LimitInv, WithinLimit
<1>5. CASE UNCHANGED limitVars
  BY <1>5 DEF limitVars, LimitInv, LimitTypeOK, WithinLimit, Enforced, Expired
<1>6. QED  BY <1>1, <1>2, <1>3, <1>4, <1>5 DEF LimitNext

\* What is left in the deque of a subject that is refused is in the window.
LEMMA RefusedInWindow ==
  ASSUME NEW s \in Subjects, LimitInv, Refuse(s) PROVE AtLimit(s)
<1> USE LimitAssumption
<1>1. PICK k \in 0 .. Len(log[s]) : PoppedTo(s, k) /\ Len(log[s]) - k >= Limit
  BY DEF Refuse
<1>2. Limit > 0 /\ Window > 0 /\ log[s] \in Seq(Nat) /\ now \in Nat
  BY DEF Refuse, Enforced, LimitInv, LimitTypeOK
<1>3. /\ k + 1 \in 1 .. Len(log[s])
      /\ Len(log[s]) - Limit + 1 \in 1 .. Len(log[s])
      /\ k + 1 <= Len(log[s]) - Limit + 1
  BY <1>1, <1>2
<1>4. log[s][k + 1] > now - Window
  BY <1>1, <1>2, <1>3 DEF PoppedTo, Expired
<1>5. log[s][k + 1] <= log[s][Len(log[s]) - Limit + 1]
  BY <1>3 DEF LimitInv
<1>6. log[s][Len(log[s]) - Limit + 1] \in Nat /\ log[s][k + 1] \in Nat
  BY ONLY <1>2, <1>3
<1>7. Limit <= Len(log[s])
  BY ONLY LimitAssumption, <1>2, <1>3
<1> now \in Nat /\ Window \in Int
  BY ONLY LimitAssumption, <1>2 DEF LimitAssumption
<1>8. now - log[s][Len(log[s]) - Limit + 1] < Window
  <2>1. PICK x, y : /\ x = log[s][k + 1] /\ y = log[s][Len(log[s]) - Limit + 1]
                    /\ x \in Nat /\ y \in Nat /\ x > now - Window /\ x <= y
    BY ONLY <1>4, <1>5, <1>6
  <2>2. now - y < Window
    BY ONLY now \in Nat, Window \in Int, <2>1, SMT
  <2>3. QED  BY ONLY <2>1, <2>2
<1>9. QED  BY ONLY <1>7, <1>8 DEF AtLimit

(***************************************************************************)
(* The queue.                                                              *)
(***************************************************************************)

\* What producers and the worker do to the queue, each producer with its ids.
QueueNext ==
  \/ \E p \in Producers : FindRoom(p)
  \/ \E p \in Producers, id \in JobIds : Enqueue(p, id) \/ EnqueueFails(p, id)
  \/ \E id \in Uncounted : Take(id) /\ UNCHANGED checked
  \/ \E id \in JobIds : Start(id) \/ Finish(id) \/ ResultExpires(id)
  \/ /\ queue' \subseteq queue /\ running' \subseteq running \cap queue'
     /\ kept' = kept /\ accepted' = accepted
     /\ checked' \subseteq checked

LEMMA QueueTypeStep == QueueTypeOK /\ QueueNext => QueueTypeOK'
<1> SUFFICES ASSUME QueueTypeOK, QueueNext PROVE QueueTypeOK'
  OBVIOUS
<1> USE QueueAssumption DEF QueueTypeOK
<1>1. CASE \E p \in Producers : FindRoom(p)
  BY <1>1 DEF FindRoom
<1>2. ASSUME NEW id \in JobIds, Take(id)
      PROVE  /\ queue' \subseteq JobIds /\ running' \subseteq queue'
             /\ kept' \subseteq JobIds \ queue' /\ accepted' \subseteq JobIds
             /\ queue' \cup kept' \subseteq accepted'
  BY <1>2 DEF Take, Known
<1>3. CASE \E p \in Producers, id \in JobIds :
             Enqueue(p, id) \/ EnqueueFails(p, id)
  <2>1. PICK p \in Producers, id \in JobIds :
          /\ checked' = checked \ {p}
          /\ Take(id) \/ UNCHANGED <<queue, running, kept, accepted>>
    BY <1>3 DEF Enqueue, EnqueueFails
  <2>2. QED  BY <1>2, <2>1
<1>4. CASE \E id \in Uncounted : Take(id) /\ UNCHANGED checked
  BY <1>2, <1>4
<1>5. ASSUME NEW id \in JobIds, Start(id) PROVE QueueTypeOK'
  BY <1>5 DEF Start
<1>6. ASSUME NEW id \in JobIds, Finish(id) PROVE QueueTypeOK'
  BY <1>6 DEF Finish
<1>7. ASSUME NEW id \in JobIds, ResultExpires(id) PROVE QueueTypeOK'
  BY <1>7 DEF ResultExpires
<1>8. CASE /\ queue' \subseteq queue /\ running' \subseteq running \cap queue'
           /\ kept' = kept /\ accepted' = accepted
           /\ checked' \subseteq checked
  BY <1>8
<1> HIDE DEF QueueTypeOK
<1>9. CASE \E id \in JobIds : Start(id) \/ Finish(id) \/ ResultExpires(id)
  BY <1>5, <1>6, <1>7, <1>9
<1>10. QED  BY ONLY QueueNext, <1>1, <1>3, <1>4, <1>8, <1>9 DEF QueueNext

\* No step takes back what Redis has taken.
LEMMA AcceptedGrows ==
  QueueTypeOK /\ QueueNext => accepted \subseteq accepted'
  BY DEF QueueTypeOK, QueueNext, FindRoom, Enqueue, EnqueueFails, Take,
         Start, Finish, ResultExpires

\* One element more or less, in numbers.
LEMMA OneMore ==
  ASSUME NEW S, IsFiniteSet(S), NEW x, NEW T \in SUBSET (S \cup {x})
  PROVE  IsFiniteSet(T) /\ Cardinality(T) <= Cardinality(S) + 1
<1>1. /\ IsFiniteSet(S \cup {x})
      /\ \/ Cardinality(S \cup {x}) = Cardinality(S)
         \/ Cardinality(S \cup {x}) = Cardinality(S) + 1
  BY FS_AddElement
<1>2. IsFiniteSet(T) /\ Cardinality(T) <= Cardinality(S \cup {x})
  BY <1>1, FS_Subset
<1>3. /\ Cardinality(S) \in Nat /\ Cardinality(T) \in Nat
      /\ Cardinality(S \cup {x}) \in Nat
  BY <1>1, <1>2, FS_CardinalityType
<1>4. QED
  BY ONLY <1>1, <1>2, <1>3

\* Every step keeps the bound on the depth.
LEMMA DepthStep ==
  QueueTypeOK /\ DepthBounded /\ QueueNext => DepthBounded'
<1> SUFFICES ASSUME QueueTypeOK, DepthBounded, QueueNext, MaxDepth > 0
             PROVE  Cardinality(Counted') + Cardinality(checked') <=
                      MaxDepth - 1 + Cardinality(Producers)
  BY DEF DepthBounded
<1>1. /\ IsFiniteSet(queue) /\ IsFiniteSet(Counted) /\ IsFiniteSet(checked)
      /\ IsFiniteSet(Producers)
      /\ Cardinality(Counted) <= Cardinality(queue)
      /\ Cardinality(checked) <= Cardinality(Producers)
  BY QueueAssumption, FS_Subset DEF QueueTypeOK, Counted
<1>2. /\ QueueTypeOK'
      /\ IsFiniteSet(Counted') /\ IsFiniteSet(checked')
      /\ Cardinality(checked') <= Cardinality(Producers)
  <2>1. QueueTypeOK'
    BY QueueTypeStep
  <2>2. Counted' \subseteq JobIds /\ checked' \subseteq Producers
    BY <2>1 DEF QueueTypeOK, Counted
  <2>3. QED
    BY <2>1, <2>2, QueueAssumption, FS_Subset
<1>3. /\ Cardinality(queue) \in Nat /\ Cardinality(Counted) \in Nat
      /\ Cardinality(checked) \in Nat /\ Cardinality(Producers) \in Nat
      /\ Cardinality(Counted') \in Nat /\ Cardinality(checked') \in Nat
      /\ MaxDepth \in Int
  BY <1>1, <1>2, FS_CardinalityType, QueueAssumption
<1>4. Cardinality(Counted) + Cardinality(checked) <=
        MaxDepth - 1 + Cardinality(Producers)
  BY DEF DepthBounded
<1>5. ASSUME NEW p \in Producers, FindRoom(p)
      PROVE  Cardinality(Counted') + Cardinality(checked') <=
               MaxDepth - 1 + Cardinality(Producers)
  <2>1. Counted' = Counted /\ Cardinality(queue) < MaxDepth
    BY <1>3, <1>5 DEF FindRoom, HasRoom, Counted
  <2>2. Cardinality(Counted') = Cardinality(Counted)
    BY ONLY <2>1
  <2>3. QED
    BY ONLY <1>1, <1>2, <1>3, <2>1, <2>2
<1>6. ASSUME NEW p \in Producers, NEW id \in JobIds,
             Enqueue(p, id) \/ EnqueueFails(p, id)
      PROVE  Cardinality(Counted') + Cardinality(checked') <=
               MaxDepth - 1 + Cardinality(Producers)
  <2>1. p \in checked /\ checked' = checked \ {p}
    BY <1>6 DEF Enqueue, EnqueueFails
  <2>2. Cardinality(checked') = Cardinality(checked) - 1
    BY <1>1, <2>1, FS_RemoveElement
  <2>3. Counted' \in SUBSET (Counted \cup {id})
    BY <1>6 DEF Enqueue, EnqueueFails, Take, Counted
  <2>4. Cardinality(Counted') <= Cardinality(Counted) + 1
    BY <1>1, <2>3, OneMore
  <2>5. QED
    BY ONLY <1>3, <1>4, <2>2, <2>4
<1>7. ASSUME Counted' \subseteq Counted, checked' \subseteq checked
      PROVE  Cardinality(Counted') + Cardinality(checked') <=
               MaxDepth - 1 + Cardinality(Producers)
  <2>1. /\ Cardinality(Counted') <= Cardinality(Counted)
        /\ Cardinality(checked') <= Cardinality(checked)
    BY <1>1, <1>7, FS_Subset
  <2>2. QED
    BY ONLY <1>3, <1>4, <2>1
<1>8. CASE \E id \in Uncounted : Take(id) /\ UNCHANGED checked
  <2>1. Counted' \subseteq Counted /\ checked' \subseteq checked
    BY <1>8 DEF Take, Counted
  <2>2. QED  BY <1>7, <2>1
<1>9. CASE \E id \in JobIds : Start(id) \/ Finish(id) \/ ResultExpires(id)
  <2>1. Counted' \subseteq Counted /\ checked' \subseteq checked
    BY <1>9 DEF Start, Finish, ResultExpires, Counted
  <2>2. QED  BY <1>7, <2>1
<1>10. CASE queue' \subseteq queue /\ checked' \subseteq checked
  <2>1. Counted' \subseteq Counted
    BY <1>10 DEF Counted
  <2>2. QED  BY <1>7, <1>10, <2>1
<1>11. QED
  BY <1>5, <1>6, <1>8, <1>9, <1>10 DEF QueueNext

(***************************************************************************)
(* The scans.                                                              *)
(***************************************************************************)

\* What is known of a scan, when Redis has taken the jobs taken: before its loop it
\* has all sources still to do, and later it has dealt with every source it listed
\* but those; it ends with none to do, or raises before its loop.
Accounted(r, taken) ==
  /\ r.state \in {"started", "listed"} => r.failed = {} /\ r.todo = r.listed
  /\ r.state \in InSlot \cup {"done", "raised"} =>
       /\ r.day \in Days
       /\ \A s \in r.listed \ (r.failed \cup r.todo) : IngestJob(r.day, s) \in taken
  /\ r.state \in {"done", "raised"} =>
       r.todo = {} /\ (r.state = "done" <=> r.failed = {})

\* A scan has the slot of its cron job exactly while it is executed, and is accounted
\* for.
ScanInv ==
  /\ ScanTypeOK
  /\ \A n \in Nights :
       /\ scan[n].state \in InSlot <=> CronJob(n) \in running
       /\ Accounted(scan[n], accepted)

LEMMA ScanInvCovers == ScanInv => ScanCovers
  BY DEF ScanInv, Accounted, ScanCovers

\* What a step does to one scan.
LEMMA OneScan ==
  ASSUME ScanInv, accepted \subseteq accepted', day' \in Days,
         NEW n \in Nights, NEW r \in Scan, scan' = [scan EXCEPT ![n] = r],
         \A m \in Nights \ {n} :
           CronJob(m) \in running' <=> CronJob(m) \in running,
         r.state \in InSlot <=> CronJob(n) \in running',
         Accounted(r, accepted')
  PROVE  ScanInv'
<1>1. /\ scan'[n] = r
      /\ \A m \in Nights \ {n} : scan'[m] = scan[m]
      /\ scan' \in [Nights -> Scan]
  BY DEF ScanInv, ScanTypeOK
<1>2. \A m \in Nights \ {n} :
        /\ scan'[m].state \in InSlot <=> CronJob(m) \in running'
        /\ Accounted(scan'[m], accepted')
  BY <1>1 DEF ScanInv, Accounted
<1>3. ScanTypeOK'
  BY <1>1 DEF ScanTypeOK
<1>4. QED
  BY <1>1, <1>2, <1>3 DEF ScanInv, Accounted

\* What leaves the scans alone keeps their invariant.
LEMMA NoScan ==
  ASSUME ScanInv, accepted \subseteq accepted', day' \in Days, scan' = scan,
         \A n \in Nights : CronJob(n) \in running' <=> CronJob(n) \in running
  PROVE  ScanInv'
  BY DEF ScanInv, ScanTypeOK, Accounted

\* The ids of the jobs are the ids of three kinds, which do not overlap.
LEMMA JobIdsDiffer ==
  /\ \A n \in Nights : CronJob(n) \in Uncounted
  /\ \A m, n \in Nights : CronJob(m) = CronJob(n) => m = n
  /\ \A d \in Days, s \in Sources :
       IngestJob(d, s) \in JobIds /\ IngestJob(d, s) \notin Uncounted
  BY ScanAssumption DEF CronJob, IngestJob

\* The steps of one scan.
ScanActs(n) ==
  \/ Fire(n) \/ BeginScan(n) \/ GiveUpScan(n) \/ CancelScan(n)
  \/ ListSources(n) \/ ListFails(n) \/ ReturnEmpty(n)
  \/ OpenPool(n) \/ OpenPoolFails(n)
  \/ FindRoomFor(n) \/ NoRoomFor(n) \/ DepthUnreadFor(n)
  \/ EnqueueSource(n) \/ EnqueueSourceFails(n) \/ EndScan(n)

\* The record of a scan is typed, and what it has been through is accounted for.
LEMMA ThisScan ==
  ASSUME ScanInv, NEW n \in Nights
  PROVE  /\ scan \in [Nights -> Scan] /\ scan[n] \in Scan
         /\ day \in Days
         /\ Accounted(scan[n], accepted)
         /\ scan[n].state \in InSlot <=> CronJob(n) \in running
  BY DEF ScanInv, ScanTypeOK

\* The end of an execution, in a state that the record has earned.
LEMMA LeavesAccounted ==
  ASSUME ScanInv, accepted \subseteq accepted', NEW n \in Nights,
         NEW state \in Ended, Leave(n, state),
         Accounted([scan[n] EXCEPT !.state = state], accepted)
  PROVE  ScanInv'
<1>1. PICK q : q = [scan[n] EXCEPT !.state = state]
  OBVIOUS
<1>2. q \in Scan /\ q.state = state /\ q.state \notin InSlot
  BY <1>1, ThisScan DEF Scan, Ended, InSlot
<1>3. scan' = [scan EXCEPT ![n] = q] /\ day' = day /\ running' = running \ {CronJob(n)}
  BY <1>1, ThisScan DEF Leave, Finish
<1>4. /\ \A m \in Nights \ {n} : CronJob(m) \in running' <=> CronJob(m) \in running
      /\ CronJob(n) \notin running'
  BY <1>3, JobIdsDiffer
<1>5. Accounted(q, accepted')
  BY <1>1 DEF Accounted
<1>6. QED  BY <1>2, <1>3, <1>4, <1>5, ThisScan, OneScan

\* Every source that a running scan passes is of a job Redis has taken.
LEMMA TakenIsAccepted ==
  ASSUME QueueTypeOK, NEW id \in JobIds, Take(id) PROVE id \in accepted'
  BY DEF QueueTypeOK, Take, Known

\* Steps of a running scan that change its record only in todo and failed.
LEMMA PassedScan ==
  ASSUME QueueTypeOK, ScanInv, accepted \subseteq accepted', NEW n \in Nights,
         NEW s \in scan[n].todo, Running(n), running' = running, day' = day,
         \/ PassFailed(n, s)
         \/ Pass(n, s) /\ IngestJob(scan[n].day, s) \in accepted'
  PROVE  ScanInv'
<1>1. PICK r : r = scan[n] /\ r \in Scan /\ r.state = "running" /\ r.day \in Days
  BY ThisScan DEF Running, Accounted, InSlot
<1>2. \A x \in r.listed \ (r.failed \cup r.todo) :
        IngestJob(r.day, x) \in accepted
  BY <1>1, ThisScan DEF Accounted, InSlot
<1>3. CronJob(n) \in running' /\ day' \in Days /\ s \in r.todo /\ s \in Sources
  BY <1>1, ThisScan DEF Running, Scan, InSlot
<1>4. CASE PassFailed(n, s)
  <2>1. PICK q : q = [r EXCEPT !.failed = @ \cup {s}, !.todo = @ \ {s}]
    OBVIOUS
  <2>2. /\ q \in Scan /\ q.state = "running" /\ q.day = r.day
        /\ q.listed = r.listed /\ q.failed = r.failed \cup {s}
        /\ q.todo = r.todo \ {s}
    BY <1>1, <1>3, <2>1 DEF Scan
  <2>3. scan' = [scan EXCEPT ![n] = q]
    BY <1>1, <1>4, <2>1 DEF PassFailed, ScanInv, ScanTypeOK
  <2>4. \A x \in q.listed \ (q.failed \cup q.todo) :
          IngestJob(q.day, x) \in accepted'
    BY <1>2, <2>2
  <2>5. Accounted(q, accepted')
    BY <1>1, <2>2, <2>4 DEF Accounted
  <2>6. QED
    BY <1>3, <2>2, <2>3, <2>5, OneScan DEF InSlot
<1>5. CASE Pass(n, s) /\ IngestJob(r.day, s) \in accepted'
  <2>1. PICK q : q = [r EXCEPT !.todo = @ \ {s}]
    OBVIOUS
  <2>2. /\ q \in Scan /\ q.state = "running" /\ q.day = r.day
        /\ q.listed = r.listed /\ q.failed = r.failed
        /\ q.todo = r.todo \ {s}
    BY <1>1, <1>3, <2>1 DEF Scan
  <2>3. scan' = [scan EXCEPT ![n] = q]
    BY <1>1, <1>5, <2>1 DEF Pass, ScanInv, ScanTypeOK
  <2>4. \A x \in q.listed \ (q.failed \cup q.todo) :
          IngestJob(q.day, x) \in accepted'
    BY <1>2, <1>5, <2>2
  <2>5. Accounted(q, accepted')
    BY <1>1, <2>2, <2>4 DEF Accounted
  <2>6. QED
    BY <1>3, <2>2, <2>3, <2>5, OneScan DEF InSlot
<1>6. QED  BY <1>1, <1>4, <1>5

\* Every step of a scan keeps the invariant of the scans.
LEMMA ScanStepInv ==
  ASSUME QueueTypeOK, ScanInv, accepted \subseteq accepted',
         NEW n \in Nights, ScanActs(n)
  PROVE  ScanInv'
<1>1. PICK r : r = scan[n] /\ r \in Scan
  BY ThisScan
<1>2. day \in Days /\ scan \in [Nights -> Scan] /\ Accounted(r, accepted)
  BY <1>1, ThisScan
<1>3. CASE Fire(n)
  <2>1. PICK q : q = [r EXCEPT !.state = "queued"]
    OBVIOUS
  <2>2. q \in Scan /\ q.state = "queued" /\ Accounted(q, accepted')
    BY <1>1, <2>1 DEF Scan, Accounted, InSlot
  <2>3. scan' = [scan EXCEPT ![n] = q] /\ running' = running /\ day' = day
    BY <1>1, <1>2, <1>3, <2>1 DEF Fire, Take
  <2>4. CronJob(n) \notin running
    BY <1>3, ThisScan DEF Fire, InSlot
  <2>5. QED  BY <1>2, <2>2, <2>3, <2>4, OneScan DEF InSlot
<1>4. CASE BeginScan(n)
  <2>1. PICK q : q = [IdleScan EXCEPT !.state = "started", !.day = day,
                                      !.tries = r.tries + 1]
    OBVIOUS
  <2>2. /\ q \in Scan /\ q.state = "started" /\ q.day \in Days
        /\ q.listed = {} /\ q.todo = {} /\ q.failed = {}
    <3>1. q = [state |-> "started", day |-> day, todo |-> {}, listed |-> {},
               failed |-> {}, tries |-> r.tries + 1]
      BY <2>1 DEF IdleScan
    <3>2. r.tries + 1 \in Nat
      BY <1>1 DEF Scan
    <3>3. QED  BY <1>2, <3>1, <3>2 DEF Scan, InSlot
  <2>3. scan' = [scan EXCEPT ![n] = q]
    BY <1>1, <1>4, <2>1 DEF BeginScan
  <2>4. running' = running \cup {CronJob(n)} /\ day' = day
    BY <1>4 DEF BeginScan, Start
  <2>5. \A m \in Nights \ {n} :
          CronJob(m) \in running' <=> CronJob(m) \in running
    BY <2>4, JobIdsDiffer
  <2>6. Accounted(q, accepted')
    BY <2>2 DEF Accounted
  <2>7. QED  BY <1>2, <2>2, <2>3, <2>4, <2>5, <2>6, OneScan DEF InSlot
<1>5. CASE GiveUpScan(n)
  <2>1. PICK q : q = [r EXCEPT !.state = "lost"]
    OBVIOUS
  <2>2. q \in Scan /\ q.state = "lost" /\ Accounted(q, accepted')
    BY <1>1, <2>1 DEF Scan, Accounted, InSlot, Ended
  <2>3. scan' = [scan EXCEPT ![n] = q] /\ running' = running /\ day' = day
    BY <1>1, <1>2, <1>5, <2>1 DEF GiveUpScan
  <2>4. CronJob(n) \notin running
    BY <1>5, ThisScan DEF GiveUpScan, InSlot
  <2>5. QED  BY <1>2, <2>2, <2>3, <2>4, OneScan DEF InSlot
<1>6. CASE FindRoomFor(n)
  BY <1>2, <1>6, NoScan DEF FindRoomFor, FindRoom, scanVars
<1>7. CASE NoRoomFor(n) \/ DepthUnreadFor(n)
  <2>1. PICK s \in scan[n].todo :
          Running(n) /\ PassFailed(n, s) /\ running' = running /\ day' = day
    BY <1>7 DEF NoRoomFor, DepthUnreadFor, FindNoRoom, DepthUnread, queueVars
  <2>2. QED  BY <2>1, PassedScan
<1>8. CASE EnqueueSource(n)
  <2>1. PICK s \in scan[n].todo :
          /\ Running(n) /\ Pass(n, s) /\ day' = day
          /\ Take(IngestJob(scan[n].day, s))
    BY <1>8 DEF EnqueueSource, Enqueue
  <2>2. scan[n].day \in Days /\ s \in Sources
    BY <1>1, <1>2, <2>1 DEF Running, Scan, Accounted, InSlot
  <2>3. running' = running /\ IngestJob(scan[n].day, s) \in accepted'
    BY <2>1, <2>2, JobIdsDiffer, TakenIsAccepted DEF Take
  <2>4. QED  BY <2>1, <2>3, PassedScan
<1>9. CASE EnqueueSourceFails(n)
  <2>1. PICK s \in scan[n].todo :
          Running(n) /\ PassFailed(n, s) /\ running' = running /\ day' = day
    BY <1>9 DEF EnqueueSourceFails, EnqueueFails, Take
  <2>2. QED  BY <2>1, PassedScan
<1>10. CASE EndScan(n)
  <2>1. PICK st : st = IF r.failed = {} THEN "done" ELSE "raised"
    OBVIOUS
  <2>2. /\ Leave(n, st) /\ r.todo = {} /\ r.state = "running"
        /\ st \in Ended /\ st \in {"done", "raised"} /\ (st = "done" <=> r.failed = {})
    BY <1>1, <1>10, <2>1 DEF EndScan, Running, Ended
  <2>3. Accounted([r EXCEPT !.state = st], accepted)
    BY <1>1, <1>2, <2>2 DEF Accounted, Scan, InSlot
  <2>4. QED  BY <1>1, <2>2, <2>3, LeavesAccounted
<1>11. CASE CancelScan(n)
  <2>1. PICK q : q = [r EXCEPT !.state = "lost"]
    OBVIOUS
  <2>2. q \in Scan /\ q.state = "lost" /\ Accounted(q, accepted')
    BY <1>1, <2>1 DEF Scan, Accounted, InSlot, Ended
  <2>3. /\ scan' = [scan EXCEPT ![n] = q] /\ day' = day
        /\ running' = running \ {CronJob(n)}
    BY <1>1, <1>2, <1>11, <2>1 DEF CancelScan
  <2>4. /\ \A m \in Nights \ {n} :
             CronJob(m) \in running' <=> CronJob(m) \in running
        /\ CronJob(n) \notin running'
    BY <2>3, JobIdsDiffer
  <2>5. QED  BY <1>2, <2>2, <2>3, <2>4, OneScan DEF InSlot
<1>12. CASE ListSources(n)
  <2>1. PICK S \in SUBSET Sources :
          scan' = [scan EXCEPT ![n].state = "listed", ![n].listed = S, ![n].todo = S]
    BY <1>12 DEF ListSources
  <2>2. PICK q : q = [r EXCEPT !.state = "listed", !.listed = S, !.todo = S]
    OBVIOUS
  <2>3. /\ q \in Scan /\ q.state = "listed" /\ q.day = r.day
        /\ q.listed = S /\ q.todo = S /\ q.failed = r.failed
    BY <1>1, <2>2 DEF Scan, InSlot
  <2>4. scan' = [scan EXCEPT ![n] = q] /\ running' = running /\ day' = day
    BY <1>1, <1>2, <1>12, <2>1, <2>2 DEF ListSources, queueVars
  <2>5. Accounted(q, accepted') /\ CronJob(n) \in running
    BY <1>1, <1>2, <1>12, <2>3, ThisScan DEF ListSources, Accounted, InSlot
  <2>6. QED  BY <1>2, <2>3, <2>4, <2>5, OneScan DEF InSlot
<1>13. CASE OpenPool(n)
  <2>1. PICK q : q = [r EXCEPT !.state = "running"]
    OBVIOUS
  <2>2. /\ q \in Scan /\ q.state = "running" /\ q.day = r.day
        /\ q.listed = r.listed /\ q.todo = r.todo /\ q.failed = r.failed
    BY <1>1, <2>1 DEF Scan, InSlot
  <2>3. scan' = [scan EXCEPT ![n] = q] /\ running' = running /\ day' = day
    BY <1>1, <1>2, <1>13, <2>1 DEF OpenPool, queueVars
  <2>4. Accounted(q, accepted') /\ CronJob(n) \in running
    BY <1>1, <1>2, <1>13, <2>2, ThisScan DEF OpenPool, Accounted, InSlot
  <2>5. QED  BY <1>2, <2>2, <2>3, <2>4, OneScan DEF InSlot
<1>14. CASE ListFails(n) \/ OpenPoolFails(n)
  <2>1. Leave(n, "aborted") /\ "aborted" \in Ended
    BY <1>14 DEF ListFails, OpenPoolFails, Ended
  <2>2. Accounted([r EXCEPT !.state = "aborted"], accepted)
    BY <1>1 DEF Accounted, Scan, InSlot
  <2>3. QED  BY <1>1, <2>1, <2>2, LeavesAccounted
<1>15. CASE ReturnEmpty(n)
  <2>1. /\ Leave(n, "done") /\ "done" \in Ended
        /\ r.state = "listed" /\ r.listed = {}
    BY <1>1, <1>15 DEF ReturnEmpty, Ended
  <2>2. Accounted([r EXCEPT !.state = "done"], accepted)
    BY <1>1, <1>2, <2>1 DEF Accounted, Scan, InSlot
  <2>3. QED  BY <1>1, <2>1, <2>2, LeavesAccounted
<1>16. QED
  BY <1>3, <1>4, <1>5, <1>6, <1>7, <1>8, <1>9, <1>10, <1>11, <1>12, <1>13, <1>14,
     <1>15 DEF ScanActs

(***************************************************************************)
(* The parts together.                                                     *)
(***************************************************************************)

\* A step of the whole is a step of the limit.
LEMMA NextLimit == Next => LimitNext
  BY AdmissionAssumption
  DEF Next, LimitNext, RequestStep, AdmitRequest, RefuseRequest, Clients,
      RequestFindsRoom, RequestFindsNoRoom, RequestEnqueues, RequestFails,
      ApiDies, ScanStep, ScanRuns, ScanFails, WorkerCrash, JobStep, StartJob,
      FinishJob, ForgetResult, TimeStep

\* The steps of a scan, as steps of the queue.
LEMMA ScanQueue ==
  ASSUME QueueTypeOK, ScanInv, NEW n \in Nights, ScanActs(n) PROVE QueueNext
<1>1. CronJob(n) \in Uncounted /\ CronJob(n) \in JobIds /\ n \in Producers
  BY JobIdsDiffer, QueueAssumption, ScanAssumption
<1>2. CASE Fire(n)
  BY <1>1, <1>2 DEF Fire, QueueNext
<1>3. CASE \/ BeginScan(n) \/ EndScan(n) \/ ListFails(n) \/ ReturnEmpty(n)
           \/ OpenPoolFails(n)
  <2>1. Start(CronJob(n)) \/ Finish(CronJob(n))
    BY <1>3 DEF BeginScan, EndScan, ListFails, ReturnEmpty, OpenPoolFails, Leave
  <2>2. QED  BY <1>1, <2>1 DEF QueueNext
<1>4. CASE GiveUpScan(n)
  <2>1. CronJob(n) \notin running
    BY <1>4, ThisScan DEF GiveUpScan, InSlot
  <2>2. QED
    BY <1>4, <2>1 DEF GiveUpScan, QueueNext, QueueTypeOK
<1>5. CASE FindRoomFor(n)
  BY <1>1, <1>5 DEF FindRoomFor, QueueNext
<1>6. CASE \/ NoRoomFor(n) \/ DepthUnreadFor(n) \/ ListSources(n) \/ OpenPool(n)
  <2>1. UNCHANGED queueVars
    BY <1>6 DEF NoRoomFor, DepthUnreadFor, FindNoRoom, DepthUnread, ListSources,
                OpenPool
  <2>2. QED  BY <2>1 DEF queueVars, QueueNext, QueueTypeOK
<1>7. CASE EnqueueSource(n) \/ EnqueueSourceFails(n)
  <2>1. PICK s \in scan[n].todo :
          /\ Running(n)
          /\ \/ Enqueue(n, IngestJob(scan[n].day, s))
             \/ EnqueueFails(n, IngestJob(scan[n].day, s))
    BY <1>7 DEF EnqueueSource, EnqueueSourceFails
  <2>2. IngestJob(scan[n].day, s) \in JobIds
    BY <2>1, JobIdsDiffer, ThisScan DEF Running, Scan, Accounted, InSlot
  <2>3. QED  BY <1>1, <2>1, <2>2 DEF QueueNext
<1>8. CASE CancelScan(n)
  BY <1>8 DEF CancelScan, QueueNext, QueueTypeOK
<1>9. QED
  BY <1>2, <1>3, <1>4, <1>5, <1>6, <1>7, <1>8 DEF ScanActs

\* A step of the whole is a step of the queue.
LEMMA NextQueue == QueueTypeOK /\ ScanInv /\ Next => QueueNext
<1> SUFFICES ASSUME QueueTypeOK, ScanInv, Next PROVE QueueNext
  OBVIOUS
<1>1. CASE UNCHANGED queueVars
  BY <1>1 DEF queueVars, QueueNext, QueueTypeOK
<1>2. CASE RequestStep
  <2>1. ASSUME NEW r \in Requests,
               \/ RequestFindsRoom(r) \/ RequestFindsNoRoom(r)
               \/ RequestEnqueues(r) \/ RequestFails(r)
        PROVE  QueueNext
    <3>1. r \in Producers /\ RequestJob(r) \in JobIds
      BY ScanAssumption, AdmissionAssumption
    <3>2. CASE RequestFindsNoRoom(r)
      BY <1>1, <3>2 DEF RequestFindsNoRoom, FindNoRoom, PoolFails, DepthUnread,
                             queueVars
    <3>3. QED
      BY <2>1, <3>1, <3>2 DEF RequestFindsRoom, RequestEnqueues, RequestFails,
                              QueueNext
  <2>2. CASE ApiDies
    BY <2>2 DEF ApiDies, QueueNext, QueueTypeOK
  <2>3. QED
    BY <1>1, <1>2, <2>1, <2>2 DEF RequestStep, AdmitRequest, RefuseRequest
<1>3. CASE ScanStep
  <2>1. CASE \E n \in Nights : ScanActs(n)
    BY <2>1, ScanQueue
  <2>2. CASE WorkerCrash
    BY <2>2 DEF WorkerCrash, WorkerDies, QueueNext, QueueTypeOK
  <2>3. QED
    BY <1>3, <2>1, <2>2 DEF ScanStep, ScanRuns, ScanFails, ScanActs
<1>4. CASE JobStep
  BY <1>4 DEF JobStep, StartJob, FinishJob, ForgetResult, QueueNext
<1>5. CASE TimeStep
  BY <1>1, <1>5 DEF TimeStep, Midnight
<1>6. QED  BY <1>2, <1>3, <1>4, <1>5 DEF Next

\* A step of the whole keeps the invariant of the scans.
LEMMA NextScan ==
  QueueTypeOK /\ ScanInv /\ Next => ScanInv'
<1> SUFFICES ASSUME QueueTypeOK, ScanInv, Next PROVE ScanInv'
  OBVIOUS
<1>1. accepted \subseteq accepted'
  BY NextQueue, AcceptedGrows
<1>2. day \in Days
  BY DEF ScanInv, ScanTypeOK
<1>3. ASSUME scan' = scan, day' \in Days,
             \A n \in Nights : CronJob(n) \in running' <=> CronJob(n) \in running
      PROVE  ScanInv'
  BY <1>1, <1>3, NoScan
<1>4. CASE RequestStep
  <2>1. scan' = scan /\ day' = day /\ running' = running
    BY <1>4 DEF RequestStep, AdmitRequest, RefuseRequest, RequestFindsRoom,
      RequestFindsNoRoom, RequestEnqueues, RequestFails, ApiDies, scanVars,
      queueVars, FindRoom, FindNoRoom, PoolFails, DepthUnread, Enqueue, EnqueueFails, Take
  <2>2. QED  BY <1>2, <1>3, <2>1
<1>5. CASE ScanStep
  <2>1. CASE \E n \in Nights : ScanActs(n)
    BY <1>1, <2>1, ScanStepInv
  <2>2. CASE WorkerCrash
    <3>1. /\ running' = {} /\ day' = day /\ accepted' = accepted
          /\ scan' = [n \in Nights |->
                        IF scan[n].state \in InSlot THEN [scan[n] EXCEPT !.state = "queued"]
                        ELSE scan[n]]
      BY <2>2 DEF WorkerCrash, WorkerDies
    <3>2. ASSUME NEW n \in Nights
          PROVE  /\ scan'[n] \in Scan /\ scan'[n].state \notin InSlot
                 /\ Accounted(scan'[n], accepted')
      <4>1. PICK r : r = scan[n] /\ r \in Scan /\ Accounted(r, accepted)
        BY ThisScan
      <4>2. CASE r.state \in InSlot
        <5>1. scan'[n] = [r EXCEPT !.state = "queued"]
          BY <3>1, <4>1, <4>2
        <5>2. QED  BY <4>1, <5>1 DEF Scan, Accounted, InSlot
      <4>3. CASE r.state \notin InSlot
        BY <3>1, <4>1, <4>3
      <4>4. QED  BY <4>2, <4>3
    <3>3. ScanTypeOK'
      BY <1>2, <3>1, <3>2 DEF ScanTypeOK
    <3>4. QED
      BY <3>1, <3>2, <3>3 DEF ScanInv
  <2>3. QED
    BY <1>5, <2>1, <2>2 DEF ScanStep, ScanRuns, ScanFails, ScanActs
<1>6. CASE JobStep
  <2>1. PICK id \in JobIds : StartJob(id) \/ FinishJob(id) \/ ForgetResult(id)
    BY <1>6 DEF JobStep
  <2>2. /\ scan' = scan /\ day' = day
        /\ \/ id \notin Uncounted /\ running' = running \cup {id}
           \/ id \notin Uncounted /\ running' = running \ {id}
           \/ running' = running
    BY <2>1 DEF StartJob, FinishJob, ForgetResult, scanVars, Start, Finish,
                ResultExpires
  <2>3. \A n \in Nights : CronJob(n) # id \/ running' = running
    BY <2>2, JobIdsDiffer
  <2>4. QED  BY <1>2, <1>3, <2>2, <2>3
<1>7. CASE TimeStep
  <2>1. /\ scan' = scan /\ running' = running
        /\ day' = day \/ (day < MaxDay /\ day' = day + 1)
    BY <1>7 DEF TimeStep, Midnight, scanVars, queueVars
  <2>2. day' \in Days
    BY <1>2, <2>1, ScanAssumption DEF Days
  <2>3. QED  BY <1>3, <2>1, <2>2
<1>8. QED  BY <1>4, <1>5, <1>6, <1>7 DEF Next

(***************************************************************************)
(* Theorems                                                                *)
(***************************************************************************)
Inv ==
  /\ TypeOK
  /\ LimitInv
  /\ ScanInv
  /\ DepthBounded

\* The parts of the state that belong to Admission itself.
LEMMA OwnTypes ==
  ASSUME TypeOK, Next
  PROVE  answer' \in [Clients -> Answers] /\ crashes' \in 0 .. MaxCrashes
<1> USE AdmissionAssumption DEF TypeOK, Clients, Answers
<1>1. CASE RequestStep
  BY <1>1 DEF RequestStep, AdmitRequest, RefuseRequest, RequestFindsRoom,
    RequestFindsNoRoom, RequestEnqueues, RequestFails, ApiDies, Answer
<1>2. CASE ScanStep
  BY <1>2 DEF ScanStep, ScanRuns, ScanFails, WorkerCrash
<1>3. CASE JobStep
  BY <1>3 DEF JobStep, StartJob, FinishJob, ForgetResult
<1>4. CASE TimeStep
  BY <1>4 DEF TimeStep
<1>5. QED  BY <1>1, <1>2, <1>3, <1>4 DEF Next

LEMMA InitInv == Init => Inv
<1> SUFFICES ASSUME Init PROVE Inv
  OBVIOUS
<1>1. LimitInv
  BY DEF Init, LimitInit, LimitInv, LimitTypeOK, WithinLimit
<1>2. QueueTypeOK
  BY DEF Init, QueueInit, QueueTypeOK
<1>3. ScanTypeOK
  BY ScanAssumption DEF Init, ScanInit, ScanTypeOK, IdleScan, Scan, Days, InSlot
<1>4. ScanInv
  BY <1>3 DEF Init, ScanInit, QueueInit, IdleScan, ScanInv, Accounted, InSlot
<1>5. DepthBounded
  <2>1. Counted = {} /\ checked = {}
    BY DEF Init, QueueInit, Counted
  <2>2. Cardinality(Counted) = 0 /\ Cardinality(checked) = 0
    BY <2>1, FS_EmptySet
  <2>3. Cardinality(Producers) \in Nat
    BY QueueAssumption, FS_CardinalityType
  <2>4. QED
    BY <2>2, <2>3, QueueAssumption DEF DepthBounded
<1>6. TypeOK
  BY <1>1, <1>2, <1>3, AdmissionAssumption DEF Init, TypeOK, LimitInv, Answers
<1>7. QED  BY <1>1, <1>4, <1>5, <1>6 DEF Inv

LEMMA NextInv == Inv /\ [Next]_vars => Inv'
<1> SUFFICES ASSUME Inv, [Next]_vars PROVE Inv'
  OBVIOUS
<1>1. LimitNext /\ QueueNext /\ QueueTypeOK
  <2>1. QueueTypeOK
    BY DEF Inv, TypeOK
  <2>2. CASE Next
    BY <2>1, <2>2, NextLimit, NextQueue DEF Inv
  <2>3. CASE UNCHANGED vars
    BY <2>1, <2>3 DEF vars, LimitNext, limitVars, queueVars, QueueNext, QueueTypeOK
  <2>4. QED  BY <2>2, <2>3
<1>2. LimitInv' /\ QueueTypeOK' /\ DepthBounded'
  BY <1>1, LimitStep, QueueTypeStep, DepthStep DEF Inv
<1>3. ScanInv'
  <2>1. CASE Next
    BY <1>1, <2>1, NextScan DEF Inv
  <2>2. CASE UNCHANGED vars
    BY <2>2, NoScan DEF vars, scanVars, queueVars, Inv, ScanInv, ScanTypeOK
  <2>3. QED  BY <2>1, <2>2
<1>4. answer' \in [Clients -> Answers] /\ crashes' \in 0 .. MaxCrashes
  <2>1. CASE Next
    BY <2>1, OwnTypes DEF Inv
  <2>2. CASE UNCHANGED vars
    BY <2>2 DEF vars, Inv, TypeOK
  <2>3. QED  BY <2>1, <2>2
<1>5. TypeOK'
  BY <1>2, <1>3, <1>4 DEF TypeOK, LimitInv, ScanInv
<1>6. QED  BY <1>2, <1>3, <1>5 DEF Inv

\* The invariant holds of every behaviour of requests, scans and worker.
THEOREM Invariance == Spec => []Inv
  BY InitInv, NextInv, PTL DEF Spec

\* The variables keep their types, whatever the numbers of the constants.
THEOREM TypeCorrect == Spec => []TypeOK
  BY Invariance, PTL DEF Inv

\* No subject gets more than Limit requests through in a window, at whatever
\* times they come (require_heavy_endpoint_rate_limit).
THEOREM LimitHolds == Spec => []WithinLimit
<1>1. Inv => WithinLimit
  BY DEF Inv, LimitInv
<1>2. QED  BY <1>1, Invariance, PTL

\* The queue exceeds its maximum by fewer jobs than there are producers, however
\* their checks and their calls of enqueue_job interleave (_enqueue_job).
THEOREM DepthIsBounded == Spec => []DepthBounded
  BY Invariance, PTL DEF Inv

\* A nightly scan accounts for every source it listed, whatever it was refused
\* and however often it was started (nightly_scan).
THEOREM ScansCover == Spec => []ScanCovers
<1>1. Inv => ScanCovers
  BY ScanInvCovers DEF Inv
<1>2. QED  BY <1>1, Invariance, PTL

\* A 429 means that the limit was reached within the window, and not that
\* requests older than the window still counted.
THEOREM RefusalsAreDue == Spec => RefusedAtLimit
<1>1. ASSUME Inv, [Next]_vars, NEW r \in Clients,
             answer[r] # "429", answer'[r] = "429"
      PROVE  AtLimit(SubjectOf[r])
  <2>1. answer \in [Clients -> Answers]
    BY <1>1 DEF Inv, TypeOK
  <2>2. RefuseRequest(r)
    <3>1. RequestStep
      BY <1>1 DEF vars, Next, ScanStep, ScanRuns, ScanFails, WorkerCrash, JobStep,
        StartJob, FinishJob, ForgetResult, TimeStep
    <3>2. \A c \in Clients, a \in Answers : Answer(c, a) => c = r /\ a = "429"
      BY <1>1, <2>1 DEF Answer
    <3>3. Requests \subseteq Clients
      BY DEF Clients
    <3>4. CASE \E c \in Clients : AdmitRequest(c) \/ RefuseRequest(c)
      BY <3>2, <3>4 DEF AdmitRequest, RefuseRequest, Answers
    <3>5. CASE \E c \in Requests :
                 \/ RequestFindsRoom(c) \/ RequestFindsNoRoom(c)
                 \/ RequestEnqueues(c) \/ RequestFails(c)
      BY <1>1, <3>2, <3>3, <3>5 DEF RequestFindsRoom, RequestFindsNoRoom,
        RequestEnqueues, RequestFails, Answers
    <3>6. CASE ApiDies
      BY <1>1, <2>1, <3>6 DEF ApiDies
    <3>7. QED  BY <3>1, <3>4, <3>5, <3>6 DEF RequestStep
  <2>3. SubjectOf[r] \in Subjects
    BY AdmissionAssumption DEF Clients
  <2>4. QED
    BY <1>1, <2>2, <2>3, RefusedInWindow DEF RefuseRequest, Inv
<1>2. Inv /\ [Next]_vars =>
        [\A r \in Clients :
           answer[r] # "429" /\ answer'[r] = "429" => AtLimit(SubjectOf[r])]_vars
  BY <1>1
<1>3. QED
  BY <1>2, Invariance, PTL DEF Spec, RefusedAtLimit

=============================================================================
