------------------------------ MODULE FiniteSums ------------------------------
(***************************************************************************)
(* What MapThenSumSet of the community modules promises of a finite set.   *)
(* It adds up the elements in the order in which CHOOSE picks them: a sum  *)
(* exists, any element may be taken first, and two sets whose elements     *)
(* correspond and weigh the same have the same sum.  Each is shown for a   *)
(* smallest subset that would refute it.                                   *)
(***************************************************************************)
EXTENDS Integers, FiniteSets, FiniteSetTheorems, WellFoundedInduction, TLAPS

Some(s) == CHOOSE x \in s : TRUE

\* g is the sum of the weights f over each subset of S, one element after the other.
Sums(g, f, S) ==
  g = [s \in SUBSET S |->
         IF s = {} THEN 0 ELSE f[Some(s)] + g[s \ {Some(s)}]]

Weights(f, S) == \A x \in S : f[x] \in Int

\* Of sets of subsets of a finite set there is one that has no other within it.
LEMMA Smallest ==
  ASSUME NEW S, IsFiniteSet(S), NEW K \in SUBSET (SUBSET S), K # {}
  PROVE  \E T \in K : \A U \in K : U \subseteq T => U = T
  <1>1. K \subseteq FiniteSubsetsOf(S)
    BY FS_FiniteSubsetsOfFinite
  <1>2. PICK T \in K : \A U \in K : ~ (<<U, T>> \in StrictSubsetOrdering(S))
    BY <1>1, FS_StrictSubsetOrderingWellFounded, WFMin, Zenon
  <1>3. ASSUME NEW U \in K, U \subseteq T PROVE U = T
    BY <1>2, <1>3 DEF StrictSubsetOrdering
  <1> QED BY <1>3

LEMMA SomeIn == ASSUME NEW s, s # {} PROVE Some(s) \in s
  BY DEF Some

LEMMA SumStep ==
  ASSUME NEW S, NEW f, NEW g, Sums(g, f, S), NEW s \in SUBSET S
  PROVE  /\ s = {} => g[s] = 0
         /\ s # {} => /\ Some(s) \in s /\ s \ {Some(s)} \in SUBSET S
                      /\ s \ {Some(s)} # s
                      /\ g[s] = f[Some(s)] + g[s \ {Some(s)}]
  <1>1. g[s] = IF s = {} THEN 0 ELSE f[Some(s)] + g[s \ {Some(s)}]
    BY DEF Sums
  <1> QED BY <1>1, SomeIn

\* The sum over a set does not depend on the set it is a subset of.
LEMMA SumsAgree ==
  ASSUME NEW S, NEW T, NEW U, IsFiniteSet(U), U \subseteq S, U \subseteq T,
         NEW f, NEW g, NEW h, Sums(g, f, S), Sums(h, f, T)
  PROVE  g[U] = h[U]
  <1> DEFINE K == {V \in SUBSET U : g[V] # h[V]}
  <1>1. SUFFICES ASSUME K # {} PROVE FALSE
    OBVIOUS
  <1>2. K \in SUBSET (SUBSET U)
    OBVIOUS
  <1> HIDE DEF K
  <1>3. PICK V \in K : \A W \in K : W \subseteq V => W = V
    BY <1>1, <1>2, Smallest
  <1>4. V \in SUBSET S /\ V \in SUBSET T /\ V \in SUBSET U /\ g[V] # h[V]
    BY <1>3 DEF K
  <1>5. V # {}
    BY <1>4, SumStep
  <1> DEFINE W == V \ {Some(V)}
  <1>6. W \subseteq V /\ W # V /\ W \in SUBSET U
    BY <1>4, <1>5, SomeIn
  <1>7. g[W] = h[W]
    BY <1>3, <1>6 DEF K
  <1>8. g[V] = f[Some(V)] + g[W] /\ h[V] = f[Some(V)] + h[W]
    BY <1>4, <1>5, SumStep
  <1> QED BY <1>4, <1>7, <1>8

LEMMA SumsExist ==
  ASSUME NEW S, IsFiniteSet(S), NEW f
  PROVE  \E g : Sums(g, f, S)
  <1> DEFINE K == {T \in SUBSET S : ~ \E g : Sums(g, f, T)}
  <1>1. SUFFICES ASSUME K # {} PROVE FALSE
    OBVIOUS
  <1>2. K \in SUBSET (SUBSET S)
    OBVIOUS
  <1> HIDE DEF K
  <1>3. PICK T \in K : \A U \in K : U \subseteq T => U = T
    BY <1>1, <1>2, Smallest
  <1>4. T \in SUBSET S /\ ~ \E g : Sums(g, f, T)
    BY <1>3 DEF K
  <1>5. ASSUME NEW U, U \subseteq T, U # T PROVE \E g : Sums(g, f, U)
    BY <1>3, <1>4, <1>5 DEF K
  <1> DEFINE part(U) == CHOOSE g : Sums(g, f, U)
             whole == [s \in SUBSET T |->
                         IF s = {} THEN 0
                         ELSE f[Some(s)] + part(s \ {Some(s)})[s \ {Some(s)}]]
  <1>6. ASSUME NEW U, U \subseteq T, U # T PROVE Sums(part(U), f, U)
    BY <1>5, <1>6, Zenon
  <1> HIDE DEF part
  <1>7. ASSUME NEW U, U \subseteq T, U # T
        PROVE  whole[U] = part(U)[U]
    <2>1. Sums(part(U), f, U)
      BY <1>6, <1>7
    <2>2. CASE U = {}
      BY <2>1, <2>2, SumStep
    <2>3. CASE U # {}
      <3> DEFINE W == U \ {Some(U)}
      <3>1. /\ W \subseteq T /\ W # T /\ W \subseteq U /\ W \subseteq W
            /\ IsFiniteSet(W)
        BY <1>4, <1>7, <2>3, SomeIn, FS_Subset
      <3>2. part(U)[U] = f[Some(U)] + part(U)[W]
        BY <2>1, <2>3, SumStep
      <3>3. whole[U] = f[Some(U)] + part(W)[W]
        BY <1>7, <2>3
      <3>4. Sums(part(W), f, W)
        BY <1>6, <3>1
      <3>5. part(U)[W] = part(W)[W]
        BY <2>1, <3>1, <3>4, SumsAgree
      <3> QED BY <3>2, <3>3, <3>5
    <2> QED BY <2>2, <2>3
  <1>8. ASSUME NEW s \in SUBSET T
        PROVE  whole[s] = IF s = {} THEN 0
                          ELSE f[Some(s)] + whole[s \ {Some(s)}]
    <2>1. CASE s = {}
      BY <2>1
    <2>2. CASE s # {}
      <3>1. s \ {Some(s)} \subseteq T /\ s \ {Some(s)} # T
        BY <2>2, SomeIn
      <3>2. whole[s] = f[Some(s)] + part(s \ {Some(s)})[s \ {Some(s)}]
        BY <2>2
      <3> QED BY <1>7, <2>2, <3>1, <3>2
    <2> QED BY <2>1, <2>2
  <1>9. whole = [s \in SUBSET T |-> whole[s]]
    OBVIOUS
  <1> HIDE DEF whole
  <1>10. Sums(whole, f, T)
    BY <1>8, <1>9, Zenon DEF Sums
  <1> QED BY <1>4, <1>10

LEMMA SumsType ==
  ASSUME NEW S, IsFiniteSet(S), NEW f, NEW g, Sums(g, f, S), Weights(f, S),
         NEW T \in SUBSET S
  PROVE  g[T] \in Int
  <1> DEFINE K == {V \in SUBSET S : g[V] \notin Int}
  <1>1. SUFFICES ASSUME K # {} PROVE FALSE
    OBVIOUS
  <1>2. K \in SUBSET (SUBSET S)
    OBVIOUS
  <1> HIDE DEF K
  <1>3. PICK V \in K : \A W \in K : W \subseteq V => W = V
    BY <1>1, <1>2, Smallest
  <1>4. V \in SUBSET S /\ g[V] \notin Int
    BY <1>3 DEF K
  <1>5. V # {}
    <2>1. V = {} => g[V] = 0
      BY <1>4, SumStep, Zenon
    <2> QED BY <1>4, <2>1
  <1> DEFINE W == V \ {Some(V)}
  <1>6. W \subseteq V /\ W # V /\ W \in SUBSET S /\ Some(V) \in S
    BY <1>4, <1>5, SomeIn
  <1>7. g[W] \in Int
    BY <1>3, <1>6 DEF K
  <1>8. g[V] = f[Some(V)] + g[W]
    BY <1>4, <1>5, SumStep
  <1>9. f[Some(V)] \in Int
    BY <1>6 DEF Weights
  <1> QED BY <1>4, <1>7, <1>8, <1>9

\* Any element may be taken first.
LEMMA AnyFirst ==
  ASSUME NEW S, IsFiniteSet(S), NEW f, NEW g, Sums(g, f, S), Weights(f, S),
         NEW T \in SUBSET S, NEW x \in T
  PROVE  g[T] = f[x] + g[T \ {x}]
  <1> DEFINE K == {V \in SUBSET S : \E y \in V : g[V] # f[y] + g[V \ {y}]}
  <1>1. SUFFICES ASSUME K # {} PROVE FALSE
    OBVIOUS
  <1>2. K \in SUBSET (SUBSET S)
    OBVIOUS
  <1> HIDE DEF K
  <1>3. PICK V \in K : \A W \in K : W \subseteq V => W = V
    BY <1>1, <1>2, Smallest
  <1>4. V \in SUBSET S /\ V # {}
    BY <1>3 DEF K
  <1>5. PICK y \in V : g[V] # f[y] + g[V \ {y}]
    BY <1>3 DEF K
  <1> DEFINE c == Some(V)
  <1>6. c \in V /\ g[V] = f[c] + g[V \ {c}]
    BY <1>4, SumStep
  <1> HIDE DEF c
  <1>7. c # y
    BY <1>5, <1>6
  <1>8. ASSUME NEW W \in SUBSET V, W # V, NEW z \in W
        PROVE  g[W] = f[z] + g[W \ {z}]
    BY <1>3, <1>4, <1>8 DEF K
  <1>9. g[V \ {c}] = f[y] + g[(V \ {c}) \ {y}]
    BY <1>6, <1>7, <1>8
  <1>10. g[V \ {y}] = f[c] + g[(V \ {y}) \ {c}]
    BY <1>5, <1>6, <1>7, <1>8
  <1>11. (V \ {c}) \ {y} = (V \ {y}) \ {c} /\ (V \ {c}) \ {y} \in SUBSET S
    BY <1>4
  <1> DEFINE r == g[(V \ {c}) \ {y}]
  <1>12. f[c] \in Int /\ f[y] \in Int /\ r \in Int
    BY <1>4, <1>6, <1>11, SumsType DEF Weights
  <1>13. g[V] = f[c] + (f[y] + r) /\ g[V \ {y}] = f[c] + r
    BY <1>6, <1>9, <1>10, <1>11
  <1> QED BY <1>5, <1>12, <1>13

\* Sets whose elements correspond one to one and weigh the same have the same sum.
LEMMA SameSum ==
  ASSUME NEW S, IsFiniteSet(S), NEW f, NEW g, Sums(g, f, S), Weights(f, S),
         NEW R, IsFiniteSet(R), NEW e, NEW h, Sums(h, e, R), Weights(e, R),
         NEW b, \A x \in S : b[x] \in R /\ f[x] = e[b[x]],
         \A x, y \in S : b[x] = b[y] => x = y,
         \A z \in R : \E x \in S : b[x] = z
  PROVE  g[S] = h[R]
  <1> DEFINE image(V) == {b[x] : x \in V}
             K == {V \in SUBSET S : g[V] # h[image(V)]}
  <1>1. SUFFICES ASSUME K # {} PROVE FALSE
    <2>1. image(S) = R
      OBVIOUS
    <2> QED BY <2>1
  <1>2. K \in SUBSET (SUBSET S)
    OBVIOUS
  <1> HIDE DEF K
  <1>3. PICK V \in K : \A W \in K : W \subseteq V => W = V
    BY <1>1, <1>2, Smallest
  <1>4. V \in SUBSET S /\ g[V] # h[image(V)]
    BY <1>3 DEF K
  <1>5. V # {}
    <2>1. SUFFICES ASSUME V = {} PROVE FALSE
      OBVIOUS
    <2>2. image(V) = {} /\ {} \in SUBSET R
      BY <2>1
    <2>3. g[{}] = 0
      BY ONLY Sums(g, f, S), SumStep
    <2>4. h[{}] = 0
      BY ONLY Sums(h, e, R), SumStep
    <2> QED BY <1>4, <2>1, <2>2, <2>3, <2>4
  <1> DEFINE c == Some(V)
  <1>6. c \in V /\ c \in S /\ g[V] = f[c] + g[V \ {c}]
    BY <1>4, <1>5, SumStep
  <1> HIDE DEF c
  <1>7. image(V) \in SUBSET R /\ b[c] \in image(V)
    BY <1>4, <1>6
  <1>8. h[image(V)] = e[b[c]] + h[image(V) \ {b[c]}]
    <2>1. ASSUME NEW T \in SUBSET R, NEW z \in T PROVE h[T] = e[z] + h[T \ {z}]
      BY ONLY IsFiniteSet(R), Sums(h, e, R), Weights(e, R), T \in SUBSET R,
              z \in T, AnyFirst
    <2> HIDE DEF image
    <2> QED BY <1>7, <2>1
  <1>9. image(V) \ {b[c]} = image(V \ {c})
    BY <1>4, <1>6
  <1>10. g[V \ {c}] = h[image(V \ {c})]
    <2>1. V \ {c} \in SUBSET S /\ V \ {c} \subseteq V /\ V \ {c} # V
      BY <1>4, <1>6
    <2>2. V \ {c} \notin K
      BY <1>3, <2>1
    <2> QED BY <2>1, <2>2 DEF K
  <1> QED BY <1>4, <1>6, <1>8, <1>9, <1>10

\* A sum of weights from 0 to b lies between 0 and b for each element.
LEMMA SumBound ==
  ASSUME NEW S, IsFiniteSet(S), NEW f, NEW g, Sums(g, f, S),
         NEW b \in Nat, \A x \in S : f[x] \in 0 .. b, NEW T \in SUBSET S
  PROVE  g[T] \in Nat /\ g[T] <= b * Cardinality(T)
  <1> DEFINE Within(V) == g[V] \in Nat /\ g[V] <= b * Cardinality(V)
             K == {V \in SUBSET S : ~Within(V)}
  <1>1. SUFFICES ASSUME K # {} PROVE FALSE
    OBVIOUS
  <1>2. K \in SUBSET (SUBSET S)
    OBVIOUS
  <1> HIDE DEF K
  <1>3. PICK V \in K : \A W \in K : W \subseteq V => W = V
    BY <1>1, <1>2, Smallest
  <1>4. V \in SUBSET S /\ ~Within(V)
    BY <1>3 DEF K
  <1>5. V # {}
    <2>1. SUFFICES ASSUME V = {} PROVE FALSE
      OBVIOUS
    <2>2. g[{}] = 0
      BY ONLY Sums(g, f, S), SumStep
    <2>3. Cardinality({}) = 0
      BY FS_EmptySet
    <2> QED BY <1>4, <2>1, <2>2, <2>3
  <1> DEFINE c == Some(V)
             W == V \ {c}
  <1>6. c \in V /\ c \in S /\ g[V] = f[c] + g[W]
    <2>1. V \in SUBSET S /\ V # {}
      BY <1>4, <1>5
    <2>2. Some(V) \in V /\ g[V] = f[Some(V)] + g[V \ {Some(V)}]
      BY ONLY <2>1, Sums(g, f, S), SumStep
    <2> QED BY <2>1, <2>2
  <1> HIDE DEF c
  <1>7. g[W] \in Nat /\ g[W] <= b * Cardinality(W)
    <2>1. W \in SUBSET S /\ W \subseteq V /\ W # V
      BY <1>4, <1>6
    <2>2. W \notin K
      BY <1>3, <2>1
    <2> QED BY <2>1, <2>2 DEF K
  <1>8. /\ Cardinality(W) \in Nat
        /\ Cardinality(V) = Cardinality(W) + 1
    <2>1. IsFiniteSet(V) /\ IsFiniteSet(W)
      BY <1>4, FS_Subset
    <2>2. Cardinality(V) \in Nat /\ Cardinality(W) \in Nat
      BY <2>1, FS_CardinalityType
    <2>3. Cardinality(W) = Cardinality(V) - 1
      BY <1>6, <2>1, FS_RemoveElement
    <2> QED BY <2>2, <2>3
  <1>9. f[c] \in 0 .. b
    BY <1>6
  <1> DEFINE n == Cardinality(W)
  <1>10. n \in Nat /\ g[W] <= b * n /\ g[V] = f[c] + g[W] /\ Cardinality(V) = n + 1
    BY <1>6, <1>7, <1>8
  <1> HIDE DEF n
  <1>11. b * (n + 1) = b * n + b /\ b * n \in Nat
    BY <1>10
  <1> QED BY <1>4, <1>7, <1>9, <1>10, <1>11
=============================================================================
