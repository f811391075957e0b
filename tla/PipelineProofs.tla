---------------------------- MODULE PipelineProofs ----------------------------
(***************************************************************************)
(* What a report of the pipeline can be relied on for, for every set of    *)
(* streams, every topology and every detector and forecaster: that events  *)
(* are grouped as correlate_events() says, that the root cause dominates,  *)
(* and that alerts and incidents are credited to the labels as they should *)
(* be.                                                                     *)
(***************************************************************************)
EXTENDS Pipeline, NumberLemmas

Placed(events) == \A e \in events : e.entity \in DOMAIN NodeOf /\ e.at \in Int

(* Being close does not depend on which of two events is asked.             *)
LEMMA CloseIsSymmetric ==
    ASSUME NEW events, Placed(events), NEW e \in events, NEW f \in events
    PROVE  Close(e, f) <=> Close(f, e)
<1>1. e.at \in Int /\ f.at \in Int
  BY DEF Placed
<1>2. NodeOf[e.entity] \in Nodes \cup {None} /\ NodeOf[f.entity] \in Nodes \cup {None}
  BY NodeAssumption DEF Placed
<1>3. TopologicallyClose(NodeOf[e.entity], NodeOf[f.entity])
          <=> TopologicallyClose(NodeOf[f.entity], NodeOf[e.entity])
  BY <1>2, DistanceAssumption, Zenon DEF TopologicallyClose
<1> QED
  BY <1>1, <1>3 DEF Close

LEMMA ComponentHasItsEvent ==
    ASSUME NEW events, NEW e \in events
    PROVE  e \in Component(e, events) /\ Component(e, events) \subseteq events
BY DEF Component

(* What is outside of a component is outside of a separate group that holds *)
(* all of the component.                                                    *)
LEMMA ComponentIsSeparate ==
    ASSUME NEW events, NEW e \in events
    PROVE  Separate(Component(e, events), events)
<1> SUFFICES ASSUME NEW g \in Component(e, events),
                    NEW f \in events \ Component(e, events)
             PROVE  ~Close(g, f)
  BY Zenon DEF Separate
<1>1. PICK group \in SUBSET events : /\ e \in group
                                     /\ Separate(group, events)
                                     /\ f \notin group
  BY DEF Component
<1>2. g \in group
  BY <1>1 DEF Component
<1> QED
  BY <1>1, <1>2 DEF Separate

(* A component is the component of each of its events: were the first not   *)
(* in that of the second, the rest would be a smaller group for the first.  *)
LEMMA ComponentOfMember ==
    ASSUME NEW events, Placed(events), NEW e \in events, NEW f \in Component(e, events)
    PROVE  Component(f, events) = Component(e, events)
<1> DEFINE E == Component(e, events)
           F == Component(f, events)
<1>1. f \in events /\ E \in SUBSET events /\ f \in F /\ F \in SUBSET events
  BY ComponentHasItsEvent
<1>2. Separate(E, events) /\ Separate(F, events)
  BY <1>1, ComponentIsSeparate
<1>3. F \subseteq E
  BY <1>1, <1>2 DEF Component
<1>4. e \in F
  <2> SUFFICES ASSUME e \notin F PROVE FALSE
    OBVIOUS
  <2>1. Separate(E \ F, events)
    <3> SUFFICES ASSUME NEW a \in E \ F, NEW b \in events \ (E \ F)
                 PROVE  ~Close(a, b)
      BY Zenon DEF Separate
    <3>1. CASE b \notin E
      BY <3>1, <1>2 DEF Separate
    <3>2. CASE b \in F
      <4>1. ~Close(b, a)
        BY <3>2, <1>1, <1>2 DEF Separate
      <4> QED
        BY <4>1, <1>1, CloseIsSymmetric
    <3> QED
      BY <3>1, <3>2
  <2>2. e \in E \ F /\ E \ F \in SUBSET events
    BY <1>1, ComponentHasItsEvent
  <2>3. f \in E \ F
    BY <2>1, <2>2 DEF Component
  <2> QED
    BY <2>3, <1>1
<1>5. E \subseteq F
  BY <1>1, <1>2, <1>4 DEF Component
<1> QED
  BY <1>3, <1>5

(* correlate_events(): every event is in one incident group, events that    *)
(* are close share it, and no group is larger than what links its events.   *)
THEOREM GroupsAreIncidentGroups ==
    ASSUME NEW events, Placed(events)
    PROVE  AreIncidentGroups(Groups(events), events)
<1>1. UNION Groups(events) = events
  BY ComponentHasItsEvent DEF Groups
<1>2. ASSUME NEW g \in Groups(events), NEW h \in Groups(events) \ {g},
             NEW e \in g, NEW f \in h
      PROVE  e # f /\ ~Close(e, f)
  <2>1. g \in SUBSET events /\ h \in SUBSET events
    BY ComponentHasItsEvent DEF Groups
  <2>2. g = Component(e, events) /\ h = Component(f, events)
    BY ComponentOfMember DEF Groups
  <2>3. e # f /\ f \notin g
    BY <2>1, <2>2, ComponentOfMember
  <2>4. Separate(g, events)
    BY <2>1, <2>2, ComponentIsSeparate
  <2> QED
    BY <2>1, <2>3, <2>4 DEF Separate
<1>3. ASSUME NEW g \in Groups(events), NEW part \in (SUBSET g) \ {{}, g}
      PROVE  \E e \in part, f \in g \ part : Close(e, f)
  <2> SUFFICES ASSUME \A e \in part, f \in g \ part : ~Close(e, f)
               PROVE  FALSE
    OBVIOUS
  <2>1. PICK e \in part : TRUE
    OBVIOUS
  <2>2. g \in SUBSET events /\ g = Component(e, events)
    BY <2>1, ComponentHasItsEvent, ComponentOfMember DEF Groups
  <2>3. Separate(g, events)
    BY <2>1, <2>2, ComponentIsSeparate
  <2>4. Separate(part, events)
    <3> SUFFICES ASSUME NEW a \in part, NEW b \in events \ part
                 PROVE  ~Close(a, b)
      BY Zenon DEF Separate
    <3>1. a \in g
      OBVIOUS
    <3> QED
      BY <3>1, <2>3 DEF Separate
  <2>5. g \subseteq part
    BY <2>1, <2>2, <2>4 DEF Component
  <2> QED
    BY <2>5
<1> QED
  BY <1>1, <1>2, <1>3 DEF AreIncidentGroups
-------------------------------------------------------------------------------
(* A sum, as the steps that make it.                                        *)
Sums(sum, numbers) ==
    /\ sum \in [0..Len(numbers) -> Nat]
    /\ sum[0] = 0
    /\ \A k \in 1..Len(numbers) : sum[k] = sum[k - 1] + numbers[k]

LEMMA TotalIs ==
    ASSUME NEW numbers \in Seq(Nat)
    PROVE  \E sum : Sums(sum, numbers) /\ Total(numbers) = sum[Len(numbers)]
<1> DEFINE N == Len(numbers)
           step == [k \in 1..N |-> [s \in Nat |-> s + numbers[k]]]
           B == CHOOSE sum : sum = [n \in 0..N |-> IF n = 0 THEN 0 ELSE sum[n - 1] + numbers[n]]
<1>1. N \in Nat /\ \A k \in 1..N : numbers[k] \in Nat
    OBVIOUS
<1>2. step \in [1..N -> [Nat -> Nat]]
    BY <1>1
<1>3. PICK f \in [0..N -> Nat] : \A k \in 0..N : f[k] = IF k = 0 THEN 0 ELSE step[k][f[k - 1]]
    <2> HIDE DEF step, N
    <2>1. \E f \in [0..N -> Nat] : Folds(f, N, 0, step)
        BY <1>1, <1>2, Folding
    <2> QED BY <2>1 DEF Folds
<1>4. f = [k \in 0..N |-> IF k = 0 THEN 0 ELSE f[k - 1] + numbers[k]]
    <2>1. ASSUME NEW k \in 0..N
          PROVE f[k] = IF k = 0 THEN 0 ELSE f[k - 1] + numbers[k]
        <3>1. k # 0 => k - 1 \in 0..N /\ k \in 1..N
            BY <1>1
        <3> QED BY <1>3, <3>1
    <2> HIDE DEF N, step
    <2> QED BY <2>1, <1>3
<1>5. B = [k \in 0..N |-> IF k = 0 THEN 0 ELSE B[k - 1] + numbers[k]]
    BY <1>4, Zenon
<1>6. Total(numbers) = B[N]
    BY Zenon DEF Total
<1> HIDE DEF B
<1>7. B[0] = 0 /\ \A k \in 1..N : B[k] = B[k - 1] + numbers[k]
    <2>1. 0 \in 0..N /\ \A k \in 1..N : k \in 0..N /\ k # 0
        BY <1>1
    <2> QED BY <1>5, <2>1
<1>8. \A k \in 0..N : B[k] \in Nat
    <2> DEFINE T == {k \in 0..N : B[k] \in Nat}
    <2>1. 0 \in T
        BY <1>1, <1>7
    <2>2. ASSUME NEW k \in 0..N, k \in T, k < N PROVE k + 1 \in T
        <3>1. k + 1 \in 1..N /\ k + 1 \in 0..N /\ (k + 1) - 1 = k
            BY <1>1, <2>2
        <3>2. B[k + 1] = B[k] + numbers[k + 1]
            BY <1>7, <3>1
        <3> QED BY <1>1, <2>2, <3>1, <3>2
    <2> HIDE DEF T, N
    <2>3. \A k \in 0..N : k \in T
        BY <1>1, <2>1, <2>2, Climb
    <2> QED BY <2>3 DEF T
<1>9. B \in [0..N -> Nat]
    <2> HIDE DEF N
    <2> QED BY <1>5, <1>8
<1> QED BY <1>6, <1>7, <1>9 DEF Sums

LEMMA MultiplesAdd ==
    ASSUME NEW u \in Nat, NEW v \in Nat, NEW x \in Nat, NEW y \in Nat, NEW top \in Nat,
           u <= top * x, v <= top * y
    PROVE  u + v <= top * (x + y)
<1> DEFINE p == top * x
           q == top * y
<1>1. p \in Nat /\ q \in Nat /\ top * (x + y) = p + q
    OBVIOUS
<1> HIDE DEF p, q
<1>2. u <= p /\ v <= q
    BY DEF p, q
<1> QED BY <1>1, <1>2

(* A sum of multiples of the terms of another is at most as large a         *)
(* multiple of it as the largest.                                           *)
LEMMA TotalOfProducts ==
    ASSUME NEW a \in Seq(Nat), NEW b \in Seq(Nat), Len(a) = Len(b), NEW top \in Nat,
           \A k \in 1..Len(b) : a[k] <= top * b[k]
    PROVE  /\ Total(a) \in Nat
           /\ Total(b) \in Nat
           /\ Total(a) <= top * Total(b)
<1> DEFINE N == Len(b)
<1>1. PICK f : Sums(f, a) /\ Total(a) = f[N]
    BY TotalIs
<1>2. PICK g : Sums(g, b) /\ Total(b) = g[N]
    BY TotalIs
<1>3. /\ f \in [0..N -> Nat] /\ f[0] = 0 /\ \A k \in 1..N : f[k] = f[k - 1] + a[k]
      /\ g \in [0..N -> Nat] /\ g[0] = 0 /\ \A k \in 1..N : g[k] = g[k - 1] + b[k]
    BY <1>1, <1>2, Zenon DEF Sums
<1>4. N \in Nat /\ \A k \in 1..N : a[k] \in Nat /\ b[k] \in Nat
    OBVIOUS
<1> DEFINE T == {k \in 0..N : f[k] <= top * g[k]}
<1>5. 0 \in T
    BY <1>3, <1>4
<1>6. ASSUME NEW k \in 0..N, k \in T, k < N PROVE k + 1 \in T
    <2>1. k + 1 \in 1..N /\ k + 1 \in 0..N /\ (k + 1) - 1 = k
        BY <1>4, <1>6
    <2>2. f[k + 1] = f[k] + a[k + 1] /\ g[k + 1] = g[k] + b[k + 1]
        BY <1>3, <2>1
    <2>3. f[k] \in Nat /\ g[k] \in Nat /\ a[k + 1] \in Nat /\ b[k + 1] \in Nat
        BY <1>3, <1>4, <2>1
    <2>4. f[k] <= top * g[k] /\ a[k + 1] <= top * b[k + 1]
        BY <1>6, <2>1
    <2>6. f[k] + a[k + 1] <= top * (g[k] + b[k + 1])
        BY <2>3, <2>4, MultiplesAdd
    <2> QED BY <2>1, <2>2, <2>6
<1>7. \A k \in 0..N : k \in T
    <2> HIDE DEF T, N
    <2> QED BY <1>4, <1>5, <1>6, Climb
<1>8. N \in T /\ N \in 0..N
    BY <1>4, <1>7
<1> QED BY <1>1, <1>2, <1>3, <1>8

(* A sum has at least the last of its terms.                                *)
LEMMA TotalIsPositive ==
    ASSUME NEW b \in Seq(Nat), Len(b) > 0, \A k \in 1..Len(b) : b[k] > 0
    PROVE  Total(b) \in Nat /\ Total(b) > 0
<1> DEFINE N == Len(b)
<1>1. PICK g : Sums(g, b) /\ Total(b) = g[N]
    BY TotalIs
<1>2. g \in [0..N -> Nat] /\ \A k \in 1..N : g[k] = g[k - 1] + b[k]
    BY <1>1, Zenon DEF Sums
<1>3. N \in 1..N /\ N - 1 \in 0..N /\ N \in 0..N
    OBVIOUS
<1>4. b[N] \in Nat /\ b[N] > 0
    BY <1>3
<1>5. g[N] = g[N - 1] + b[N] /\ g[N - 1] \in Nat
    <2> HIDE DEF N
    <2> QED BY <1>2, <1>3
<1> QED BY <1>1, <1>4, <1>5

LEMMA ElementIs ==
    ASSUME NEW S, NEW s \in Seq(S), NEW i \in DOMAIN s
    PROVE  s[i] \in S
OBVIOUS
-------------------------------------------------------------------------------
LEMMA ScoringIs ==
    ASSUME NEW scores, IsScoring(scores)
    PROVE  /\ Len(scores) \in Nat /\ DOMAIN scores = 1..Len(scores)
           /\ IsFiniteSet(DOMAIN scores)
           /\ \A i \in DOMAIN scores : /\ scores[i].method \in Methods
                                       /\ scores[i].score \in Nat
                                       /\ FamilyOf[scores[i].method] \in Families
<1>1. scores \in Seq([method : Methods, score : Nat])
    BY DEF IsScoring
<1>2. Len(scores) \in Nat /\ DOMAIN scores = 1..Len(scores)
    BY <1>1
<1>3. \A i \in DOMAIN scores : scores[i] \in [method : Methods, score : Nat]
    BY <1>1, ElementIs
<1>4. \A i \in DOMAIN scores : scores[i].method \in Methods /\ scores[i].score \in Nat
    BY <1>3
<1>5. IsFiniteSet(1..Len(scores))
    <2>1. 1 \in Int /\ Len(scores) \in Int
        BY <1>2
    <2> QED BY <2>1, FS_Interval
<1> QED BY <1>2, <1>4, <1>5 DEF Families

(* The top score is one of the scores, if there are any.                    *)
LEMMA TopScoreIs ==
    ASSUME NEW scores, IsScoring(scores)
    PROVE  /\ TopScore(scores) \in Nat
           /\ \A i \in DOMAIN scores : scores[i].score <= TopScore(scores)
<1> DEFINE f == [i \in DOMAIN scores |-> scores[i].score]
           T == {f[i] : i \in DOMAIN scores}
<1>1. T = {scores[i].score : i \in DOMAIN scores}
    OBVIOUS
<1>2. IsFiniteSet(T)
    <2>1. IsFiniteSet(DOMAIN scores) /\ DOMAIN f = DOMAIN scores
        BY ScoringIs
    <2> HIDE DEF f
    <2> QED BY <2>1, ImageIsFinite
<1>3. T \subseteq Nat
    BY <1>1, ScoringIs
<1> DEFINE S == {0} \cup T
<1>4. IsFiniteSet(S)
    <2> HIDE DEF T
    <2>1. IsFiniteSet({0})
        BY FS_Singleton
    <2> QED BY <1>2, <2>1, FS_Union
<1>5. S \in SUBSET Int /\ S # {} /\ S \subseteq Nat
    BY <1>3
<1>6. Max(S) \in S /\ \A y \in S : y <= Max(S)
    <2> HIDE DEF S
    <2> QED BY <1>4, <1>5, FiniteMax
<1>7. TopScore(scores) = Max(S)
    BY <1>1, Zenon DEF TopScore
<1> QED BY <1>1, <1>5, <1>6, <1>7

(* A detector's share of its family's prior never vanishes.                 *)
LEMMA WeightIs ==
    ASSUME NEW scores, IsScoring(scores), NEW i \in DOMAIN scores
    PROVE  Weight(i, scores) \in Nat /\ Weight(i, scores) > 0
<1> DEFINE f == FamilyOf[scores[i].method]
           M == Members(f, scores)
           Q == {m \in Methods : FamilyOf[m] = f}
           g == [j \in M |-> scores[j].method]
<1>1. f \in Families
    BY ScoringIs
<1>2. Prior[f] \in Nat \ {0} /\ IsFiniteSet(Q) /\ Cardinality(Q) <= 4
    <2>1. IsFiniteSet(Methods)
        BY FamilyAssumption
    <2>2. IsFiniteSet(Q)
        BY <2>1, FS_Subset
    <2> QED BY <1>1, <2>2, FamilyAssumption
<1>3. g \in Injection(M, Q)
    <2>1. \A j \in M : j \in DOMAIN scores /\ scores[j].method \in Q
        BY ScoringIs DEF Members
    <2>2. \A j, k \in M : scores[j].method = scores[k].method => j = k
        BY <2>1 DEF IsScoring
    <2> QED BY <2>1, <2>2 DEF Injection, IsInjective
<1>4. IsFiniteSet(M) /\ Cardinality(M) <= Cardinality(Q)
    <2> HIDE DEF M, Q, g
    <2> QED BY <1>2, <1>3, FS_Injection
<1>5. i \in M
    BY DEF Members
<1>6. Cardinality(M) \in Nat /\ Cardinality(M) # 0 /\ Cardinality(Q) \in Nat
    <2> HIDE DEF M, Q
    <2> QED BY <1>2, <1>4, <1>5, FS_CardinalityType, FS_EmptySet
<1> DEFINE c == Cardinality(M)
<1>7. c = 1 \/ c = 2 \/ c = 3 \/ c = 4
    <2> HIDE DEF M, Q
    <2> QED BY <1>2, <1>4, <1>6
<1>8. 12 \div c \in Nat /\ 12 \div c > 0
    <2> HIDE DEF c
    <2> QED BY <1>7
<1> DEFINE p == Prior[f]
           q == 12 \div c
           r == IF Extreme(i, scores) THEN 3 ELSE 2
<1>9. Weight(i, scores) = p * q * r
    BY Zenon DEF Weight
<1>10. p \in Nat /\ p > 0 /\ q \in Nat /\ q > 0 /\ r \in Nat /\ r > 0
    <2> HIDE DEF f, c
    <2> QED BY <1>2, <1>8
<1> HIDE DEF p, q, r
<1> DEFINE v == p * q
<1>11. v \in Nat /\ v > 0
    BY <1>10
<1>12. v * r \in Nat /\ v * r > 0
    <2> HIDE DEF v
    <2> QED BY <1>10, <1>11
<1> QED BY <1>9, <1>12

(* The level of the scores is no higher than the highest.                   *)
LEMMA LevelRange ==
    ASSUME NEW scores, IsScoring(scores), scores # <<>>
    PROVE  Level(scores) \in Nat /\ Level(scores) <= TopScore(scores)
<1> DEFINE N == Len(scores)
           a == [i \in 1..N |-> Weight(i, scores) * scores[i].score]
           b == [i \in 1..N |-> Weight(i, scores)]
           top == TopScore(scores)
<1>1. N \in Nat /\ N > 0 /\ DOMAIN scores = 1..N
    <2>1. scores \in Seq([method : Methods, score : Nat])
        BY DEF IsScoring
    <2> QED BY <2>1
<1>2. \A i \in 1..N : Weight(i, scores) \in Nat /\ Weight(i, scores) > 0
    BY <1>1, WeightIs
<1>3. \A i \in 1..N : scores[i].score \in Nat /\ scores[i].score <= top
    BY <1>1, ScoringIs, TopScoreIs
<1>4. top \in Nat
    BY TopScoreIs
<1>5. ASSUME NEW i \in 1..N PROVE a[i] \in Nat /\ a[i] <= top * b[i]
    <2> DEFINE w == Weight(i, scores)
               x == scores[i].score
    <2>1. w \in Nat /\ x \in Nat /\ x <= top
        BY <1>2, <1>3
    <2>2. a[i] = w * x /\ b[i] = w
        OBVIOUS
    <2> HIDE DEF w, x, a, b, top
    <2>3. x * w \in Nat /\ x * w <= top * w /\ w * x = x * w
        BY <1>4, <2>1, ProductGrows
    <2> QED BY <2>2, <2>3
<1>6. a \in Seq(Nat) /\ b \in Seq(Nat) /\ Len(a) = N /\ Len(b) = N
    <2>1. a \in [1..N -> Nat] /\ b \in [1..N -> Nat]
        BY <1>2, <1>5
    <2> HIDE DEF a, b, N
    <2> QED BY <1>1, <2>1
<1>7. \A i \in 1..N : b[i] > 0
    BY <1>2
<1>8. Level(scores) = Total(a) \div Total(b)
    BY Zenon DEF Level
<1> HIDE DEF a, b, N, top
<1>9. Total(a) \in Nat /\ Total(b) \in Nat /\ Total(a) <= top * Total(b)
    <2>1. \A k \in 1..Len(b) : a[k] <= top * b[k]
        BY <1>5, <1>6
    <2> QED BY <1>4, <1>6, <2>1, TotalOfProducts
<1>10. Total(b) > 0
    <2>1. Len(b) > 0 /\ \A k \in 1..Len(b) : b[k] > 0
        BY <1>1, <1>6, <1>7
    <2> QED BY <1>6, <2>1, TotalIsPositive
<1> DEFINE x == Total(a)
           k == Total(b)
<1>11. x \in Int /\ k \in Nat \ {0} /\ k * 0 <= x /\ x <= k * top /\ top \in Int
    <2>1. x \in Nat /\ k \in Nat /\ x <= top * k /\ k > 0
        BY <1>9, <1>10
    <2> HIDE DEF x, k
    <2> QED BY <2>1, <1>4
<1>12. x \div k \in 0..top
    <2> HIDE DEF x, k
    <2> QED BY <1>11, QuotientBetween
<1> QED BY <1>4, <1>8, <1>12 DEF top
-------------------------------------------------------------------------------
AtMostOne(set) == set = {} \/ \E x : set = {x}

LEMMA AtMostOneIs ==
    ASSUME NEW set, AtMostOne(set)
    PROVE  IsFiniteSet(set) /\ Cardinality(set) \in 0..1
<1>1. CASE set = {}
    BY <1>1, FS_EmptySet
<1>2. CASE \E x : set = {x}
    BY <1>2, FS_Singleton
<1> QED BY <1>1, <1>2 DEF AtMostOne

LEMMA FamiliesAre == IsFiniteSet(Families) /\ Cardinality(Families) \in Nat
<1>1. Families = {FamilyOf[m] : m \in Methods}
    BY DEF Families
<1>2. IsFiniteSet(Methods) /\ DOMAIN FamilyOf = Methods
    BY FamilyAssumption
<1>3. IsFiniteSet(Families)
    BY <1>1, <1>2, ImageIsFinite
<1> QED BY <1>3, FS_CardinalityType

(* There are as many voices as families have scored, and one for the        *)
(* forecast and the drift, if there are any.                                *)
LEMMA VoicesAre ==
    ASSUME NEW scores, IsScoring(scores), scores # <<>>,
           NEW last, NEW forecast, AtMostOne(forecast)
    PROVE  /\ IsFiniteSet(Voices(scores, last, forecast))
           /\ Voices(scores, last, forecast) # {}
           /\ Cardinality(Voices(scores, last, forecast)) <= Cardinality(Families) + 2
<1> DEFINE F == FamiliesOf(scores)
           g == [f \in F |-> <<f, Max({scores[i].score : i \in Members(f, scores)})>>]
           A == FamilyVoices(scores)
           B == DriftVoice(last)
           C == ForecastVoice(forecast)
<1>1. F \subseteq Families /\ F # {}
    <2>1. 1 \in DOMAIN scores
        <3>1. scores \in Seq([method : Methods, score : Nat])
            BY DEF IsScoring
        <3> QED BY <3>1
    <2> QED BY <2>1, ScoringIs DEF FamiliesOf
<1>2. IsFiniteSet(F) /\ Cardinality(F) <= Cardinality(Families) /\ Cardinality(F) \in Nat
    <2> HIDE DEF F
    <2>1. IsFiniteSet(F) /\ Cardinality(F) <= Cardinality(Families)
        BY <1>1, FamiliesAre, FS_Subset
    <2> QED BY <2>1, FS_CardinalityType
<1>3. A = {g[f] : f \in F}
    <2>1. A = {<<f, Max({scores[i].score : i \in Members(f, scores)})>> : f \in F}
        BY Zenon DEF FamilyVoices
    <2>2. \A f \in F : g[f] = <<f, Max({scores[i].score : i \in Members(f, scores)})>>
        BY Zenon
    <2> HIDE DEF g, F
    <2> QED BY <2>1, <2>2
<1>4. IsFiniteSet(A) /\ Cardinality(A) <= Cardinality(F) /\ A # {}
    <2>1. DOMAIN g = F
        OBVIOUS
    <2> HIDE DEF F, g, A
    <2>2. A # {}
        BY <1>1, <1>3
    <2> QED BY <1>2, <1>3, <2>1, <2>2, ImageIsFinite
<1>5. AtMostOne(B)
    BY DEF AtMostOne, DriftVoice
<1>6. AtMostOne(C)
    <2>1. CASE forecast = {}
        BY <2>1 DEF AtMostOne, ForecastVoice
    <2>2. ASSUME NEW x, forecast = {x} PROVE AtMostOne(C)
        <3>1. C = {<<"forecast agreement", x>>}
            BY <2>2 DEF ForecastVoice
        <3> HIDE DEF C
        <3> QED BY <3>1 DEF AtMostOne
    <2> QED BY <2>1, <2>2 DEF AtMostOne
<1> HIDE DEF A, B, C, F, g
<1>7. /\ IsFiniteSet(B) /\ Cardinality(B) \in Nat /\ Cardinality(B) <= 1
      /\ IsFiniteSet(C) /\ Cardinality(C) \in Nat /\ Cardinality(C) <= 1
    BY <1>5, <1>6, AtMostOneIs
<1>8. Cardinality(A) \in Nat
    BY <1>4, FS_CardinalityType
<1>9. /\ IsFiniteSet(A \cup B)
      /\ Cardinality(A \cup B) = Cardinality(A) + Cardinality(B) - Cardinality(A \cap B)
    BY <1>4, <1>7, FS_Union
<1>10. /\ IsFiniteSet((A \cup B) \cup C)
       /\ Cardinality((A \cup B) \cup C)
             = Cardinality(A \cup B) + Cardinality(C) - Cardinality((A \cup B) \cap C)
    BY <1>7, <1>9, FS_Union
<1>11. /\ Cardinality(A \cap B) \in Nat
       /\ Cardinality((A \cup B) \cap C) \in Nat
    <2>1. IsFiniteSet(A \cap B) /\ IsFiniteSet((A \cup B) \cap C)
        BY <1>4, <1>9, FS_Subset
    <2> QED BY <2>1, FS_CardinalityType
<1>12. Cardinality((A \cup B) \cup C) <= Cardinality(Families) + 2
    <2>1. Cardinality(Families) \in Nat
        BY FamiliesAre
    <2> QED BY <2>1, <1>2, <1>4, <1>7, <1>8, <1>9, <1>10, <1>11
<1>13. Voices(scores, last, forecast) = (A \cup B) \cup C
    BY Zenon DEF Voices, A, B, C
<1> QED BY <1>4, <1>10, <1>12, <1>13

(* Agreement is a share.                                                    *)
LEMMA AgreementRange ==
    ASSUME NEW voices, IsFiniteSet(voices), voices # {},
           Cardinality(voices) <= Cardinality(Families) + 2
    PROVE  Agreement(voices) \in Nat /\ Agreement(voices) <= 1000
<1> DEFINE raised == {v \in voices : v[2] >= Elevated}
           r == Cardinality(raised)
           c == Cardinality(voices)
           b == Breadth(r)
<1>1. IsFiniteSet(raised) /\ r <= c
    BY FS_Subset
<1>2. r \in Nat /\ c \in Nat /\ c # 0
    <2> HIDE DEF raised
    <2> QED BY <1>1, FS_CardinalityType, FS_EmptySet
<1>3. b \in Nat /\ b <= 1000
    <2>1. Cardinality(Families) \in Nat
        BY FamiliesAre
    <2> HIDE DEF raised
    <2>2. r \in 0..(Cardinality(Families) + 2)
        BY <1>1, <1>2, <2>1
    <2> HIDE DEF r
    <2> QED BY <2>2, BreadthAssumption
<1>4. Agreement(voices) = (r * b) \div c
    BY Zenon DEF Agreement
<1> HIDE DEF r, c, b, raised
<1>5. r * b \in Nat /\ r * b <= c * 1000
    BY <1>1, <1>2, <1>3, ProductGrows
<1> DEFINE x == r * b
<1>6. x \div c \in 0..1000
    <2>1. x \in Int /\ c \in Nat \ {0} /\ 0 \in Int /\ 1000 \in Int /\ c * 0 <= x /\ x <= c * 1000
        BY <1>2, <1>5
    <2> HIDE DEF x
    <2> QED BY <2>1, QuotientBetween
<1>7. x \div c \in Nat /\ x \div c <= 1000
    <2> HIDE DEF x
    <2> QED BY <1>6
<1> QED BY <1>4, <1>7

(* FusedRisk.risk_score is no higher than the highest of the scores it is   *)
(* made of, whatever corroborates them.                                     *)
LEMMA RiskRange ==
    ASSUME NEW scores, IsScoring(scores), NEW last, NEW forecast, AtMostOne(forecast)
    PROVE  /\ Risk(scores, last, forecast) \in Nat
           /\ Risk(scores, last, forecast) <= TopScore(scores)
<1>1. CASE scores = <<>>
    BY <1>1, TopScoreIs DEF Risk
<1>2. CASE scores # <<>>
    <2> DEFINE L == Level(scores)
               A == Agreement(Voices(scores, last, forecast))
    <2>1. L \in Nat /\ L <= TopScore(scores)
        BY <1>2, LevelRange
    <2>2. A \in Nat /\ A <= 1000
        BY <1>2, VoicesAre, AgreementRange
    <2>3. Risk(scores, last, forecast) = (L * (1000 + A)) \div 2000
        BY <1>2, SMT DEF Risk
    <2> HIDE DEF L, A
    <2> DEFINE x == L * (1000 + A)
    <2>4. x \in Nat /\ x <= L * 2000
        BY <2>1, <2>2, ProductGrows
    <2>5. x \div 2000 \in 0..L
        <3>1. /\ x \in Int /\ 2000 \in Nat \ {0} /\ 0 \in Int /\ L \in Int
              /\ 2000 * 0 <= x /\ x <= 2000 * L
            BY <2>1, <2>4
        <3> HIDE DEF x
        <3> QED BY <3>1, QuotientBetween
    <2>6. x \div 2000 \in Nat /\ x \div 2000 <= L
        <3> HIDE DEF x
        <3> QED BY <2>1, <2>5
    <2> QED BY <2>1, <2>3, <2>6, TopScoreIs
<1> QED BY <1>1, <1>2
-------------------------------------------------------------------------------
(* What the streams' state is made of.                                      *)
SampleValues == {x.value : x \in Samples}

Histories == {h \in Seq(SampleValues) : Len(h) <= HistoryLen}

Scorings == {scores \in Seq([method : Methods, score : Nat]) : IsScoring(scores)}

Snapshot == [value : Nat, scores : Scorings, history : Histories, at : Nat]

Point == [at : Nat, risk : Nat, issue : {IssueOf[s] : s \in Streams} \cup {NoIssue}]

Entry == [entity : Entities, stream : {None}, record : Nat]
            \cup [entity : Entities, stream : Streams, value : SampleValues, scores : Scorings,
                  at : Nat, fired : Nat, record : Nat]

State == [tracked : Seq(Streams), values : [Streams -> Histories], peak : [Streams -> Snapshot],
          drift : [Entities -> Nat], timeline : [Entities -> Seq(Point)], log : Seq(Entry)]

(* The ticks of an entity that belong on its timeline, and what they are    *)
(* there.                                                                   *)
Lit(entries, e) == {l \in entries : /\ l.stream # None
                                    /\ l.entity = e
                                    /\ TopScore(l.scores) >= TimelineFloor}

PointsOf(entries) == {RiskPoint(l, l.fired, l.at) : l \in entries}

StateInv(st) ==
    /\ st \in State
    /\ \A s \in Streams : st.peak[s].value > 0 => st.values[s] # <<>>
    /\ \A e \in Entities : ToSet(st.timeline[e]) = PointsOf(Lit(ToSet(st.log), e))

LEMMA LimitsAre ==
    /\ HistoryLen \in Nat /\ HistoryLen > 0
    /\ TimelineFloor \in Nat /\ TimelineFloor > 0
    /\ BatchTop \in Nat
    /\ Gaps \subseteq Nat
BY LimitAssumption

LEMMA ToSetAppend ==
    ASSUME NEW S, NEW s \in Seq(S), NEW x \in S
    PROVE  Append(s, x) \in Seq(S) /\ ToSet(Append(s, x)) = ToSet(s) \cup {x}
<1> DEFINE t == Append(s, x)
           n == Len(s)
<1>1. /\ t \in Seq(S) /\ n \in Nat /\ DOMAIN s = 1..n /\ DOMAIN t = 1..(n + 1)
      /\ t[n + 1] = x /\ \A i \in 1..n : t[i] = s[i]
    OBVIOUS
<1> HIDE DEF t, n
<1>2. 1..(n + 1) = (1..n) \cup {n + 1}
    BY <1>1
<1>3. ToSet(t) = {t[i] : i \in 1..n} \cup {t[n + 1]}
    BY <1>1, <1>2 DEF ToSet
<1>4. {t[i] : i \in 1..n} = {s[i] : i \in 1..n}
    BY <1>1
<1> QED BY <1>1, <1>3, <1>4 DEF ToSet, t

LEMMA PushIs ==
    ASSUME NEW h \in Histories, NEW v \in SampleValues
    PROVE  Push(h, v) \in Histories /\ Push(h, v) # <<>>
<1> DEFINE t == Append(h, v)
<1>1. h \in Seq(SampleValues) /\ Len(h) \in Nat /\ Len(h) <= HistoryLen
    BY DEF Histories
<1>2. t \in Seq(SampleValues) /\ Len(t) = Len(h) + 1
    BY <1>1
<1>3. CASE Len(t) > HistoryLen
    <2>1. Push(h, v) = Tail(t)
        BY <1>3 DEF Push
    <2> HIDE DEF t
    <2>2. t # <<>>
        BY <1>1, <1>2
    <2>3. Tail(t) \in Seq(SampleValues) /\ Len(Tail(t)) = Len(t) - 1
        BY <1>2, <2>2
    <2>4. Len(Tail(t)) <= HistoryLen /\ Len(Tail(t)) > 0
        BY <1>1, <1>2, <1>3, <2>3, LimitsAre
    <2>5. Tail(t) # <<>>
        BY <2>3, <2>4
    <2> QED BY <2>1, <2>3, <2>4, <2>5 DEF Histories
<1>4. CASE ~(Len(t) > HistoryLen)
    <2>1. Push(h, v) = t
        BY <1>4 DEF Push
    <2> HIDE DEF t
    <2>2. Len(t) <= HistoryLen /\ t # <<>>
        BY <1>1, <1>2, <1>4, LimitsAre
    <2> QED BY <2>1, <2>2, <1>2 DEF Histories
<1> QED BY <1>3, <1>4

(* A sample of a record, and one of a precursor metric.                     *)
IsSample(x) == /\ x.entity \in Entities
               /\ x.drift \in Nat
               /\ x.stream # None => /\ x.stream \in Streams
                                     /\ EntityOf[x.stream] = x.entity
                                     /\ x.value \in SampleValues
                                     /\ x.scores \in Scorings

LEMMA RecordIs ==
    ASSUME NEW record \in Records
    PROVE  /\ Len(record) \in Nat /\ DOMAIN record = 1..Len(record)
           /\ \A i \in DOMAIN record : IsSample(record[i])
<1>1. record \in Seq(ToSet(record))
    BY RecordAssumption
<1>2. Len(record) \in Nat /\ DOMAIN record = 1..Len(record)
    BY <1>1
<1>3. ASSUME NEW i \in DOMAIN record PROVE IsSample(record[i])
    <2> DEFINE x == record[i]
    <2>1. x \in ToSet(record)
        BY DEF ToSet
    <2> HIDE DEF x
    <2>2. /\ x.entity \in Entities
          /\ x.drift \in Nat
          /\ x.stream # None => /\ x.stream \in Streams
                                /\ EntityOf[x.stream] = x.entity
                                /\ IsScoring(x.scores)
        BY <2>1, RecordAssumption
    <2>3. x.stream # None => x.value \in SampleValues
        BY <2>1 DEF SampleValues, Samples
    <2>4. IsScoring(x.scores) => x.scores \in Scorings
        BY DEF IsScoring, Scorings
    <2> QED BY <2>2, <2>3, <2>4 DEF IsSample, x
<1> QED BY <1>2, <1>3

LEMMA DriftAfterIs ==
    ASSUME NEW last \in [Entities -> Nat], NEW x, IsSample(x)
    PROVE  /\ DriftAfter(last, x) \in [Entities -> Nat]
           /\ DriftAfter(last, x)[x.entity] \in Nat
BY DEF DriftAfter, IsSample

LEMMA PeakAfterIs ==
    ASSUME NEW last \in Snapshot, NEW x, IsSample(x), x.stream # None,
           NEW h \in Histories, NEW at \in Nat
    PROVE  PeakAfter(last, x, h, at) \in Snapshot
<1>1. x.scores \in Scorings
    BY DEF IsSample
<1>2. TopScore(x.scores) \in Nat
    BY <1>1, TopScoreIs DEF Scorings
<1>3. [value |-> TopScore(x.scores), scores |-> x.scores, history |-> h, at |-> at] \in Snapshot
    BY <1>1, <1>2 DEF Snapshot
<1> QED BY <1>3 DEF PeakAfter

LEMMA RiskPointIs ==
    ASSUME NEW x, IsSample(x), x.stream # None, NEW fired \in Nat, NEW at \in Nat
    PROVE  RiskPoint(x, fired, at) \in Point
<1> DEFINE risk == Risk(x.scores, fired, {})
<1>1. risk \in Nat
    <2>1. AtMostOne({})
        BY DEF AtMostOne
    <2>2. IsScoring(x.scores)
        BY DEF IsSample, Scorings
    <2> QED BY <2>1, <2>2, RiskRange
<1>2. RiskPoint(x, fired, at)
         = [at |-> at, risk |-> risk, issue |-> IF risk > 0 THEN IssueOf[x.stream] ELSE NoIssue]
    BY DEF RiskPoint
<1>3. x.stream \in Streams
    BY DEF IsSample
<1> HIDE DEF risk
<1> QED BY <1>1, <1>2, <1>3 DEF Point

LEMMA PointsGrow ==
    ASSUME NEW entries, NEW l
    PROVE  PointsOf(entries \cup {l}) = PointsOf(entries) \cup {RiskPoint(l, l.fired, l.at)}
BY DEF PointsOf

(* A sample whose metric is no precursor, or whose stream has no room.      *)
LEMMA UntrackedInv ==
    ASSUME NEW st, StateInv(st), NEW x, IsSample(x),
           NEW at \in Nat, seen \in Nat, x.stream = None \/ ~HasRoom(st.tracked, x.stream)
    PROVE  StateInv(Sampled(st, x, at))
<1> DEFINE l == [entity |-> x.entity, stream |-> None, record |-> seen + 1]
           t == [st EXCEPT !.drift = DriftAfter(st.drift, x), !.log = Append(@, l)]
<1>1. Sampled(st, x, at) = t
    BY Zenon DEF Sampled
<1>2. st \in State
    BY DEF StateInv
<1>3. /\ st.log \in Seq(Entry) /\ st.drift \in [Entities -> Nat]
      /\ st.timeline \in [Entities -> Seq(Point)]
    BY <1>2 DEF State
<1>4. l \in Entry /\ l.stream = None
    BY DEF Entry, IsSample
<1>5. Append(st.log, l) \in Seq(Entry) /\ ToSet(Append(st.log, l)) = ToSet(st.log) \cup {l}
    <2> HIDE DEF l
    <2> QED BY <1>3, <1>4, ToSetAppend
<1>6. DriftAfter(st.drift, x) \in [Entities -> Nat]
    BY <1>3, DriftAfterIs
<1>7. t \in State
    <2> HIDE DEF l
    <2> QED BY <1>2, <1>5, <1>6 DEF State
<1>8. /\ t.peak = st.peak /\ t.values = st.values /\ t.timeline = st.timeline
      /\ t.log = Append(st.log, l)
    <2> HIDE DEF l
    <2> QED BY <1>2 DEF State
<1>9. ASSUME NEW e \in Entities
      PROVE  ToSet(t.timeline[e]) = PointsOf(Lit(ToSet(t.log), e))
    <2>1. Lit(ToSet(t.log), e) = Lit(ToSet(st.log), e)
        <3>1. l.stream = None => Lit(ToSet(st.log) \cup {l}, e) = Lit(ToSet(st.log), e)
            BY DEF Lit
        <3> HIDE DEF l, t
        <3> QED BY <1>4, <1>5, <1>8, <3>1
    <2>2. ToSet(st.timeline[e]) = PointsOf(Lit(ToSet(st.log), e))
        BY DEF StateInv
    <2> HIDE DEF t
    <2> QED BY <1>8, <2>1, <2>2
<1>10. \A s \in Streams : t.peak[s].value > 0 => t.values[s] # <<>>
    <2>1. \A s \in Streams : st.peak[s].value > 0 => st.values[s] # <<>>
        BY DEF StateInv
    <2> HIDE DEF t
    <2> QED BY <1>8, <2>1
<1> HIDE DEF t
<1> QED BY <1>1, <1>7, <1>9, <1>10 DEF StateInv

(* A sample of a stream that is tracked.                                    *)
LEMMA TrackedInv ==
    ASSUME NEW st, StateInv(st), NEW x, IsSample(x),
           NEW at \in Nat, seen \in Nat, x.stream # None, HasRoom(st.tracked, x.stream)
    PROVE  StateInv(Sampled(st, x, at))
<1> DEFINE s == x.stream
           e == x.entity
           drifted == DriftAfter(st.drift, x)
           fired == drifted[e]
           history == Push(st.values[s], x.value)
           l == [entity |-> e, stream |-> s, value |-> x.value, scores |-> x.scores,
                 at |-> at, fired |-> fired, record |-> seen + 1]
           tr == IF s \in ToSet(st.tracked) THEN st.tracked ELSE Append(st.tracked, s)
           va == [st.values EXCEPT ![s] = history]
           pe == [st.peak EXCEPT ![s] = PeakAfter(@, x, history, at)]
           ti == [st.timeline EXCEPT ![e] = TimelineAfter(@, x, fired, at)]
           lo == Append(st.log, l)
           t == [tracked |-> tr, values |-> va, peak |-> pe, drift |-> drifted,
                 timeline |-> ti, log |-> lo]
<1>1. Sampled(st, x, at) = t
    BY Zenon DEF Sampled
<1>2. /\ st.tracked \in Seq(Streams) /\ st.values \in [Streams -> Histories]
      /\ st.peak \in [Streams -> Snapshot] /\ st.drift \in [Entities -> Nat]
      /\ st.timeline \in [Entities -> Seq(Point)] /\ st.log \in Seq(Entry)
    BY DEF StateInv, State
<1>3. s \in Streams /\ e \in Entities /\ x.value \in SampleValues /\ x.scores \in Scorings
    BY DEF IsSample
<1>4. drifted \in [Entities -> Nat] /\ fired \in Nat
    BY <1>2, DriftAfterIs
<1>5. history \in Histories /\ history # <<>>
    BY <1>2, <1>3, PushIs
<1>6. l \in Entry /\ l.stream = s /\ l.entity = e /\ l.scores = x.scores /\ l.at = at /\ l.fired = fired
    <2> HIDE DEF s, e, fired
    <2> QED BY <1>3, <1>4 DEF Entry
<1>7. RiskPoint(l, l.fired, l.at) = RiskPoint(x, fired, at)
    <2> HIDE DEF fired
    <2> QED BY DEF RiskPoint
<1>8. RiskPoint(x, fired, at) \in Point
    <2> HIDE DEF fired
    <2> QED BY <1>4, RiskPointIs
<1> HIDE DEF l, drifted, fired, history
<1>9. tr \in Seq(Streams)
    BY <1>2, <1>3
<1>10. va \in [Streams -> Histories] /\ \A u \in Streams : va[u] = IF u = s THEN history ELSE st.values[u]
    BY <1>2, <1>3, <1>5
<1>11. PeakAfter(st.peak[s], x, history, at) \in Snapshot
    BY <1>2, <1>3, <1>5, PeakAfterIs
<1>12. pe \in [Streams -> Snapshot] /\ \A u \in Streams : u # s => pe[u] = st.peak[u]
    BY <1>2, <1>3, <1>11
<1>13. lo \in Seq(Entry) /\ ToSet(lo) = ToSet(st.log) \cup {l}
    BY <1>2, <1>6, ToSetAppend
<1>14. TimelineAfter(st.timeline[e], x, fired, at) \in Seq(Point)
    BY <1>2, <1>3, <1>8 DEF TimelineAfter
<1>15. ti \in [Entities -> Seq(Point)]
       /\ \A f \in Entities : ti[f] = IF f = e THEN TimelineAfter(st.timeline[e], x, fired, at)
                                      ELSE st.timeline[f]
    BY <1>2, <1>3, <1>14
<1> HIDE DEF tr, va, pe, ti, lo
<1>16. t \in State
    BY <1>4, <1>9, <1>10, <1>12, <1>13, <1>15 DEF State
<1>17. ASSUME NEW u \in Streams, t.peak[u].value > 0 PROVE t.values[u] # <<>>
    <2>1. t.peak = pe /\ t.values = va
        OBVIOUS
    <2>2. CASE u = s
        BY <1>5, <1>10, <2>1, <2>2
    <2>3. CASE u # s
        BY <1>10, <1>12, <1>17, <2>1, <2>3 DEF StateInv
    <2> QED BY <2>2, <2>3
<1>18. ASSUME NEW f \in Entities
       PROVE  ToSet(t.timeline[f]) = PointsOf(Lit(ToSet(t.log), f))
    <2>1. t.timeline = ti /\ t.log = lo
        OBVIOUS
    <2>2. ToSet(st.timeline[f]) = PointsOf(Lit(ToSet(st.log), f))
        BY DEF StateInv
    <2> DEFINE old == Lit(ToSet(st.log), f)
    <2>3. Lit(ToSet(lo), f) = IF e = f /\ TopScore(x.scores) >= TimelineFloor
                              THEN old \cup {l} ELSE old
        <3>1. Lit(ToSet(st.log) \cup {l}, f)
                 = IF l.stream # None /\ l.entity = f /\ TopScore(l.scores) >= TimelineFloor
                   THEN old \cup {l} ELSE old
            BY DEF Lit
        <3> HIDE DEF old
        <3> QED BY <1>6, <1>13, <3>1
    <2>4. CASE e = f /\ TopScore(x.scores) >= TimelineFloor
        <3>1. ti[f] = Append(st.timeline[f], RiskPoint(x, fired, at))
            <4>1. ~(TopScore(x.scores) < TimelineFloor)
                BY <2>4, <1>3, TopScoreIs, LimitsAre DEF Scorings
            <4> QED BY <1>15, <2>4, <4>1 DEF TimelineAfter
        <3>2. st.timeline[f] \in Seq(Point)
            BY <1>2
        <3>3. ToSet(ti[f]) = ToSet(st.timeline[f]) \cup {RiskPoint(x, fired, at)}
            BY <1>8, <3>1, <3>2, ToSetAppend
        <3>4. PointsOf(old \cup {l}) = PointsOf(old) \cup {RiskPoint(x, fired, at)}
            BY <1>7, PointsGrow
        <3> QED BY <2>1, <2>2, <2>3, <2>4, <3>3, <3>4
    <2>5. CASE e # f
        BY <1>15, <2>1, <2>2, <2>3, <2>5
    <2>6. CASE e = f /\ ~(TopScore(x.scores) >= TimelineFloor)
        <3>1. TopScore(x.scores) < TimelineFloor
            BY <2>6, <1>3, TopScoreIs, LimitsAre DEF Scorings
        <3>2. ti[f] = st.timeline[f]
            BY <1>15, <2>6, <3>1 DEF TimelineAfter
        <3> QED BY <2>1, <2>2, <2>3, <2>6, <3>2
    <2> QED BY <2>4, <2>5, <2>6
<1> HIDE DEF t
<1> QED BY <1>1, <1>16, <1>17, <1>18 DEF StateInv

LEMMA SampledInv ==
    ASSUME NEW st, StateInv(st), NEW x, IsSample(x), NEW at \in Nat, seen \in Nat
    PROVE  StateInv(Sampled(st, x, at))
<1>1. CASE x.stream = None \/ ~HasRoom(st.tracked, x.stream)
    BY <1>1, UntrackedInv
<1>2. CASE x.stream # None /\ HasRoom(st.tracked, x.stream)
    BY <1>2, TrackedInv
<1> QED BY <1>1, <1>2

(* A state of the streams for each sample of a record that has been folded. *)
Unfolds(B, record, at) ==
    /\ B[0] = StreamState
    /\ \A k \in 1..Len(record) : B[k] = Sampled(B[k - 1], record[k], at)
    /\ B[Len(record)] = AfterRecord(record, at)

(* All the samples of a record.                                             *)
LEMMA AfterRecordSteps ==
    ASSUME StateInv(StreamState), NEW record \in Records, NEW at \in Nat, seen \in Nat
    PROVE  \E B : /\ Unfolds(B, record, at)
                  /\ \A k \in 0..Len(record) : StateInv(B[k])
<1> DEFINE N == Len(record)
           D == {st \in State : StateInv(st)}
           step == [k \in 1..N |-> [st \in D |-> Sampled(st, record[k], at)]]
           B == CHOOSE after : after = [n \in 0..N |->
                    IF n = 0 THEN StreamState ELSE Sampled(after[n - 1], record[n], at)]
<1>1. N \in Nat /\ \A k \in 1..N : IsSample(record[k])
    BY RecordIs
<1>2. \A k \in 1..N : \A st \in D : Sampled(st, record[k], at) \in D
    <2> SUFFICES ASSUME NEW k \in 1..N, NEW st \in D PROVE Sampled(st, record[k], at) \in D
        OBVIOUS
    <2>1. StateInv(Sampled(st, record[k], at))
        BY <1>1, SampledInv
    <2> QED BY <2>1 DEF StateInv
<1>3. step \in [1..N -> [D -> D]] /\ StreamState \in D
    <2>1. StreamState \in D
        BY DEF StateInv
    <2> HIDE DEF D, N
    <2> QED BY <1>2, <2>1
<1>4. PICK f \in [0..N -> D] :
         \A k \in 0..N : f[k] = IF k = 0 THEN StreamState ELSE step[k][f[k - 1]]
    <2> HIDE DEF step, D, N
    <2>1. \E f \in [0..N -> D] : Folds(f, N, StreamState, step)
        BY <1>1, <1>3, Folding
    <2> QED BY <2>1 DEF Folds
<1>5. f = [k \in 0..N |-> IF k = 0 THEN StreamState ELSE Sampled(f[k - 1], record[k], at)]
    <2>1. ASSUME NEW k \in 0..N
          PROVE f[k] = IF k = 0 THEN StreamState ELSE Sampled(f[k - 1], record[k], at)
        <3> HIDE DEF D, N
        <3>1. k # 0 => k - 1 \in 0..N /\ k \in 1..N
            BY <1>1
        <3> QED BY <1>4, <3>1
    <2> HIDE DEF N, step, D
    <2> QED BY <2>1, <1>4
<1>6. B = [k \in 0..N |-> IF k = 0 THEN StreamState ELSE Sampled(B[k - 1], record[k], at)]
    <2> HIDE DEF N, D, step
    <2> QED BY <1>5, Zenon
<1>7. AfterRecord(record, at) = B[N]
    BY Zenon DEF AfterRecord
<1> HIDE DEF B, step
<1>8. B[0] = StreamState /\ \A k \in 1..N : B[k] = Sampled(B[k - 1], record[k], at)
    <2> HIDE DEF D
    <2>1. 0 \in 0..N /\ \A k \in 1..N : k \in 0..N /\ k # 0
        BY <1>1
    <2> HIDE DEF N
    <2> QED BY <1>6, <2>1
<1>9. \A k \in 0..N : B[k] \in D
    <2> DEFINE T == {k \in 0..N : B[k] \in D}
    <2>1. 0 \in T
        <3> HIDE DEF D
        <3> QED BY <1>1, <1>3, <1>8
    <2>2. ASSUME NEW k \in 0..N, k \in T, k < N PROVE k + 1 \in T
        <3> HIDE DEF D
        <3>1. k + 1 \in 1..N /\ k + 1 \in 0..N /\ (k + 1) - 1 = k
            BY <1>1, <2>2
        <3>2. B[k + 1] = Sampled(B[k], record[k + 1], at)
            BY <1>8, <3>1
        <3> QED BY <1>2, <2>2, <3>1, <3>2
    <2> HIDE DEF T, N, D
    <2>3. \A k \in 0..N : k \in T
        BY <1>1, <2>1, <2>2, Climb
    <2> QED BY <2>3 DEF T
<1>10. \A k \in 0..Len(record) : StateInv(B[k])
    BY <1>9
<1>11. Unfolds(B, record, at)
    <2> HIDE DEF D
    <2> QED BY <1>7, <1>8 DEF Unfolds
<1> QED BY <1>10, <1>11

LEMMA AfterRecordInv ==
    ASSUME StateInv(StreamState), NEW record \in Records, NEW at \in Nat, seen \in Nat
    PROVE  StateInv(AfterRecord(record, at))
<1>1. PICK B : Unfolds(B, record, at) /\ \A k \in 0..Len(record) : StateInv(B[k])
    BY AfterRecordSteps
<1>2. Len(record) \in 0..Len(record)
    BY RecordIs
<1> QED BY <1>1, <1>2 DEF Unfolds
-------------------------------------------------------------------------------
Score1 == [method : Methods, score : Nat]

(* What is fresh of a scoring is one, of methods that were not there.       *)
LEMMA FreshIs ==
    ASSUME NEW scores, IsScoring(scores), NEW have
    PROVE  /\ IsScoring(Fresh(scores, have))
           /\ MethodsOf(Fresh(scores, have)) \cap have = {}
           /\ MethodsOf(Fresh(scores, have)) \subseteq MethodsOf(scores)
           /\ MethodsOf(scores) \subseteq have \cup MethodsOf(Fresh(scores, have))
<1> DEFINE N == Len(scores)
           D == Seq(Score1)
           Next1(k, t) == IF scores[k].method \in have THEN t ELSE Append(t, scores[k])
           step == [k \in 1..N |-> [t \in D |-> Next1(k, t)]]
           B == CHOOSE kept : kept = [n \in 0..N |->
                    IF n = 0 THEN <<>>
                    ELSE IF scores[n].method \in have THEN kept[n - 1]
                    ELSE Append(kept[n - 1], scores[n])]
<1>1. N \in Nat /\ DOMAIN scores = 1..N /\ \A k \in 1..N : scores[k] \in Score1
    <2>1. scores \in Seq(Score1)
        BY DEF IsScoring, Score1
    <2> QED BY <2>1
<1>2. \A k \in 1..N : \A t \in D : Next1(k, t) \in D
    BY <1>1
<1>3. step \in [1..N -> [D -> D]] /\ <<>> \in D
    <2>1. <<>> \in D
        OBVIOUS
    <2> HIDE DEF D, N, Next1
    <2> QED BY <1>2, <2>1
<1>4. PICK f \in [0..N -> D] : \A k \in 0..N : f[k] = IF k = 0 THEN <<>> ELSE step[k][f[k - 1]]
    <2> HIDE DEF step, D, N
    <2>1. \E f \in [0..N -> D] : Folds(f, N, <<>>, step)
        BY <1>1, <1>3, Folding
    <2> QED BY <2>1 DEF Folds
<1>5. f = [n \in 0..N |-> IF n = 0 THEN <<>>
                          ELSE IF scores[n].method \in have THEN f[n - 1]
                          ELSE Append(f[n - 1], scores[n])]
    <2>1. ASSUME NEW k \in 0..N
          PROVE f[k] = IF k = 0 THEN <<>> ELSE Next1(k, f[k - 1])
        <3> HIDE DEF D, N, Next1
        <3>1. k # 0 => k - 1 \in 0..N /\ k \in 1..N
            BY <1>1
        <3> QED BY <1>4, <3>1
    <2> HIDE DEF N, step, D
    <2> QED BY <2>1, <1>4
<1>6. B = [n \in 0..N |-> IF n = 0 THEN <<>>
                          ELSE IF scores[n].method \in have THEN B[n - 1]
                          ELSE Append(B[n - 1], scores[n])]
    <2> HIDE DEF N, D, step
    <2> QED BY <1>5, Zenon
<1>7. Fresh(scores, have) = B[N]
    BY Zenon DEF Fresh
<1> HIDE DEF B, step
<1>8. B[0] = <<>> /\ \A k \in 1..N : B[k] = Next1(k, B[k - 1])
    <2>1. 0 \in 0..N /\ \A k \in 1..N : k \in 0..N /\ k # 0
        BY <1>1
    <2> HIDE DEF N
    <2> QED BY <1>6, <2>1
<1> DEFINE Up(k) == {scores[j].method : j \in 1..k}
           Good(k) == /\ IsScoring(B[k])
                      /\ MethodsOf(B[k]) \cap have = {}
                      /\ MethodsOf(B[k]) \subseteq Up(k)
                      /\ Up(k) \subseteq have \cup MethodsOf(B[k])
<1>9. Good(0)
    <2>1. MethodsOf(<<>>) = {} /\ IsScoring(<<>>)
        BY DEF MethodsOf, IsScoring
    <2> QED BY <1>8, <2>1
<1>10. ASSUME NEW k \in 0..N, Good(k), k < N PROVE Good(k + 1)
    <2>1. k + 1 \in 1..N /\ (k + 1) - 1 = k
        BY <1>1, <1>10
    <2>2. B[k + 1] = Next1(k + 1, B[k])
        BY <1>8, <2>1
    <2>3. Up(k + 1) = Up(k) \cup {scores[k + 1].method}
        <3>1. 1..(k + 1) = (1..k) \cup {k + 1}
            BY <2>1
        <3> QED BY <3>1
    <2>4. scores[k + 1].method \notin Up(k)
        <3> SUFFICES ASSUME NEW j \in 1..k, scores[j].method = scores[k + 1].method PROVE FALSE
            OBVIOUS
        <3>1. j \in DOMAIN scores /\ k + 1 \in DOMAIN scores /\ j # k + 1
            BY <1>1, <2>1
        <3> QED BY <3>1 DEF IsScoring
    <2>5. CASE scores[k + 1].method \in have
        BY <1>10, <2>2, <2>3, <2>5
    <2>6. CASE scores[k + 1].method \notin have
        <3> DEFINE t == B[k]
                   x == scores[k + 1]
                   u == Append(t, x)
        <3>1. t \in Seq(Score1) /\ x \in Score1
            BY <1>1, <1>10, <2>1 DEF IsScoring, Score1
        <3>2. B[k + 1] = u
            BY <2>2, <2>6
        <3>3. x.method \notin MethodsOf(t)
            BY <1>10, <2>4
        <3> DEFINE n == Len(t)
        <3> HIDE DEF t, x
        <3>4. /\ u \in Seq(Score1) /\ n \in Nat /\ DOMAIN t = 1..n /\ DOMAIN u = 1..(n + 1)
              /\ u[n + 1] = x /\ \A i \in 1..n : u[i] = t[i]
            BY <3>1
        <3> HIDE DEF u, n
        <3>5. \A i, j \in 1..n : t[i].method = t[j].method => i = j
            BY <1>10, <3>4 DEF IsScoring, t
        <3>6. \A i \in 1..n : t[i].method # x.method
            BY <3>3, <3>4 DEF MethodsOf
        <3>7. \A i, j \in 1..(n + 1) : u[i].method = u[j].method => i = j
            BY <3>4, <3>5, <3>6
        <3>8. IsScoring(u)
            BY <3>4, <3>7 DEF IsScoring, Score1
        <3>9. MethodsOf(u) = MethodsOf(t) \cup {x.method}
            <4>1. \A i \in 1..(n + 1) : i \in 1..n \/ i = n + 1
                BY <3>4
            <4> QED BY <3>4, <4>1 DEF MethodsOf
        <3>10. x.method \notin have /\ x.method \in Up(k + 1)
            BY <2>3, <2>6 DEF x
        <3>11. Up(k + 1) = Up(k) \cup {x.method}
            BY <2>3 DEF x
        <3>12. MethodsOf(B[k + 1]) = MethodsOf(B[k]) \cup {x.method} /\ IsScoring(B[k + 1])
            BY <3>2, <3>8, <3>9 DEF t
        <3> HIDE DEF Up
        <3> QED BY <1>10, <3>10, <3>11, <3>12
    <2> QED BY <2>5, <2>6
<1>11. \A k \in 0..N : Good(k)
    <2> DEFINE T == {k \in 0..N : Good(k)}
    <2> HIDE DEF N, Good
    <2>1. 0 \in T
        BY <1>1, <1>9
    <2>2. ASSUME NEW k \in 0..N, k \in T, k < N PROVE k + 1 \in T
        <3>1. k + 1 \in 0..N
            BY <1>1, <2>2
        <3> QED BY <1>10, <2>2, <3>1
    <2> HIDE DEF T
    <2>3. \A k \in 0..N : k \in T
        BY <1>1, <2>1, <2>2, Climb
    <2> QED BY <2>3 DEF T
<1>12. Good(N)
    <2>1. N \in 0..N
        BY <1>1
    <2> HIDE DEF Good, N
    <2> QED BY <1>11, <2>1
<1>13. Up(N) = MethodsOf(scores)
    BY <1>1 DEF MethodsOf
<1> QED BY <1>7, <1>12, <1>13

LEMMA JoinIs ==
    ASSUME NEW a, IsScoring(a), NEW b, IsScoring(b), MethodsOf(b) \cap MethodsOf(a) = {}
    PROVE  IsScoring(a \o b)
<1> DEFINE c == a \o b
           n == Len(a)
           m == Len(b)
<1>1. a \in Seq(Score1) /\ b \in Seq(Score1)
    BY DEF IsScoring, Score1
<1>2. /\ n \in Nat /\ m \in Nat /\ DOMAIN a = 1..n /\ DOMAIN b = 1..m
      /\ c \in Seq(Score1) /\ DOMAIN c = 1..(n + m)
      /\ \A i \in 1..(n + m) : c[i] = IF i <= n THEN a[i] ELSE b[i - n]
    BY <1>1
<1> HIDE DEF c, n, m
<1>3. ASSUME NEW i \in 1..(n + m), NEW j \in 1..(n + m), c[i].method = c[j].method
      PROVE  i = j
    <2>1. \A p \in 1..n, q \in 1..m : a[p].method # b[q].method
        BY <1>2 DEF MethodsOf
    <2>2. CASE i <= n /\ j <= n
        <3>1. i \in DOMAIN a /\ j \in DOMAIN a
            BY <1>2, <2>2
        <3> QED BY <1>2, <1>3, <2>2, <3>1 DEF IsScoring
    <2>3. CASE ~(i <= n) /\ ~(j <= n)
        <3>1. i - n \in DOMAIN b /\ j - n \in DOMAIN b
            BY <1>2, <2>3
        <3>2. i - n = j - n
            BY <1>2, <1>3, <2>3, <3>1 DEF IsScoring
        <3> QED BY <1>2, <3>2
    <2>4. CASE i <= n /\ ~(j <= n)
        <3>1. i \in 1..n /\ j - n \in 1..m
            BY <1>2, <2>4
        <3> QED BY <1>2, <1>3, <2>1, <2>4, <3>1
    <2>5. CASE ~(i <= n) /\ j <= n
        <3>1. j \in 1..n /\ i - n \in 1..m
            BY <1>2, <2>5
        <3> QED BY <1>2, <1>3, <2>1, <2>5, <3>1
    <2> QED BY <1>2, <2>2, <2>3, <2>4, <2>5
<1> QED BY <1>2, <1>3 DEF IsScoring, Score1, c

LEMMA BatchIs ==
    ASSUME NEW s \in Streams, NEW h \in Histories
    PROVE  IsScoring(Batch(s, h))
<1> DEFINE V == {x.value : x \in Samples}
           n == Len(h)
<1>1. h \in Seq(V) /\ n \in Nat /\ n <= HistoryLen
    BY DEF Histories, SampleValues
<1>2. h \in [1..n -> V] /\ n \in 0..HistoryLen
    <2> HIDE DEF V
    <2> QED BY <1>1, LimitsAre
<1> HIDE DEF n
<1> QED BY <1>2, BatchAssumption, Zenon

(* The batch pass leaves every snapshot one, with its value and onset.      *)
LEMMA BatchEnrichIs ==
    ASSUME NEW pk \in [Streams -> Snapshot]
    PROVE  /\ BatchEnrich(pk) \in [Streams -> Snapshot]
           /\ \A s \in Streams : BatchEnrich(pk)[s].value = pk[s].value
<1> DEFINE Extra(s) == Fresh(Batch(s, pk[s].history), MethodsOf(pk[s].scores))
           Rich(s) == [pk[s] EXCEPT !.scores = @ \o Extra(s)]
           top == FirstOf(Candidates(pk), BatchTop, pk)
<1>1. ASSUME NEW s \in Streams
      PROVE  Rich(s) \in Snapshot /\ Rich(s).value = pk[s].value
    <2>1. /\ pk[s] \in Snapshot /\ pk[s].history \in Histories
          /\ pk[s].scores \in Scorings
        BY DEF Snapshot
    <2>2. IsScoring(Extra(s)) /\ MethodsOf(Extra(s)) \cap MethodsOf(pk[s].scores) = {}
        BY <2>1, BatchIs, FreshIs
    <2> HIDE DEF Extra
    <2>3. IsScoring(pk[s].scores \o Extra(s))
        BY <2>1, <2>2, JoinIs DEF Scorings
    <2>4. pk[s].scores \o Extra(s) \in Scorings
        BY <2>3 DEF Scorings, IsScoring
    <2> QED BY <2>1, <2>4 DEF Snapshot
<1>2. BatchEnrich(pk) = [s \in Streams |-> IF s \in top THEN Rich(s) ELSE pk[s]]
    BY Zenon DEF BatchEnrich
<1> HIDE DEF Rich, top
<1> QED BY <1>1, <1>2
-------------------------------------------------------------------------------
(* The inductive invariant: the streams' state has its type, a stream with  *)
(* an onset has a history, the timelines hold just the ticks that are lit,  *)
(* and a report that no record has come after is the one that would be made *)
(* now: assemble() leaves the snapshots it reported on.                     *)
ReportInv == /\ report # None => report.records \in Nat /\ report.records <= seen
             /\ Current => report = Report(peak)

IInv == /\ StateInv(StreamState)
        /\ now \in Nat
        /\ seen \in Nat
        /\ ReportInv

LEMMA InitIInv == Init => IInv
<1> SUFFICES ASSUME Init PROVE IInv
    OBVIOUS
<1>1. report = None /\ now = 0 /\ seen = 0
    BY DEF Init
<1>2. ReportInv
    BY <1>1 DEF ReportInv, Current
<1> DEFINE st == StreamState
<1>3. st = [tracked |-> <<>>, values |-> [s \in Streams |-> <<>>],
            peak |-> [s \in Streams |-> NoPeak], drift |-> [e \in Entities |-> 0],
            timeline |-> [e \in Entities |-> <<>>], log |-> <<>>]
    BY DEF Init, StreamState
<1>4. <<>> \in Histories /\ <<>> \in Scorings
    <2>1. IsScoring(<<>>)
        BY DEF IsScoring
    <2> QED BY <2>1, LimitsAre DEF Histories, Scorings
<1>5. NoPeak \in Snapshot /\ NoPeak.value = 0
    BY <1>4 DEF NoPeak, Snapshot
<1>6. st \in State
    BY <1>3, <1>4, <1>5 DEF State
<1>7. \A s \in Streams : st.peak[s].value = 0
    BY <1>3, <1>5
<1>8. ASSUME NEW e \in Entities PROVE ToSet(st.timeline[e]) = PointsOf(Lit(ToSet(st.log), e))
    <2>1. st.timeline[e] = <<>> /\ st.log = <<>>
        BY <1>3
    <2>2. ToSet(<<>>) = {}
        BY DEF ToSet
    <2>3. PointsOf(Lit({}, e)) = {}
        BY DEF PointsOf, Lit
    <2> QED BY <2>1, <2>2, <2>3
<1>9. StateInv(st)
    <2> HIDE DEF st
    <2> QED BY <1>6, <1>7, <1>8 DEF StateInv
<1> QED BY <1>1, <1>2, <1>9 DEF IInv

LEMMA ProcessIInv ==
    ASSUME IInv, NEW record \in Records, NEW gap \in Gaps, Process(record, gap)
    PROVE  IInv'
<1> DEFINE st == AfterRecord(record, now')
<1>1. seen \in Nat /\ seen' = seen + 1 /\ now' \in Nat
    BY LimitsAre DEF IInv, Process, TimeAfter
<1>2. StateInv(st)
    BY <1>1, AfterRecordInv DEF IInv
<1>3. StreamState' = st
    <2>1. /\ tracked' = st.tracked /\ values' = st.values /\ peak' = st.peak
          /\ drift' = st.drift /\ timeline' = st.timeline /\ log' = st.log
        BY DEF Process
    <2>2. st \in State
        BY <1>2 DEF StateInv
    <2> HIDE DEF st
    <2>3. st = [tracked |-> st.tracked, values |-> st.values, peak |-> st.peak,
                drift |-> st.drift, timeline |-> st.timeline, log |-> st.log]
        BY <2>2 DEF State
    <2> QED BY <2>1, <2>3 DEF StreamState
<1> HIDE DEF st
<1>4. StateInv(StreamState)'
    BY <1>2, <1>3
<1>5. report' = report
    BY DEF Process
<1>6. ReportInv'
    <2>1. report # None => report.records \in Nat /\ report.records <= seen
        BY DEF IInv, ReportInv
    <2>2. ~Current'
        BY <1>1, <1>5, <2>1 DEF Current
    <2>3. (report # None => report.records \in Nat /\ report.records <= seen)'
        BY <1>1, <1>5, <2>1
    <2> QED BY <2>2, <2>3 DEF ReportInv
<1> QED BY <1>1, <1>4, <1>6 DEF IInv

(* A report is a function of the snapshots and of what assemble() leaves.   *)
StateForReport == <<tracked, values, drift, timeline, seen>>

LEMMA BeforeStable ==
    ASSUME UNCHANGED StateForReport, NEW pk, NEW s, NEW t
    PROVE  Before(s, t, pk)' = Before(s, t, pk)
<1>1. tracked' = tracked
    BY DEF StateForReport
<1>2. Position(s)' = Position(s) /\ Position(t)' = Position(t)
    BY <1>1, Zenon DEF Position
<1> QED BY <1>2, Zenon DEF Before

LEMMA ScreenedStable ==
    ASSUME UNCHANGED StateForReport, NEW pk
    PROVE  Screened(pk)' = Screened(pk)
<1>1. tracked' = tracked /\ values' = values
    BY DEF StateForReport
<1> QED BY <1>1, Zenon DEF Screened

LEMMA PlaceStable ==
    ASSUME UNCHANGED StateForReport, NEW pk, NEW set, NEW s
    PROVE  Place(s, set, pk)' = Place(s, set, pk)
<1>1. \A t : Before(t, s, pk)' = Before(t, s, pk)
    BY BeforeStable
<1> QED BY <1>1 DEF Place

LEMMA FirstOfStable ==
    ASSUME UNCHANGED StateForReport, NEW pk, NEW set, NEW n
    PROVE  FirstOf(set, n, pk)' = FirstOf(set, n, pk)
BY PlaceStable DEF FirstOf

LEMMA FusedStable ==
    ASSUME UNCHANGED StateForReport, NEW pk
    PROVE  FusedByMetric(pk)' = FusedByMetric(pk)
<1>1. Screened(pk)' = Screened(pk)
    BY ScreenedStable
<1>2. \A s, set : Place(s, set, pk)' = Place(s, set, pk)
    BY PlaceStable
<1>3. \A set, n : FirstOf(set, n, pk)' = FirstOf(set, n, pk)
    BY FirstOfStable
<1>4. values' = values /\ drift' = drift
    BY DEF StateForReport
<1> QED BY <1>1, <1>2, <1>3, <1>4, ZenonT(30) DEF FusedByMetric

LEMMA EvaluateStable ==
    ASSUME UNCHANGED StateForReport, NEW label, NEW incidents
    PROVE  Evaluate(label, incidents)' = Evaluate(label, incidents)
<1>1. timeline' = timeline
    BY DEF StateForReport
<1>2. PointsFor(label)' = PointsFor(label)
    BY <1>1, Zenon DEF PointsFor
<1>3. IssueSeen(label)' = IssueSeen(label)
    BY <1>2, Zenon DEF IssueSeen
<1> QED BY <1>2, <1>3, Zenon DEF Evaluate

LEMMA ReportStable ==
    ASSUME UNCHANGED StateForReport, NEW pk
    PROVE  Report(pk)' = Report(pk)
<1>1. FusedByMetric(pk)' = FusedByMetric(pk)
    BY FusedStable
<1>2. \A label, incidents : Evaluate(label, incidents)' = Evaluate(label, incidents)
    BY EvaluateStable
<1>3. seen' = seen
    BY DEF StateForReport
<1> QED BY <1>1, <1>2, <1>3, Zenon DEF Report

LEMMA AssembleIInv ==
    ASSUME IInv, Assemble
    PROVE  IInv'
<1>1. /\ peak' = BatchEnrich(peak) /\ report' = Report(peak')
      /\ tracked' = tracked /\ values' = values /\ drift' = drift /\ timeline' = timeline
      /\ now' = now /\ seen' = seen /\ log' = log
    BY DEF Assemble
<1>2. now \in Nat /\ seen \in Nat
    BY DEF IInv
<1> DEFINE st == StreamState
           t  == StreamState'
<1>3. StateInv(st) /\ st.peak = peak /\ st.values = values /\ st.timeline = timeline /\ st.log = log
    BY DEF IInv, StreamState
<1>4. /\ t = [tracked |-> tracked, values |-> values, peak |-> peak', drift |-> drift,
              timeline |-> timeline, log |-> log]
    BY <1>1 DEF StreamState
<1>5. st = [tracked |-> tracked, values |-> values, peak |-> peak, drift |-> drift,
            timeline |-> timeline, log |-> log]
    BY DEF StreamState
<1>6. peak \in [Streams -> Snapshot]
    BY <1>3 DEF StateInv, State
<1>7. peak' \in [Streams -> Snapshot] /\ \A s \in Streams : peak'[s].value = peak[s].value
    BY <1>1, <1>6, BatchEnrichIs
<1> HIDE DEF st, t
<1>8. t \in State
    BY <1>3, <1>4, <1>5, <1>7 DEF StateInv, State
<1>9. StateInv(t)
    <2>1. t.peak = peak' /\ t.values = values /\ t.timeline = timeline /\ t.log = log
        BY <1>4
    <2>2. \A s \in Streams : t.peak[s].value > 0 => t.values[s] # <<>>
        BY <1>3, <1>7, <2>1 DEF StateInv
    <2>3. \A e \in Entities : ToSet(t.timeline[e]) = PointsOf(Lit(ToSet(t.log), e))
        BY <1>3, <2>1, Zenon DEF StateInv
    <2> QED BY <1>8, <2>2, <2>3 DEF StateInv
<1>10. StateInv(StreamState)'
    BY <1>9 DEF t
<1>11. ReportInv'
    <2>1. report'.records = seen
        BY <1>1 DEF Report
    <2>2. report' = Report(peak)'
        <3>1. UNCHANGED StateForReport
            BY <1>1 DEF StateForReport
        <3> DEFINE pk == peak'
        <3> QED BY <1>1, <3>1, ReportStable
    <2> QED BY <1>1, <1>2, <2>1, <2>2 DEF ReportInv
<1> QED BY <1>1, <1>2, <1>10, <1>11 DEF IInv

LEMMA NextIInv == IInv /\ [Next]_vars => IInv'
<1> SUFFICES ASSUME IInv, [Next]_vars PROVE IInv'
    OBVIOUS
<1>1. ASSUME NEW record \in Records, NEW gap \in Gaps, Process(record, gap) PROVE IInv'
    BY <1>1, ProcessIInv
<1>2. CASE Assemble
    BY <1>2, AssembleIInv
<1>3. CASE UNCHANGED vars
    <2>1. /\ tracked' = tracked /\ values' = values /\ peak' = peak /\ drift' = drift
          /\ timeline' = timeline /\ now' = now /\ seen' = seen /\ report' = report /\ log' = log
        BY <1>3 DEF vars
    <2>2. StreamState' = StreamState
        BY <2>1 DEF StreamState
    <2>3. StateInv(StreamState)'
        BY <2>2 DEF IInv
    <2>4. Report(peak)' = Report(peak)
        <3>1. UNCHANGED StateForReport
            BY <2>1 DEF StateForReport
        <3> QED BY <2>1, <3>1, ReportStable
    <2>5. ReportInv'
        BY <2>1, <2>4 DEF IInv, ReportInv, Current
    <2> QED BY <2>1, <2>3, <2>5 DEF IInv
<1> QED BY <1>1, <1>2, <1>3 DEF Next

(* The inductive invariant holds of every behaviour of the pipeline.        *)
THEOREM PipelineInductive == Spec => []IInv
BY InitIInv, NextIInv, PTL DEF Spec
-------------------------------------------------------------------------------
LEMMA StateIs ==
    ASSUME IInv
    PROVE  /\ tracked \in Seq(Streams) /\ values \in [Streams -> Histories]
           /\ peak \in [Streams -> Snapshot] /\ drift \in [Entities -> Nat]
           /\ timeline \in [Entities -> Seq(Point)] /\ log \in Seq(Entry)
           /\ \A s \in Streams : peak[s].value > 0 => values[s] # <<>>
           /\ \A e \in Entities : ToSet(timeline[e]) = PointsOf(Lit(ToSet(log), e))
<1> DEFINE st == StreamState
<1>1. /\ st.tracked = tracked /\ st.values = values /\ st.peak = peak /\ st.drift = drift
      /\ st.timeline = timeline /\ st.log = log
    BY DEF StreamState
<1>2. StateInv(st)
    BY DEF IInv
<1> HIDE DEF st
<1>3. /\ st.tracked \in Seq(Streams) /\ st.values \in [Streams -> Histories]
      /\ st.peak \in [Streams -> Snapshot] /\ st.drift \in [Entities -> Nat]
      /\ st.timeline \in [Entities -> Seq(Point)] /\ st.log \in Seq(Entry)
    BY <1>2 DEF StateInv, State
<1>4. /\ \A s \in Streams : st.peak[s].value > 0 => st.values[s] # <<>>
      /\ \A e \in Entities : ToSet(st.timeline[e]) = PointsOf(Lit(ToSet(st.log), e))
    BY <1>2 DEF StateInv
<1> QED BY <1>1, <1>3, <1>4

LEMMA ToSetIsFinite ==
    ASSUME NEW S, NEW s \in Seq(S)
    PROVE  IsFiniteSet(ToSet(s)) /\ ToSet(s) \subseteq S
<1>1. Len(s) \in Nat /\ DOMAIN s = 1..Len(s)
    OBVIOUS
<1>2. IsFiniteSet(1..Len(s))
    <2>1. 1 \in Int /\ Len(s) \in Int
        BY <1>1
    <2> QED BY <2>1, FS_Interval
<1>3. IsFiniteSet({s[i] : i \in 1..Len(s)})
    BY <1>1, <1>2, ImageIsFinite
<1> QED BY <1>1, <1>3, ElementIs DEF ToSet

(* Snapshots of the onsets that the streams have, with whatever scores the  *)
(* batch pass has written to them.                                          *)
Snaps(pk) == /\ pk \in [Streams -> Snapshot]
             /\ \A s \in Streams : pk[s].value = peak[s].value

LEMMA PeakSnaps == IInv => Snaps(peak)
BY StateIs DEF Snaps

(* The tracked streams are totally ordered by onset and position.           *)
LEMMA PlaceIs ==
    ASSUME IInv, NEW pk, Snaps(pk), NEW set \in SUBSET ToSet(tracked)
    PROVE  /\ \A s \in set : Place(s, set, pk) \in Nat
           /\ \A s, t \in set : Place(s, set, pk) = Place(t, set, pk) => s = t
           /\ \A s, t \in set : Place(s, set, pk) < Place(t, set, pk) <=> Before(s, t, pk)
<1>1. IsFiniteSet(set) /\ ToSet(tracked) \subseteq Streams
    <2>1. IsFiniteSet(ToSet(tracked)) /\ ToSet(tracked) \subseteq Streams
        BY StateIs, ToSetIsFinite
    <2> QED BY <2>1, FS_Subset
<1>2. \A s \in set : pk[s].value \in Nat
    BY <1>1 DEF Snaps, Snapshot
<1>3. ASSUME NEW s \in set
      PROVE  Position(s) \in Nat /\ tracked[Position(s)] = s
    <2>1. \E i \in DOMAIN tracked : tracked[i] = s
        BY DEF ToSet
    <2>2. Position(s) \in DOMAIN tracked /\ tracked[Position(s)] = s
        BY <2>1 DEF Position
    <2>3. DOMAIN tracked \subseteq Nat
        BY StateIs
    <2> QED BY <2>2, <2>3
<1> DEFINE R == {p \in set \X set : Before(p[1], p[2], pk)}
<1>4. \A s, t \in set : <<s, t>> \in R <=> Before(s, t, pk)
    OBVIOUS
<1>5. IsStrictOrder(R, set)
    <2> HIDE DEF R
    <2> QED BY <1>2, <1>3, <1>4 DEF IsStrictOrder, Before
<1>6. ASSUME NEW s \in set, NEW t \in set, s # t PROVE Before(s, t, pk) \/ Before(t, s, pk)
    BY <1>2, <1>3, <1>6 DEF Before
<1>7. ASSUME NEW s \in set
      PROVE  Place(s, set, pk) = Cardinality(Predecessors(s, R, set)) /\ Place(s, set, pk) \in Nat
    <2>1. Predecessors(s, R, set) = {t \in set : Before(t, s, pk)}
        BY <1>4 DEF Predecessors
    <2>2. {t \in set : Before(t, s, pk)} \in SUBSET set
        OBVIOUS
    <2>3. IsFiniteSet({t \in set : Before(t, s, pk)})
        BY <1>1, <2>2, FS_Subset
    <2> HIDE DEF R
    <2> QED BY <2>1, <2>3, FS_CardinalityType DEF Place
<1> HIDE DEF R
<1>8. ASSUME NEW s \in set, NEW t \in set, Before(s, t, pk)
      PROVE  Place(s, set, pk) < Place(t, set, pk)
    BY <1>1, <1>4, <1>5, <1>7, <1>8, PredecessorsGrow
<1>9. ASSUME NEW s \in set, NEW t \in set, s # t, Place(s, set, pk) = Place(t, set, pk)
      PROVE  FALSE
    BY <1>6, <1>7, <1>8, <1>9
<1>10. ASSUME NEW s \in set, NEW t \in set, Place(s, set, pk) < Place(t, set, pk)
       PROVE  Before(s, t, pk)
    <2>1. s # t
        BY <1>7, <1>10
    <2>2. ~Before(t, s, pk)
        BY <1>7, <1>8, <1>10
    <2> QED BY <1>6, <2>1, <2>2
<1> QED BY <1>7, <1>8, <1>9, <1>10

LEMMA ScreenedAre ==
    ASSUME IInv, NEW pk, Snaps(pk), NEW s \in Screened(pk)
    PROVE  /\ s \in Streams /\ s \in ToSet(tracked)
           /\ pk[s] \in Snapshot
           /\ values[s] \in Seq(Nat) /\ values[s] # <<>>
<1>1. s \in ToSet(tracked) /\ pk[s].value >= TimelineFloor
    BY DEF Screened
<1>2. s \in Streams
    BY <1>1, StateIs, ToSetIsFinite
<1>3. pk[s] \in Snapshot /\ pk[s].value \in Nat /\ values[s] \in Histories
    BY <1>2, StateIs DEF Snaps, Snapshot
<1>4. values[s] # <<>>
    <2>1. peak[s].value = pk[s].value
        BY <1>2 DEF Snaps
    <2>2. peak[s].value > 0
        BY <1>1, <1>3, <2>1, LimitsAre
    <2> QED BY <1>2, <2>2, StateIs
<1>5. SampleValues \subseteq Nat
    <2> SUFFICES ASSUME NEW x \in Samples PROVE x.value \in Nat
        BY DEF SampleValues
    <2> QED BY RecordAssumption DEF Samples
<1>6. values[s] \in Seq(Nat)
    <2>1. values[s] \in Seq(SampleValues)
        BY <1>3 DEF Histories
    <2>2. \A i \in DOMAIN values[s] : values[s][i] \in Nat
        BY <2>1, <1>5, ElementIs
    <2> QED BY <2>1, <2>2
<1> QED BY <1>1, <1>2, <1>3, <1>4, <1>6

LEMMA ExcursionIs ==
    ASSUME NEW s \in Streams, NEW h \in Seq(Nat), h # <<>>
    PROVE  ExcursionFraction(s, h) \in Nat
<1>1. IsFiniteSet(ToSet(h)) /\ ToSet(h) \subseteq Nat
    BY ToSetIsFinite
<1>2. ToSet(h) # {}
    <2>1. 1 \in DOMAIN h
        OBVIOUS
    <2> QED BY <2>1 DEF ToSet
<1>3. Max(ToSet(h)) \in Nat /\ Min(ToSet(h)) \in Nat
    <2>1. ToSet(h) \in SUBSET Int
        BY <1>1
    <2> QED BY <1>1, <1>2, <2>1, FiniteMax, FiniteMin
<1> DEFINE x == Extremum(s, h)
           y == Threshold[s]
<1>4. x \in Nat
    BY <1>3 DEF Extremum
<1>5. y \in Nat \ {0}
    BY StreamAssumption
<1>6. ExcursionFraction(s, h) = IF Rising[s] THEN (1000 * x) \div y
                                ELSE IF x = 0 THEN 0 ELSE (1000 * y) \div x
    BY SMT DEF ExcursionFraction
<1> HIDE DEF x, y
<1>7. (1000 * x) \div y \in Nat
    BY <1>4, <1>5
<1>8. x # 0 => (1000 * y) \div x \in Nat
    BY <1>4, <1>5
<1> QED BY <1>6, <1>7, <1>8
-------------------------------------------------------------------------------
(* The fused risks of a report: each is that of an entity, and no two come  *)
(* at the same place.                                                       *)
IsFused(f) == /\ f.entity \in Entities /\ f.entity \in DOMAIN NodeOf
              /\ f.at \in Nat /\ f.risk \in Nat
              /\ f.excursion \in Nat /\ f.place \in Nat

LEMMA FusedIs ==
    ASSUME IInv, NEW pk, Snaps(pk), NEW s \in Screened(pk), NEW forecast, AtMostOne(forecast),
           NEW place \in Nat
    PROVE  IsFused(Fused(s, pk[s], drift[EntityOf[s]], forecast, values[s], place))
<1> DEFINE f == Fused(s, pk[s], drift[EntityOf[s]], forecast, values[s], place)
           agreement == {m.agreement : m \in forecast}
<1>1. AtMostOne(agreement)
    <2>1. CASE forecast = {}
        BY <2>1 DEF AtMostOne
    <2>2. ASSUME NEW m, forecast = {m} PROVE agreement = {m.agreement}
        BY <2>2
    <2> HIDE DEF agreement
    <2> QED BY <2>1, <2>2 DEF AtMostOne, agreement
<1>2. /\ f.entity = EntityOf[s]
      /\ f.at = pk[s].at
      /\ f.risk = Risk(pk[s].scores, drift[EntityOf[s]], agreement)
      /\ f.excursion = ExcursionFraction(s, values[s])
      /\ f.place = place
    BY Zenon DEF Fused
<1>3. s \in Streams /\ EntityOf[s] \in Entities /\ EntityOf[s] \in DOMAIN NodeOf
    BY ScreenedAre, StreamAssumption, EntityAssumption
<1>4. pk[s].at \in Nat /\ IsScoring(pk[s].scores)
    BY ScreenedAre DEF Snapshot, Scorings
<1>5. Risk(pk[s].scores, drift[EntityOf[s]], agreement) \in Nat
    <2> HIDE DEF agreement
    <2> QED BY <1>1, <1>4, RiskRange
<1>6. ExcursionFraction(s, values[s]) \in Nat
    BY ScreenedAre, ExcursionIs
<1> HIDE DEF f, agreement
<1>7. IsFused(f)
    BY <1>2, <1>3, <1>4, <1>5, <1>6 DEF IsFused
<1> QED BY <1>7 DEF f

LEMMA FusedAre ==
    ASSUME IInv, NEW pk, Snaps(pk)
    PROVE  /\ IsFiniteSet(FusedByMetric(pk))
           /\ \A f \in FusedByMetric(pk) : IsFused(f)
           /\ \A f, g \in FusedByMetric(pk) : f.place = g.place => f = g
<1> DEFINE screened == Screened(pk)
           forecastSet == IF TopK = 0 THEN screened ELSE FirstOf(screened, TopK, pk)
           ForecastAtPeak(s) ==
              IF /\ pk[s].value >= ForecastFloor /\ s \in forecastSet
                 /\ Len(pk[s].history) >= MinHistory
              THEN ForecastOf(s, pk[s].history)
              ELSE {}
           fuse == [s \in screened |->
                       Fused(s, pk[s], drift[EntityOf[s]], ForecastAtPeak(s), values[s],
                             Place(s, screened, pk))]
           all == {fuse[s] : s \in screened}
<1>1. FusedByMetric(pk) = {f \in {Fused(s, pk[s], drift[EntityOf[s]], ForecastAtPeak(s),
                                          values[s], Place(s, screened, pk)) : s \in screened} :
                               f.risk >= IncidentFloor}
    BY Zenon DEF FusedByMetric
<1>2. \A s \in screened : fuse[s] = Fused(s, pk[s], drift[EntityOf[s]], ForecastAtPeak(s),
                                          values[s], Place(s, screened, pk))
    BY Zenon
<1>3. \A s : AtMostOne(ForecastAtPeak(s))
    BY DEF AtMostOne, ForecastOf
<1>4. screened \subseteq ToSet(tracked)
    BY DEF Screened
<1>5. IsFiniteSet(screened)
    <2>1. IsFiniteSet(ToSet(tracked))
        BY StateIs, ToSetIsFinite
    <2> QED BY <1>4, <2>1, FS_Subset
<1> HIDE DEF ForecastAtPeak
<1>6. \A s \in screened : Place(s, screened, pk) \in Nat
    BY <1>4, PlaceIs
<1>7. ASSUME NEW s \in screened
      PROVE  IsFused(fuse[s]) /\ fuse[s].place = Place(s, screened, pk)
    <2>1. IsFused(fuse[s])
        BY <1>2, <1>3, <1>6, FusedIs
    <2>2. fuse[s].place = Place(s, screened, pk)
        BY <1>2, Zenon DEF Fused
    <2> QED BY <2>1, <2>2
<1>8. DOMAIN fuse = screened
    OBVIOUS
<1>9. FusedByMetric(pk) \subseteq all
    <2> HIDE DEF fuse, screened
    <2> QED BY <1>1, <1>2
<1> HIDE DEF fuse
<1>10. IsFiniteSet(all)
    BY <1>5, <1>8, ImageIsFinite
<1>11. ASSUME NEW s \in screened, NEW t \in screened, fuse[s].place = fuse[t].place
       PROVE  fuse[s] = fuse[t]
    <2>1. Place(s, screened, pk) = Place(t, screened, pk)
        BY <1>7, <1>11
    <2> QED BY <1>4, <2>1, PlaceIs
<1> HIDE DEF screened
<1> QED BY <1>7, <1>9, <1>10, <1>11, FS_Subset
-------------------------------------------------------------------------------
(* A list of events, as correlation gets it: one event per entity, each at  *)
(* a position of its own.                                                   *)
IsEventList(events) ==
    /\ IsFiniteSet(events)
    /\ \A x \in events : x.entity \in DOMAIN NodeOf /\ x.at \in Nat /\ x.rank \in Nat
    /\ \A x, y \in events : x.entity = y.entity => x = y
    /\ \A x, y \in events : x.rank = y.rank => x = y

(* Of the fused risks of an entity there is one that outranks the others.   *)
LEMMA BestExists ==
    ASSUME NEW mine, IsFiniteSet(mine), mine # {}, \A f \in mine : IsFused(f),
           \A f, g \in mine : f.place = g.place => f = g
    PROVE  \E f \in mine : \A g \in mine \ {f} : Outranks(f, g)
<1> DEFINE R == {p \in mine \X mine : Outranks(p[1], p[2])}
<1>1. \A f, g \in mine : <<f, g>> \in R <=> Outranks(f, g)
    OBVIOUS
<1>2. \A f \in mine : f.excursion \in Nat /\ f.risk \in Nat /\ f.place \in Nat
    BY DEF IsFused
<1> HIDE DEF R
<1>3. IsStrictOrder(R, mine)
    BY <1>1, <1>2 DEF IsStrictOrder, Outranks
<1>4. IsTotal(R, mine)
    BY <1>1, <1>2 DEF IsTotal, Outranks
<1>5. \E f \in mine : \A g \in mine \ {f} : <<f, g>> \in R
    BY <1>3, <1>4, FirstExists
<1> QED BY <1>1, <1>5

(* _collapse_per_entity: every entity with a fused risk has one event, and  *)
(* no two events come at the same position.                                 *)
LEMMA CollapsedAre ==
    ASSUME NEW fused, IsFiniteSet(fused), \A f \in fused : IsFused(f),
           \A f, g \in fused : f.place = g.place => f = g
    PROVE  /\ IsEventList(CollapsePerEntity(fused))
           /\ \A f \in fused : \E x \in CollapsePerEntity(fused) : x.entity = f.entity
<1> DEFINE Of(e) == {f \in fused : f.entity = e}
           Best(e) == CHOOSE f \in Of(e) : \A g \in Of(e) \ {f} : Outranks(f, g)
           Event(f) == [entity |-> f.entity, metric |-> f.metric, at |-> f.at, issue |-> f.issue,
                        risk |-> f.risk, confidence |-> f.confidence, tti |-> f.tti,
                        rank |-> Min({g.place : g \in Of(f.entity)})]
           named == {f.entity : f \in fused}
           event == [e \in named |-> Event(Best(e))]
           E == {event[e] : e \in named}
<1>1. CollapsePerEntity(fused) = {Event(Best(e)) : e \in named}
    BY Zenon DEF CollapsePerEntity
<1>2. \A e \in named : event[e] = Event(Best(e))
    BY Zenon
<1>3. IsFiniteSet(named)
    <2> DEFINE g == [f \in fused |-> f.entity]
    <2>1. DOMAIN g = fused /\ named = {g[f] : f \in fused}
        OBVIOUS
    <2> HIDE DEF g, named
    <2> QED BY <2>1, ImageIsFinite
<1>4. ASSUME NEW e \in named
      PROVE  IsFiniteSet(Of(e)) /\ Of(e) # {} /\ Of(e) \subseteq fused
    BY FS_Subset
<1>5. ASSUME NEW e \in named PROVE Best(e) \in Of(e)
    <2> HIDE DEF Of
    <2>1. \E f \in Of(e) : \A g \in Of(e) \ {f} : Outranks(f, g)
        BY <1>4, BestExists
    <2> QED BY <2>1
<1>6. ASSUME NEW e \in named
      PROVE  \E g \in fused : g.entity = e /\ g.place = Min({h.place : h \in Of(e)})
    <2> DEFINE P == {h.place : h \in Of(e)}
    <2>1. P \in SUBSET Nat /\ P # {}
        BY <1>4 DEF IsFused
    <2>2. Min(P) \in P
        <3> HIDE DEF P
        <3> QED BY <2>1, MinOf
    <2> QED BY <2>2
<1> HIDE DEF Best
<1>7. ASSUME NEW e \in named
      PROVE  /\ Best(e) \in fused /\ Best(e).entity = e
             /\ event[e].entity = e
             /\ event[e].at = Best(e).at
             /\ event[e].rank = Min({h.place : h \in Of(e)})
    <2>1. Best(e) \in fused /\ Best(e).entity = e
        BY <1>5
    <2>2. event[e].entity = Best(e).entity /\ event[e].at = Best(e).at
          /\ event[e].rank = Min({h.place : h \in Of(Best(e).entity)})
        BY <1>2, Zenon
    <2> QED BY <2>1, <2>2
<1> HIDE DEF event, Of, Event
<1>8. E = CollapsePerEntity(fused)
    BY <1>1, <1>2
<1>9. IsFiniteSet(E)
    <2>1. DOMAIN event = named
        BY DEF event
    <2> HIDE DEF named
    <2> QED BY <1>3, <2>1, ImageIsFinite
<1>10. \A x \in E : x.entity \in DOMAIN NodeOf /\ x.at \in Nat /\ x.rank \in Nat
    <2> SUFFICES ASSUME NEW e \in named
                 PROVE  /\ event[e].entity \in DOMAIN NodeOf
                        /\ event[e].at \in Nat /\ event[e].rank \in Nat
        OBVIOUS
    <2>1. IsFused(Best(e))
        BY <1>7
    <2>2. PICK g \in fused : g.entity = e /\ g.place = Min({h.place : h \in Of(e)})
        BY <1>6
    <2>3. IsFused(g)
        OBVIOUS
    <2> QED BY <1>7, <2>1, <2>2, <2>3 DEF IsFused
<1>11. \A x, y \in E : x.entity = y.entity => x = y
    <2> SUFFICES ASSUME NEW d \in named, NEW e \in named, event[d].entity = event[e].entity
                 PROVE  d = e
        OBVIOUS
    <2>1. event[d].entity = d /\ event[e].entity = e
        BY <1>7, Zenon
    <2> QED BY <2>1
<1>12. \A x, y \in E : x.rank = y.rank => x = y
    <2> SUFFICES ASSUME NEW d \in named, NEW e \in named, event[d].rank = event[e].rank
                 PROVE  d = e
        OBVIOUS
    <2>1. PICK f \in fused : f.entity = d /\ f.place = Min({h.place : h \in Of(d)})
        BY <1>6
    <2>2. PICK g \in fused : g.entity = e /\ g.place = Min({h.place : h \in Of(e)})
        BY <1>6
    <2>3. f.place = g.place
        BY <1>7, <2>1, <2>2
    <2> QED BY <2>1, <2>2, <2>3
<1>13. \A f \in fused : \E x \in E : x.entity = f.entity
    BY <1>7
<1> HIDE DEF E
<1> QED BY <1>8, <1>9, <1>10, <1>11, <1>12, <1>13 DEF IsEventList
-------------------------------------------------------------------------------
(* What a report of now is made of.                                         *)
Events == CollapsePerEntity(FusedByMetric(peak))

LEMMA EventsAre ==
    ASSUME IInv
    PROVE  /\ IsEventList(Events)
           /\ \A f \in FusedByMetric(peak) : \E x \in Events : x.entity = f.entity
BY PeakSnaps, FusedAre, CollapsedAre DEF Events

LEMMA EventListIsPlaced ==
    ASSUME NEW events, IsEventList(events)
    PROVE  Placed(events)
BY DEF IsEventList, Placed

(* _tag_scenarios() leaves an incident as it is, and gives it the first of  *)
(* the labels that it touches.                                              *)
Hits(inc) == {i \in DOMAIN Labels : Touches(inc, Labels[i])}

LEMMA TagsAre ==
    ASSUME NEW C
    PROVE  /\ {inc.events : inc \in TagScenarios(C)} = {inc.events : inc \in C}
           /\ \A inc \in TagScenarios(C) :
                 /\ \E cause \in C : inc.events = cause.events /\ inc.root = cause.root
                 /\ inc.scenario = IF Hits(inc) = {} THEN None
                                   ELSE Labels[Min(Hits(inc))].scenario
<1> DEFINE Tag(inc) == [events   |-> inc.events,
                        root     |-> inc.root,
                        issue    |-> inc.issue,
                        risk     |-> inc.risk,
                        tti      |-> inc.tti,
                        scenario |-> IF Hits(inc) = {} THEN None
                                     ELSE Labels[Min(Hits(inc))].scenario]
<1>1. TagScenarios(C) = {Tag(inc) : inc \in C}
    BY Zenon DEF TagScenarios, Hits
<1>2. \A inc : /\ Tag(inc).events = inc.events /\ Tag(inc).root = inc.root
              /\ Tag(inc).scenario = IF Hits(inc) = {} THEN None
                                     ELSE Labels[Min(Hits(inc))].scenario
    OBVIOUS
<1>3. \A inc : Hits(Tag(inc)) = Hits(inc)
    BY <1>2, Zenon DEF Hits, Touches
<1> HIDE DEF Tag
<1> QED BY <1>1, <1>2, <1>3

LEMMA ReportParts ==
    ASSUME NEW pk, NEW r, r = Report(pk), NEW events,
           events = CollapsePerEntity(FusedByMetric(pk))
    PROVE  /\ r.incidents = TagScenarios(CorrelateToIncidents(events))
           /\ r.evals = {Evaluate(label, r.incidents) : label \in ToSet(Labels)}
           /\ {inc.events : inc \in r.incidents} = Groups(events)
           /\ EventsOf(r) = events
<1> DEFINE C == CorrelateToIncidents(events)
<1>1. /\ r.incidents = TagScenarios(C)
      /\ r.evals = {Evaluate(label, r.incidents) : label \in ToSet(Labels)}
    BY Zenon DEF Report
<1>2. {inc.events : inc \in C} = Groups(events)
    <2>1. C = {Incident(group) : group \in Groups(events)}
        BY DEF CorrelateToIncidents
    <2>2. \A group : Incident(group).events = group
        BY DEF Incident
    <2> HIDE DEF C
    <2> QED BY <2>1, <2>2
<1>3. {inc.events : inc \in r.incidents} = {inc.events : inc \in C}
    <2> HIDE DEF C
    <2> QED BY <1>1, TagsAre
<1>4. UNION Groups(events) = events
    BY ComponentHasItsEvent DEF Groups
<1>5. EventsOf(r) = UNION {inc.events : inc \in r.incidents}
    BY DEF EventsOf
<1> HIDE DEF C
<1> QED BY <1>1, <1>2, <1>3, <1>4, <1>5 DEF C

LEMMA ReportIs ==
    ASSUME IInv, Current
    PROVE  /\ report.incidents = TagScenarios(CorrelateToIncidents(Events))
           /\ report.evals = {Evaluate(label, report.incidents) : label \in ToSet(Labels)}
           /\ {inc.events : inc \in report.incidents} = Groups(Events)
           /\ EventsOf(report) = Events
<1>1. report = Report(peak)
    BY DEF IInv, ReportInv
<1>2. PICK pk, r, events : pk = peak /\ r = report /\ events = Events
    OBVIOUS
<1>3. r = Report(pk) /\ events = CollapsePerEntity(FusedByMetric(pk))
    BY <1>1, <1>2 DEF Events
<1>4. /\ r.incidents = TagScenarios(CorrelateToIncidents(events))
      /\ r.evals = {Evaluate(label, r.incidents) : label \in ToSet(Labels)}
      /\ {inc.events : inc \in r.incidents} = Groups(events)
      /\ EventsOf(r) = events
    BY <1>3, ReportParts
<1> QED BY <1>2, <1>4

(* An entity with a fused risk is in exactly one incident of a report, and  *)
(* the incidents of a report are groups of what is close, whatever the      *)
(* topology and however long the chains of events: a report that is current *)
(* is the one of the snapshots as they are, and its events are one for each *)
(* entity.                                                                  *)
THEOREM IncidentsArePartition == Spec => []IncidentsPartition
<1>1. IInv => IncidentsPartition
    <2> SUFFICES ASSUME IInv, Current
                 PROVE  /\ AreIncidentGroups({inc.events : inc \in report.incidents},
                                             EventsOf(report))
                        /\ \A fused \in FusedByMetric(peak) :
                              Cardinality({e \in EventsOf(report) : e.entity = fused.entity}) = 1
        BY DEF IncidentsPartition
    <2>1. /\ {inc.events : inc \in report.incidents} = Groups(Events)
          /\ EventsOf(report) = Events
        BY ReportIs
    <2>2. AreIncidentGroups(Groups(Events), Events)
        BY EventsAre, EventListIsPlaced, GroupsAreIncidentGroups
    <2>3. ASSUME NEW fused \in FusedByMetric(peak)
          PROVE  Cardinality({e \in Events : e.entity = fused.entity}) = 1
        <3>1. PICK x \in Events : x.entity = fused.entity
            BY EventsAre
        <3>2. {e \in Events : e.entity = fused.entity} = {x}
            BY <3>1, EventsAre DEF IsEventList
        <3> QED BY <3>2, FS_Singleton
    <2> QED BY <2>1, <2>2, <2>3
<1> QED BY <1>1, PipelineInductive, PTL
-------------------------------------------------------------------------------
LEMMA MaxOfTwo ==
    ASSUME NEW a \in Int, NEW b \in Int
    PROVE  Max({a, b}) = IF a >= b THEN a ELSE b
<1> DEFINE S == {a, b}
<1>1. \E x \in S : \A y \in S : x >= y
    OBVIOUS
<1>2. Max(S) \in S /\ \A y \in S : Max(S) >= y
    BY <1>1, Zenon DEF Max
<1>3. a \in S /\ b \in S /\ \A y \in S : y = a \/ y = b
    OBVIOUS
<1> DEFINE m == Max(S)
<1>4. m >= a /\ m >= b /\ (m = a \/ m = b)
    <2> HIDE DEF S
    <2> QED BY <1>2, <1>3, Zenon
<1> HIDE DEF m
<1>5. m = IF a >= b THEN a ELSE b
    BY <1>4
<1> QED BY <1>5, Zenon DEF m

(* The extrema of what a function makes of a finite set.                    *)
LEMMA ExtremaAre ==
    ASSUME NEW D, IsFiniteSet(D), D # {}, NEW raw \in [D -> Nat]
    PROVE  /\ Min({raw[x] : x \in D}) \in Nat
           /\ Max({raw[x] : x \in D}) \in Nat
           /\ \A x \in D : Min({raw[y] : y \in D}) <= raw[x] /\ raw[x] <= Max({raw[y] : y \in D})
<1> DEFINE V == {raw[x] : x \in D}
<1>1. IsFiniteSet(V)
    BY ImageIsFinite
<1>2. V \in SUBSET Int /\ V # {} /\ V \subseteq Nat /\ \A x \in D : raw[x] \in V
    OBVIOUS
<1> HIDE DEF V
<1>3. Min(V) \in V /\ Max(V) \in V /\ \A v \in V : Min(V) <= v /\ v <= Max(V)
    BY <1>1, <1>2, FiniteMin, FiniteMax
<1>4. Min(V) \in Nat /\ Max(V) \in Nat /\ \A x \in D : Min(V) <= raw[x] /\ raw[x] <= Max(V)
    BY <1>2, <1>3
<1> QED BY <1>4 DEF V

(* _minmax_norm stays above its floor.                                      *)
LEMMA NormIs ==
    ASSUME NEW D, IsFiniteSet(D), D # {}, NEW raw \in [D -> Nat], NEW floor \in 0..1000,
           NEW x \in D
    PROVE  MinMaxNorm(raw, floor)[x] \in Nat /\ MinMaxNorm(raw, floor)[x] >= floor
<1> DEFINE lo == Min({raw[y] : y \in D})
           hi == Max({raw[y] : y \in D})
<1>1. DOMAIN raw = D
    OBVIOUS
<1>2. MinMaxNorm(raw, floor)
         = [y \in DOMAIN raw |-> IF hi = lo THEN 1000
                                 ELSE floor + ((1000 - floor) * (raw[y] - lo)) \div (hi - lo)]
    BY <1>1, SMT DEF MinMaxNorm
<1>3. lo \in Nat /\ hi \in Nat /\ raw[x] \in Nat /\ lo <= raw[x] /\ raw[x] <= hi
    BY ExtremaAre
<1> HIDE DEF lo, hi
<1>4. CASE hi = lo
    BY <1>1, <1>2, <1>4
<1>5. CASE hi # lo
    <2> DEFINE p == (1000 - floor) * (raw[x] - lo)
               k == hi - lo
    <2>1. k \in Nat \ {0} /\ raw[x] - lo \in Nat /\ 1000 - floor \in Nat
        BY <1>3, <1>5
    <2>2. p \in Nat
        BY <2>1
    <2>3. MinMaxNorm(raw, floor)[x] = floor + p \div k
        BY <1>1, <1>2, <1>5
    <2> HIDE DEF p, k
    <2>4. p \div k \in Nat
        BY <2>1, <2>2
    <2> QED BY <2>3, <2>4
<1> QED BY <1>4, <1>5

(* A group of events: one of correlate_events().                            *)
IsGroup(group) == IsEventList(group) /\ group # {}

(* No event is less than a twentieth central.                               *)
LEMMA CentralityIs ==
    ASSUME NEW group, IsGroup(group), NEW e \in group
    PROVE  TopologyCentrality(group)[e] \in Nat /\ TopologyCentrality(group)[e] >= 50
<1>1. CASE \A f \in group : NodeOf[f.entity] = None
    <2>1. TopologyCentrality(group) = [f \in group |-> 500]
        BY <1>1, Zenon DEF TopologyCentrality
    <2> QED BY <2>1
<1>2. CASE ~\A f \in group : NodeOf[f.entity] = None
    <2> DEFINE raw == [f \in group |-> IF NodeOf[f.entity] = None THEN 0
                                       ELSE Centrality[NodeOf[f.entity]]]
    <2>1. TopologyCentrality(group) = MinMaxNorm(raw, 50)
        BY <1>2, Zenon DEF TopologyCentrality
    <2>2. raw \in [group -> Nat]
        <3> SUFFICES ASSUME NEW f \in group PROVE raw[f] \in Nat
            OBVIOUS
        <3>1. NodeOf[f.entity] \in Nodes \cup {None}
            BY NodeAssumption DEF IsGroup, IsEventList
        <3> QED BY <3>1, NodeAssumption
    <2> HIDE DEF raw
    <2>3. IsFiniteSet(group) /\ group # {} /\ 50 \in 0..1000
        BY DEF IsGroup, IsEventList
    <2>4. MinMaxNorm(raw, 50)[e] \in Nat /\ MinMaxNorm(raw, 50)[e] >= 50
        BY <2>2, <2>3, NormIs, SMTT(30)
    <2> QED BY <2>1, <2>4
<1> QED BY <1>1, <1>2

(* The earlier of two events has no lower an onset score.                   *)
LEMMA OnsetIs ==
    ASSUME NEW group, IsGroup(group), NEW e \in group, NEW f \in group, e.at <= f.at
    PROVE  /\ OnsetScores(group)[e] \in Int
           /\ OnsetScores(group)[f] \in Int
           /\ OnsetScores(group)[f] <= OnsetScores(group)[e]
           /\ e.at = f.at => OnsetScores(group)[f] = OnsetScores(group)[e]
<1> DEFINE raw == [g \in group |-> g.at]
           first == Min({g.at : g \in group})
           last == Max({g.at : g \in group})
<1>1. OnsetScores(group) = [g \in group |-> IF first = last THEN 1000
                               ELSE 1000 - (1000 * (g.at - first)) \div (last - first)]
    BY SMT DEF OnsetScores
<1>2. raw \in [group -> Nat] /\ \A g \in group : raw[g] = g.at
    BY DEF IsGroup, IsEventList
<1>3. {raw[g] : g \in group} = {g.at : g \in group}
    BY <1>2
<1>4. IsFiniteSet(group) /\ group # {}
    BY DEF IsGroup, IsEventList
<1> HIDE DEF raw
<1>5. first \in Nat /\ last \in Nat /\ \A g \in group : first <= g.at /\ g.at <= last
    BY <1>2, <1>3, <1>4, ExtremaAre, SMTT(30)
<1>6. e.at \in Nat /\ f.at \in Nat
    BY <1>2
<1> HIDE DEF first, last
<1>7. CASE first = last
    BY <1>1, <1>7
<1>8. CASE first # last
    <2> DEFINE k == last - first
               a == 1000 * (e.at - first)
               b == 1000 * (f.at - first)
    <2>1. k \in Nat \ {0} /\ a \in Int /\ b \in Int /\ a <= b
        BY <1>5, <1>6, <1>8
    <2>2. OnsetScores(group)[e] = 1000 - a \div k /\ OnsetScores(group)[f] = 1000 - b \div k
        BY <1>1, <1>8
    <2>3. e.at = f.at => a = b
        OBVIOUS
    <2> HIDE DEF a, b, k
    <2>4. a \div k <= b \div k /\ a \div k \in Int /\ b \div k \in Int
        BY <2>1, QuotientGrows
    <2> QED BY <2>2, <2>3, <2>4
<1> QED BY <1>7, <1>8

(* No series has a cause, so none is told from another by it.               *)
LEMMA CausalityIs ==
    ASSUME NEW group, IsGroup(group), NEW e \in group, NEW f \in group
    PROVE  /\ GrangerCausalScores(group)[e] \in Nat
           /\ GrangerCausalScores(group)[e] >= 50
           /\ GrangerCausalScores(group)[f] = GrangerCausalScores(group)[e]
<1> DEFINE neutral == [g \in group |-> 500]
<1>1. GrangerCausalScores(group) = IF Cardinality(group) < 2 THEN neutral
                                   ELSE MinMaxNorm(neutral, 250)
    BY Zenon DEF GrangerCausalScores
<1>2. CASE Cardinality(group) < 2
    BY <1>1, <1>2
<1>3. CASE ~(Cardinality(group) < 2)
    <2> DEFINE lo == Min({neutral[y] : y \in DOMAIN neutral})
               hi == Max({neutral[y] : y \in DOMAIN neutral})
    <2>1. MinMaxNorm(neutral, 250)
            = [y \in DOMAIN neutral |-> IF hi = lo THEN 1000
                  ELSE 250 + ((1000 - 250) * (neutral[y] - lo)) \div (hi - lo)]
        BY SMT DEF MinMaxNorm
    <2>2. IsFiniteSet(group) /\ neutral \in [group -> Nat] /\ 250 \in 0..1000
        BY DEF IsGroup, IsEventList
    <2>3. DOMAIN neutral = group /\ neutral[e] = 500 /\ neutral[f] = 500
        OBVIOUS
    <2> HIDE DEF neutral
    <2>4. MinMaxNorm(neutral, 250)[e] \in Nat /\ MinMaxNorm(neutral, 250)[e] >= 250
        BY <2>2, NormIs
    <2> HIDE DEF lo, hi
    <2>5. MinMaxNorm(neutral, 250)[f] = MinMaxNorm(neutral, 250)[e]
        BY <2>1, <2>3
    <2> QED BY <1>1, <1>3, <2>4, <2>5
<1> QED BY <1>2, <1>3

(* The score of an event: the product of its three factors.                 *)
LEMMA ScoreIs ==
    ASSUME NEW group, IsGroup(group), NEW e \in group,
           NEW t \in Nat, t = TopologyCentrality(group)[e],
           NEW o \in Int, o = OnsetScores(group)[e],
           NEW c \in Nat, c = GrangerCausalScores(group)[e]
    PROVE  Score(e, group) = t * (IF o >= 50 THEN o ELSE 50) * c
<1>1. Score(e, group) = Max({t, 50}) * Max({o, 50}) * Max({c, 50})
    BY Zenon DEF Score
<1>2. t >= 50 /\ c >= 50
    BY CentralityIs, CausalityIs
<1>3. Max({t, 50}) = t /\ Max({c, 50}) = c /\ Max({o, 50}) = IF o >= 50 THEN o ELSE 50
    <2>1. 50 \in Int /\ t \in Int /\ c \in Int
        OBVIOUS
    <2>2. /\ Max({t, 50}) = IF t >= 50 THEN t ELSE 50
          /\ Max({c, 50}) = IF c >= 50 THEN c ELSE 50
          /\ Max({o, 50}) = IF o >= 50 THEN o ELSE 50
        BY <2>1, MaxOfTwo
    <2> QED BY <1>2, <2>2
<1> QED BY <1>1, <1>3

(* Of two events, one that is no later and no less central has no lower a   *)
(* score, and a higher one if it is more central.                           *)
LEMMA ScoreGrows ==
    ASSUME NEW group, IsGroup(group), NEW e \in group, NEW f \in group, e.at <= f.at,
           TopologyCentrality(group)[f] <= TopologyCentrality(group)[e]
    PROVE  /\ Score(e, group) \in Nat /\ Score(f, group) \in Nat
           /\ Score(f, group) <= Score(e, group)
           /\ TopologyCentrality(group)[f] < TopologyCentrality(group)[e]
                 => Score(f, group) < Score(e, group)
<1> DEFINE te == TopologyCentrality(group)[e]
           tf == TopologyCentrality(group)[f]
           oe == OnsetScores(group)[e]
           of == OnsetScores(group)[f]
           c == GrangerCausalScores(group)[e]
           pe == IF oe >= 50 THEN oe ELSE 50
           pf == IF of >= 50 THEN of ELSE 50
<1>1. te \in Nat /\ tf \in Nat /\ tf <= te
    BY CentralityIs
<1>2. oe \in Int /\ of \in Int /\ of <= oe
    BY OnsetIs
<1>3. c \in Nat /\ c >= 50 /\ GrangerCausalScores(group)[f] = c
    BY CausalityIs
<1>4. Score(e, group) = te * pe * c /\ Score(f, group) = tf * pf * c
    <2> HIDE DEF te, tf, oe, of, c
    <2>1. Score(e, group) = te * (IF oe >= 50 THEN oe ELSE 50) * c
        BY <1>1, <1>2, <1>3, ScoreIs DEF te, oe, c
    <2>2. Score(f, group) = tf * (IF of >= 50 THEN of ELSE 50) * c
        BY <1>1, <1>2, <1>3, ScoreIs DEF tf, of, c
    <2> QED BY <2>1, <2>2
<1> HIDE DEF te, tf, oe, of, c
<1>5. pe \in Nat /\ pf \in Nat /\ pf <= pe /\ pf >= 50
    BY <1>2
<1> HIDE DEF pe, pf
<1>6. tf * pf <= te * pe /\ tf * pf \in Nat /\ te * pe \in Nat
    BY <1>1, <1>5, ProductGrows
<1>7. tf < te => tf * pf < te * pe
    <2> SUFFICES ASSUME tf < te PROVE tf * pf < te * pe
        OBVIOUS
    <2>1. (tf + 1) * pf <= te * pe
        BY <1>1, <1>5, ProductGrows
    <2>2. (tf + 1) * pf = tf * pf + pf
        BY <1>1, <1>5
    <2> DEFINE x == tf * pf
               y == te * pe
    <2>3. x \in Nat /\ y \in Nat /\ x + pf <= y
        BY <1>6, <2>1, <2>2
    <2> HIDE DEF x, y
    <2>4. x < y
        BY <1>5, <2>3
    <2> QED BY <2>4 DEF x, y
<1> DEFINE x == tf * pf
           y == te * pe
<1>8. x \in Nat /\ y \in Nat /\ x <= y /\ (tf < te => x < y)
    BY <1>6, <1>7
<1>9. Score(e, group) = y * c /\ Score(f, group) = x * c
    BY <1>4
<1> HIDE DEF x, y
<1>10. x * c \in Nat /\ y * c \in Nat /\ x * c <= y * c
    BY <1>3, <1>8, ProductGrows
<1>11. x < y => x * c < y * c
    <2> SUFFICES ASSUME x < y PROVE x * c < y * c
        OBVIOUS
    <2>1. (x + 1) * c <= y * c
        BY <1>3, <1>8, ProductGrows
    <2>2. (x + 1) * c = x * c + c
        BY <1>3, <1>8
    <2> DEFINE u == x * c
               v == y * c
    <2>3. u \in Nat /\ v \in Nat /\ u + c <= v
        BY <1>10, <2>1, <2>2
    <2> HIDE DEF u, v
    <2>4. u < v
        BY <1>3, <2>3
    <2> QED BY <2>4 DEF u, v
<1>12. tf < te => x < y
    BY <1>8
<1>13. /\ Score(e, group) \in Nat /\ Score(f, group) \in Nat
       /\ Score(f, group) <= Score(e, group)
       /\ tf < te => Score(f, group) < Score(e, group)
    BY <1>9, <1>10, <1>11, <1>12
<1> QED BY <1>13 DEF te, tf

(* rank_root_causes() has a first event, above which nothing is ranked.     *)
LEMMA RootIs ==
    ASSUME NEW group, IsGroup(group)
    PROVE  /\ Root(group) \in group
           /\ \A f \in group \ {Root(group)} :
                 \/ Score(Root(group), group) > Score(f, group)
                 \/ Score(Root(group), group) = Score(f, group) /\ Earlier(Root(group), f)
<1> DEFINE Above(e, f) == \/ Score(e, group) > Score(f, group)
                          \/ Score(e, group) = Score(f, group) /\ Earlier(e, f)
           R == {p \in group \X group : Above(p[1], p[2])}
<1>1. \A e \in group : Score(e, group) \in Nat
    <2> SUFFICES ASSUME NEW e \in group PROVE Score(e, group) \in Nat
        OBVIOUS
    <2>1. e.at <= e.at /\ TopologyCentrality(group)[e] <= TopologyCentrality(group)[e]
        BY CentralityIs DEF IsGroup, IsEventList
    <2> QED BY <2>1, ScoreGrows
<1>2. /\ IsFiniteSet(group) /\ group # {}
      /\ \A e \in group : e.at \in Nat /\ e.rank \in Nat
      /\ \A e, f \in group : e.rank = f.rank => e = f
    BY DEF IsGroup, IsEventList
<1>3. \A e, f \in group : <<e, f>> \in R <=> Above(e, f)
    OBVIOUS
<1> HIDE DEF R
<1>4. IsStrictOrder(R, group)
    BY <1>1, <1>2, <1>3 DEF IsStrictOrder, Earlier
<1>5. IsTotal(R, group)
    BY <1>1, <1>2, <1>3 DEF IsTotal, Earlier
<1>6. \E e \in group : \A f \in group \ {e} : <<e, f>> \in R
    BY <1>2, <1>4, <1>5, FirstExists
<1>7. \E e \in group : \A f \in group \ {e} : Above(e, f)
    BY <1>3, <1>6
<1> QED BY <1>7 DEF Root

(* The root cause of an incident dominates, whatever the centralities and   *)
(* however close the onsets: no event of the incident is at least as early  *)
(* and as central and better in one of both.                                *)
THEOREM RootsDominate == Spec => []RootDominates
<1>1. IInv => RootDominates
    <2> SUFFICES ASSUME IInv, Current, NEW inc \in report.incidents,
                        NEW e \in inc.events, NEW root \in inc.events,
                        root.entity = inc.root, e # root, e.at <= root.at,
                        TopologyCentrality(inc.events)[e]
                           - TopologyCentrality(inc.events)[root] >= 0,
                        \/ e.at < root.at
                        \/ TopologyCentrality(inc.events)[e]
                              - TopologyCentrality(inc.events)[root] > 0
                 PROVE  FALSE
        BY DEF RootDominates
    <2> DEFINE group == inc.events
    <2>1. group \in Groups(Events) /\ inc.root = Root(group).entity
        <3> DEFINE C == CorrelateToIncidents(Events)
        <3>1. PICK cause \in C : inc.events = cause.events /\ inc.root = cause.root
            BY ReportIs, TagsAre
        <3>2. PICK g \in Groups(Events) : cause = Incident(g)
            BY DEF CorrelateToIncidents
        <3>3. cause.events = g /\ cause.root = Root(g).entity
            BY <3>2 DEF Incident
        <3> QED BY <3>1, <3>3
    <2>2. IsGroup(group)
        <3>1. group \subseteq Events /\ group # {}
            BY <2>1, ComponentHasItsEvent DEF Groups
        <3>2. IsEventList(Events)
            BY EventsAre
        <3>3. IsFiniteSet(group)
            BY <3>1, <3>2, FS_Subset DEF IsEventList
        <3> HIDE DEF group
        <3> QED BY <3>1, <3>2, <3>3 DEF IsEventList, IsGroup
    <2>3. e \in group /\ root \in group
        OBVIOUS
    <2>4. /\ TopologyCentrality(group)[e] \in Nat
          /\ TopologyCentrality(group)[root] \in Nat
          /\ e.at \in Nat /\ root.at \in Nat
        BY <2>2, <2>3, CentralityIs DEF IsGroup, IsEventList
    <2>5. TopologyCentrality(group)[root] <= TopologyCentrality(group)[e]
        BY <2>4
    <2>6. /\ Score(e, group) \in Nat /\ Score(root, group) \in Nat
          /\ Score(root, group) <= Score(e, group)
          /\ TopologyCentrality(group)[root] < TopologyCentrality(group)[e]
                => Score(root, group) < Score(e, group)
        BY <2>2, <2>3, <2>5, ScoreGrows
    <2>7. root = Root(group)
        BY <2>1, <2>2, RootIs DEF IsGroup, IsEventList
    <2>8. Score(root, group) = Score(e, group) /\ Earlier(root, e)
        BY <2>2, <2>6, <2>7, RootIs
    <2>9. root.at <= e.at
        BY <2>4, <2>8 DEF Earlier
    <2> QED BY <2>4, <2>6, <2>8, <2>9
<1> QED BY <1>1, PipelineInductive, PTL
-------------------------------------------------------------------------------
(* The labels, one for each scenario.                                       *)
LEMMA LabelIs ==
    ASSUME NEW label \in ToSet(Labels)
    PROVE  /\ label.precursor \in Int /\ label.fault \in Int /\ label.end \in Int
           /\ label.fault <= label.end
           /\ label.scenario # None
           /\ \E j \in DOMAIN Labels : label = Labels[j]
<1>1. PICK j \in DOMAIN Labels : label = Labels[j]
    BY DEF ToSet
<1> QED BY <1>1, LabelAssumption

(* An incident that is tagged with a label's scenario is on its device.     *)
LEMMA TaggedTouches ==
    ASSUME NEW C, NEW inc \in TagScenarios(C), NEW label \in ToSet(Labels),
           inc.scenario = label.scenario
    PROVE  Touches(inc, label)
<1>1. Hits(inc) # {} /\ Labels[Min(Hits(inc))].scenario = label.scenario
    BY LabelIs, TagsAre
<1>2. Hits(inc) \in SUBSET Nat
    <2>1. DOMAIN Labels \subseteq Nat
        BY LabelAssumption
    <2> QED BY <2>1 DEF Hits
<1>3. Min(Hits(inc)) \in Hits(inc)
    BY <1>1, <1>2, MinOf
<1>4. PICK j \in DOMAIN Labels : label = Labels[j]
    BY LabelIs
<1>5. Min(Hits(inc)) = j
    <2>1. Min(Hits(inc)) \in DOMAIN Labels
        BY <1>3 DEF Hits
    <2> QED BY <1>1, <1>4, <2>1, LabelAssumption
<1> QED BY <1>3, <1>4, <1>5 DEF Hits

(* The records of a label's device that alone deserve an alert in time.     *)
AlertsOf(label) == {i \in DOMAIN log :
                       /\ log[i].stream # None
                       /\ SameDevice(log[i].entity, label.target)
                       /\ Risk(log[i].scores, log[i].fired, {}) >= AlertRisk
                       /\ log[i].at \in label.precursor..(label.fault - 1)}

LEMMA LogIs ==
    ASSUME IInv, NEW i \in DOMAIN log, log[i].stream # None
    PROVE  /\ log[i] \in ToSet(log)
           /\ log[i].entity \in Entities /\ log[i].at \in Nat
           /\ Risk(log[i].scores, log[i].fired, {}) \in Nat
           /\ TopScore(log[i].scores) \in Nat
           /\ Risk(log[i].scores, log[i].fired, {}) <= TopScore(log[i].scores)
<1> DEFINE l == log[i]
<1>1. l \in Entry
    BY StateIs, ElementIs
<1>2. l \in ToSet(log)
    BY DEF ToSet
<1> HIDE DEF l
<1>3. l.stream # None
    BY DEF l
<1>4. l.entity \in Entities /\ l.at \in Nat /\ l.scores \in Scorings
    BY <1>1, <1>3 DEF Entry
<1>5. IsScoring(l.scores) /\ AtMostOne({})
    BY <1>4 DEF Scorings, AtMostOne
<1>6. /\ Risk(l.scores, l.fired, {}) \in Nat /\ TopScore(l.scores) \in Nat
      /\ Risk(l.scores, l.fired, {}) <= TopScore(l.scores)
    BY <1>5, RiskRange, TopScoreIs
<1> QED BY <1>2, <1>4, <1>6 DEF l

(* The points on the timelines of a label's device are those of its lit     *)
(* ticks.                                                                   *)
LEMMA PointsForAre ==
    ASSUME IInv, NEW label
    PROVE  PointsFor(label)
              = UNION {PointsOf(Lit(ToSet(log), e)) :
                          e \in {f \in Entities : SameDevice(f, label.target)}}
<1>1. \A e \in Entities : ToSet(timeline[e]) = PointsOf(Lit(ToSet(log), e))
    BY StateIs
<1> QED BY <1>1 DEF PointsFor

(* The timeline has just the alerts that the records deserve: a tick that   *)
(* is too quiet to be on it has no risk of an alert.                        *)
LEMMA AlertsAre ==
    ASSUME IInv, NEW label \in ToSet(Labels)
    PROVE  {p.at : p \in {q \in {p \in PointsFor(label) : p.at <= label.end} :
                             /\ q.risk >= AlertRisk
                             /\ label.precursor <= q.at
                             /\ q.at < label.fault}}
              = {log[i].at : i \in AlertsOf(label)}
<1> DEFINE Q == {q \in {p \in PointsFor(label) : p.at <= label.end} :
                    /\ q.risk >= AlertRisk
                    /\ label.precursor <= q.at
                    /\ q.at < label.fault}
<1>1. /\ label.precursor \in Int /\ label.fault \in Int /\ label.end \in Int
      /\ label.fault <= label.end
    BY LabelIs
<1>2. ASSUME NEW q \in Q PROVE \E i \in AlertsOf(label) : log[i].at = q.at
    <2>1. PICK e \in Entities : /\ SameDevice(e, label.target)
                                /\ q \in PointsOf(Lit(ToSet(log), e))
        BY PointsForAre
    <2>2. PICK l \in Lit(ToSet(log), e) : q = RiskPoint(l, l.fired, l.at)
        BY <2>1 DEF PointsOf
    <2>3. PICK i \in DOMAIN log : l = log[i] /\ log[i].stream # None /\ log[i].entity = e
        BY <2>2 DEF Lit, ToSet
    <2>4. q.at = log[i].at /\ q.risk = Risk(log[i].scores, log[i].fired, {})
        BY <2>2, <2>3, Zenon DEF RiskPoint
    <2>5. log[i].at \in Nat
        BY <2>3, LogIs
    <2>6. q.risk >= AlertRisk /\ label.precursor <= q.at /\ q.at < label.fault
        OBVIOUS
    <2> HIDE DEF Q
    <2>7. log[i].at \in label.precursor..(label.fault - 1)
        BY <1>1, <2>4, <2>5, <2>6
    <2>8. i \in AlertsOf(label)
        BY <2>1, <2>3, <2>4, <2>6, <2>7 DEF AlertsOf
    <2> QED BY <2>4, <2>8
<1>3. ASSUME NEW i \in AlertsOf(label) PROVE \E q \in Q : q.at = log[i].at
    <2>1. /\ i \in DOMAIN log
          /\ log[i].stream # None
          /\ SameDevice(log[i].entity, label.target)
          /\ Risk(log[i].scores, log[i].fired, {}) >= AlertRisk
          /\ log[i].at \in label.precursor..(label.fault - 1)
        BY DEF AlertsOf
    <2> DEFINE q == RiskPoint(log[i], log[i].fired, log[i].at)
    <2>2. q.at = log[i].at /\ q.risk = Risk(log[i].scores, log[i].fired, {})
        BY Zenon DEF RiskPoint
    <2>3. TopScore(log[i].scores) >= TimelineFloor
        BY <2>1, LogIs, FloorAssumption, LimitsAre
    <2>4. log[i] \in Lit(ToSet(log), log[i].entity)
        BY <2>1, <2>3, LogIs DEF Lit
    <2>5. q \in PointsOf(Lit(ToSet(log), log[i].entity))
        BY <2>4 DEF PointsOf
    <2> HIDE DEF q
    <2>6. q \in PointsFor(label)
        BY <2>1, <2>5, PointsForAre, LogIs
    <2>7. q.at <= label.end /\ label.precursor <= q.at /\ q.at < label.fault
        BY <1>1, <2>1, <2>2, LogIs
    <2> QED BY <2>1, <2>2, <2>6, <2>7
<1> HIDE DEF Q
<1>4. {p.at : p \in Q} = {log[i].at : i \in AlertsOf(label)}
    BY <1>2, <1>3
<1> QED BY <1>4 DEF Q

(* The evaluation of a label is exact, however many records were too quiet  *)
(* to be on the timeline and however many labels' devices an incident is    *)
(* on: the lead time runs from the first record that deserves an alert, and *)
(* incidents are credited to the label if and only if they are on its       *)
(* device.                                                                  *)
THEOREM EvaluationsAreExact == Spec => []EvaluationIsExact
<1>1. IInv => EvaluationIsExact
    <2> SUFFICES ASSUME IInv, Current, NEW eval \in report.evals
                 PROVE  /\ eval.lead = IF AlertsOf(eval.label) = {} THEN None
                              ELSE eval.label.fault
                                      - Min({log[i].at : i \in AlertsOf(eval.label)})
                        /\ eval.credited = {}
                              <=> \A inc \in report.incidents : ~Touches(inc, eval.label)
                        /\ \A inc \in eval.credited : Touches(inc, eval.label)
        BY Zenon DEF EvaluationIsExact, AlertsOf
    <2>1. PICK label \in ToSet(Labels) : eval = Evaluate(label, report.incidents)
        BY ReportIs
    <2> DEFINE alerts == {p.at : p \in {q \in {p \in PointsFor(label) : p.at <= label.end} :
                             /\ q.risk >= AlertRisk
                             /\ label.precursor <= q.at
                             /\ q.at < label.fault}}
    <2>2. /\ eval.label = label
          /\ eval.lead = IF alerts = {} THEN None ELSE label.fault - Min(alerts)
          /\ eval.credited = IncidentsForScenario(label, report.incidents)
        BY <2>1, Zenon DEF Evaluate
    <2>3. alerts = {log[i].at : i \in AlertsOf(label)}
        BY AlertsAre
    <2> HIDE DEF alerts
    <2>4. alerts = {} <=> AlertsOf(label) = {}
        BY <2>3
    <2>5. \A inc \in report.incidents :
              inc.scenario = label.scenario => Touches(inc, label)
        BY ReportIs, TaggedTouches
    <2> DEFINE tagged == {inc \in report.incidents : inc.scenario = label.scenario}
    <2>6. eval.credited = IF tagged # {} THEN tagged
                          ELSE {inc \in report.incidents : Touches(inc, label)}
        BY <2>2, Zenon DEF IncidentsForScenario
    <2>7. /\ eval.credited = {} <=> \A inc \in report.incidents : ~Touches(inc, label)
          /\ \A inc \in eval.credited : Touches(inc, label)
        BY <2>5, <2>6
    <2> QED BY <2>2, <2>3, <2>4, <2>7
<1> QED BY <1>1, PipelineInductive, PTL
-------------------------------------------------------------------------------
(* Two sequences with the same elements, and a part of a sequence.          *)
LEMMA SameSequence ==
    ASSUME NEW V, NEW p \in Seq(V), NEW q \in Seq(V), Len(p) = Len(q),
           \A i \in 1..Len(p) : p[i] = q[i]
    PROVE  p = q
OBVIOUS

LEMMA SliceIs ==
    ASSUME NEW V, NEW q \in Seq(V), NEW m \in Nat \ {0}, NEW n \in Nat, n <= Len(q)
    PROVE  /\ SubSeq(q, m, n) \in Seq(V)
           /\ Len(SubSeq(q, m, n)) = IF m <= n THEN (n - m) + 1 ELSE 0
           /\ \A i \in 1..((n - m) + 1) : SubSeq(q, m, n)[i] = q[(m + i) - 1]
OBVIOUS

(* A deque of the newest samples that one more is pushed to holds the       *)
(* newest again.                                                            *)
LEMMA NewestIs ==
    ASSUME NEW q \in Seq(SampleValues), NEW v \in SampleValues
    PROVE  Push(Newest(q), v) = Newest(Append(q, v))
<1> DEFINE n == Len(q)
           H == HistoryLen
           more == Append(q, v)
           old == Newest(q)
           longer == Append(old, v)
<1>1. /\ n \in Nat /\ H \in Nat /\ H > 0
      /\ more \in Seq(SampleValues) /\ Len(more) = n + 1
      /\ more[n + 1] = v /\ \A i \in 1..n : more[i] = q[i]
    BY LimitsAre
<1> HIDE DEF n, H, more
<1>2. old = SubSeq(q, IF 1 >= n - H + 1 THEN 1 ELSE n - H + 1, n)
    <2>1. 1 \in Int /\ n - H + 1 \in Int
        BY <1>1
    <2>2. Max({1, n - H + 1}) = IF 1 >= n - H + 1 THEN 1 ELSE n - H + 1
        BY <2>1, MaxOfTwo, Zenon
    <2> QED BY <2>2, Zenon DEF Newest, n, H
<1>3. Newest(more) = SubSeq(more, IF 1 >= (n + 1) - H + 1 THEN 1 ELSE (n + 1) - H + 1, n + 1)
    BY <1>1, MaxOfTwo DEF Newest, H
<1>4. CASE n + 1 <= H
    <2>1. old = SubSeq(q, 1, n) /\ Newest(more) = SubSeq(more, 1, n + 1)
        BY <1>1, <1>2, <1>3, <1>4
    <2>2. old \in Seq(SampleValues) /\ Len(old) = n /\ \A i \in 1..n : old[i] = q[i]
        <3> HIDE DEF old
        <3> QED BY <1>1, <2>1, SliceIs DEF n
    <2>3. Newest(more) \in Seq(SampleValues) /\ Len(Newest(more)) = n + 1
          /\ \A i \in 1..(n + 1) : Newest(more)[i] = more[i]
        BY <1>1, <2>1, SliceIs
    <2> HIDE DEF old
    <2>4. /\ longer \in Seq(SampleValues) /\ Len(longer) = n + 1
          /\ longer[n + 1] = v /\ \A i \in 1..n : longer[i] = q[i]
        BY <1>1, <2>2
    <2> HIDE DEF longer
    <2>5. \A i \in 1..(n + 1) : longer[i] = Newest(more)[i]
        BY <1>1, <2>3, <2>4
    <2>6. longer = Newest(more)
        BY <2>3, <2>4, <2>5, SameSequence
    <2>7. ~(Len(longer) > HistoryLen)
        BY <1>1, <1>4, <2>4 DEF H
    <2> QED BY <2>6, <2>7 DEF Push, longer, old, more
<1>5. CASE ~(n + 1 <= H)
    <2>1. old = SubSeq(q, n - H + 1, n) /\ Newest(more) = SubSeq(more, (n + 1) - H + 1, n + 1)
        BY <1>1, <1>2, <1>3, <1>5
    <2>2. old \in Seq(SampleValues) /\ Len(old) = H /\ \A i \in 1..H : old[i] = q[(n - H) + i]
        <3>1. n - H + 1 \in Nat \ {0} /\ (n - (n - H + 1)) + 1 = H /\ n - H + 1 <= n
              /\ \A i \in 1..H : ((n - H + 1) + i) - 1 = (n - H) + i
            BY <1>1, <1>5
        <3> HIDE DEF old
        <3> QED BY <1>1, <2>1, <3>1, SliceIs DEF n
    <2>3. Newest(more) \in Seq(SampleValues) /\ Len(Newest(more)) = H
          /\ \A i \in 1..H : Newest(more)[i] = more[(n - H) + i + 1]
        <3>1. /\ (n + 1) - H + 1 \in Nat \ {0} /\ ((n + 1) - ((n + 1) - H + 1)) + 1 = H
              /\ (n + 1) - H + 1 <= n + 1
              /\ \A i \in 1..H : (((n + 1) - H + 1) + i) - 1 = (n - H) + i + 1
            BY <1>1, <1>5
        <3> QED BY <1>1, <2>1, <3>1, SliceIs
    <2> HIDE DEF old
    <2>4. /\ longer \in Seq(SampleValues) /\ Len(longer) = H + 1
          /\ longer[H + 1] = v /\ \A i \in 1..H : longer[i] = q[(n - H) + i]
        BY <1>1, <2>2
    <2> HIDE DEF longer
    <2>5. /\ Tail(longer) \in Seq(SampleValues) /\ Len(Tail(longer)) = H
          /\ \A i \in 1..H : Tail(longer)[i] = longer[i + 1]
        BY <1>1, <2>4
    <2>6. \A i \in 1..H : Tail(longer)[i] = Newest(more)[i]
        <3> SUFFICES ASSUME NEW i \in 1..H PROVE longer[i + 1] = more[(n - H) + i + 1]
            BY <2>3, <2>5
        <3>1. CASE i = H
            BY <1>1, <2>4, <3>1
        <3>2. CASE i # H
            <4>1. i + 1 \in 1..H /\ (n - H) + i + 1 \in 1..n /\ (n - H) + (i + 1) = (n - H) + i + 1
                BY <1>1, <1>5, <3>2
            <4> QED BY <1>1, <2>4, <4>1
        <3> QED BY <3>1, <3>2
    <2>7. Tail(longer) = Newest(more)
        BY <2>3, <2>5, <2>6, SameSequence
    <2>8. Len(longer) > HistoryLen
        BY <1>1, <2>4 DEF H
    <2> QED BY <2>7, <2>8 DEF Push, longer, old, more
<1> QED BY <1>4, <1>5

(* An entry of the log that is a sample of a stream.                        *)
LEMMA EntryIs ==
    ASSUME NEW e \in Entry, NEW s \in Streams, e.stream = s
    PROVE  /\ e.value \in SampleValues /\ e.scores \in Scorings /\ e.at \in Nat
           /\ TopScore(e.scores) \in Nat
<1>1. e.value \in SampleValues /\ e.scores \in Scorings /\ e.at \in Nat
    BY NoneAssumption DEF Entry
<1> QED BY <1>1, TopScoreIs DEF Scorings

OneMore(entries, s, k, t) ==
    IF entries[k].stream = s THEN Append(t, entries[k].value) ELSE t

(* The samples of a stream among the first entries of a log.                *)
IsSamples(f, entries, s) ==
    /\ f \in [0..Len(entries) -> Seq(SampleValues)]
    /\ f[0] = <<>>
    /\ \A k \in 1..Len(entries) : f[k] = OneMore(entries, s, k, f[k - 1])
    /\ SamplesOf(entries, s) = f[Len(entries)]

LEMMA SamplesFold ==
    ASSUME NEW entries \in Seq(Entry), NEW s \in Streams
    PROVE  \E f : IsSamples(f, entries, s)
<1> DEFINE N == Len(entries)
           D == Seq(SampleValues)
           step == [k \in 1..N |-> [t \in D |-> OneMore(entries, s, k, t)]]
           B == CHOOSE upTo : upTo = [n \in 0..N |->
                    IF n = 0 THEN <<>>
                    ELSE IF entries[n].stream = s THEN Append(upTo[n - 1], entries[n].value)
                    ELSE upTo[n - 1]]
<1>1. N \in Nat /\ \A k \in 1..N : entries[k] \in Entry
    OBVIOUS
<1>2. \A k \in 1..N : \A t \in D : OneMore(entries, s, k, t) \in D
    <2> SUFFICES ASSUME NEW k \in 1..N, NEW t \in D PROVE OneMore(entries, s, k, t) \in D
        OBVIOUS
    <2>1. entries[k].stream = s => entries[k].value \in SampleValues
        BY <1>1, EntryIs
    <2> QED BY <2>1 DEF OneMore
<1>3. step \in [1..N -> [D -> D]] /\ <<>> \in D
    <2>1. <<>> \in D
        OBVIOUS
    <2> HIDE DEF D, N
    <2> QED BY <1>2, <2>1
<1>4. PICK f \in [0..N -> D] : \A k \in 0..N : f[k] = IF k = 0 THEN <<>> ELSE step[k][f[k - 1]]
    <2> HIDE DEF step, D, N
    <2>1. \E f \in [0..N -> D] : Folds(f, N, <<>>, step)
        BY <1>1, <1>3, Folding
    <2> QED BY <2>1 DEF Folds
<1>5. \A k \in 0..N : f[k] = IF k = 0 THEN <<>> ELSE OneMore(entries, s, k, f[k - 1])
    <2> SUFFICES ASSUME NEW k \in 0..N
        PROVE f[k] = IF k = 0 THEN <<>> ELSE OneMore(entries, s, k, f[k - 1])
        OBVIOUS
    <2> HIDE DEF D, N
    <2>1. k # 0 => k - 1 \in 0..N /\ k \in 1..N
        BY <1>1
    <2> QED BY <1>4, <2>1
<1>6. f = [k \in 0..N |->
             IF k = 0 THEN <<>>
             ELSE IF entries[k].stream = s THEN Append(f[k - 1], entries[k].value)
             ELSE f[k - 1]]
    <2> HIDE DEF N, D, step
    <2> QED BY <1>4, <1>5, Zenon DEF OneMore
<1>7. B = [k \in 0..N |->
             IF k = 0 THEN <<>>
             ELSE IF entries[k].stream = s THEN Append(B[k - 1], entries[k].value)
             ELSE B[k - 1]]
    <2> HIDE DEF N, D, step
    <2> QED BY <1>6, Zenon
<1>8. SamplesOf(entries, s) = B[N]
    BY Zenon DEF SamplesOf
<1> HIDE DEF B, step
<1>9. B[0] = <<>> /\ \A k \in 1..N : B[k] = OneMore(entries, s, k, B[k - 1])
    <2> HIDE DEF D
    <2>1. 0 \in 0..N /\ \A k \in 1..N : k \in 0..N /\ k # 0
        BY <1>1
    <2> HIDE DEF N
    <2> QED BY <1>7, <2>1 DEF OneMore
<1>10. \A k \in 0..N : B[k] \in D
    <2> DEFINE T == {k \in 0..N : B[k] \in D}
    <2>1. 0 \in T
        <3> HIDE DEF D
        <3> QED BY <1>1, <1>3, <1>9
    <2>2. ASSUME NEW k \in 0..N, k \in T, k < N PROVE k + 1 \in T
        <3> HIDE DEF D
        <3>1. k + 1 \in 1..N /\ k + 1 \in 0..N /\ (k + 1) - 1 = k
            BY <1>1, <2>2
        <3>2. B[k + 1] = OneMore(entries, s, k + 1, B[k])
            BY <1>9, <3>1
        <3> QED BY <1>2, <2>2, <3>1, <3>2
    <2> HIDE DEF T, N, D
    <2>3. \A k \in 0..N : k \in T
        BY <1>1, <2>1, <2>2, Climb
    <2> QED BY <2>3 DEF T
<1>11. B \in [0..N -> D]
    <2> HIDE DEF N, D
    <2> QED BY <1>7, <1>10
<1> QED BY <1>8, <1>9, <1>11 DEF IsSamples

(* One more entry is one more sample of its stream.                         *)
LEMMA SamplesGrow ==
    ASSUME NEW entries \in Seq(Entry), NEW e \in Entry, NEW s \in Streams
    PROVE  /\ SamplesOf(entries, s) \in Seq(SampleValues)
           /\ SamplesOf(Append(entries, e), s)
                 = IF e.stream = s THEN Append(SamplesOf(entries, s), e.value)
                   ELSE SamplesOf(entries, s)
<1> DEFINE more == Append(entries, e)
           n == Len(entries)
<1>1. /\ n \in Nat /\ more \in Seq(Entry) /\ Len(more) = n + 1
      /\ more[n + 1] = e /\ \A i \in 1..n : more[i] = entries[i]
    OBVIOUS
<1>2. PICK f : IsSamples(f, entries, s)
    BY SamplesFold, Zenon
<1>3. PICK g : IsSamples(g, more, s)
    <2> HIDE DEF more
    <2> QED BY <1>1, SamplesFold, Zenon
<1> HIDE DEF more, n
<1>4. /\ f[0] = <<>> /\ \A k \in 1..n : f[k] = OneMore(entries, s, k, f[k - 1])
      /\ SamplesOf(entries, s) = f[n] /\ f[n] \in Seq(SampleValues)
    <2>1. n \in 0..n
        BY <1>1
    <2> QED BY <1>2, <2>1 DEF IsSamples, n
<1>5. /\ g[0] = <<>> /\ \A k \in 1..(n + 1) : g[k] = OneMore(more, s, k, g[k - 1])
      /\ SamplesOf(more, s) = g[n + 1]
    BY <1>1, <1>3 DEF IsSamples
<1>6. \A k \in 0..n : f[k] = g[k]
    <2> DEFINE T == {k \in 0..n : f[k] = g[k]}
    <2>1. 0 \in T
        BY <1>1, <1>4, <1>5
    <2>2. ASSUME NEW k \in 0..n, k \in T, k < n PROVE k + 1 \in T
        <3>1. k + 1 \in 1..n /\ k + 1 \in 1..(n + 1) /\ k + 1 \in 0..n /\ (k + 1) - 1 = k
            BY <1>1, <2>2
        <3>2. f[k + 1] = OneMore(entries, s, k + 1, f[k]) /\ g[k + 1] = OneMore(more, s, k + 1, g[k])
            BY <1>4, <1>5, <3>1
        <3>3. more[k + 1] = entries[k + 1]
            BY <1>1, <3>1
        <3> QED BY <2>2, <3>1, <3>2, <3>3 DEF OneMore
    <2> HIDE DEF T
    <2>3. \A k \in 0..n : k \in T
        BY <1>1, <2>1, <2>2, Climb
    <2> QED BY <2>3 DEF T
<1>7. g[n + 1] = OneMore(more, s, n + 1, f[n])
    <2>1. n + 1 \in 1..(n + 1) /\ (n + 1) - 1 = n /\ n \in 0..n
        BY <1>1
    <2> QED BY <1>5, <1>6, <2>1
<1> QED BY <1>1, <1>4, <1>5, <1>7 DEF OneMore, more

LEMMA NoSamples ==
    ASSUME NEW s \in Streams
    PROVE  SamplesOf(<<>>, s) = <<>>
<1>1. <<>> \in Seq(Entry) /\ Len(<<>>) = 0
    OBVIOUS
<1>2. PICK f : IsSamples(f, <<>>, s)
    BY <1>1, SamplesFold, Zenon
<1> QED BY <1>1, <1>2 DEF IsSamples

(* The onset: no entry of the stream scores higher, and none that scores as *)
(* high comes before.                                                       *)
IsOnset(r, entries, s) ==
    /\ r \in EntriesOf(entries, s)
    /\ \A i \in EntriesOf(entries, s) :
          /\ TopScore(entries[i].scores) <= TopScore(entries[r].scores)
          /\ TopScore(entries[i].scores) = TopScore(entries[r].scores) => r <= i

LEMMA EntriesAre ==
    ASSUME NEW entries \in Seq(Entry), NEW s \in Streams
    PROVE  /\ Len(entries) \in Nat
           /\ EntriesOf(entries, s) = {i \in 1..Len(entries) : entries[i].stream = s}
           /\ \A i \in EntriesOf(entries, s) :
                 /\ i \in Nat /\ entries[i] \in Entry /\ entries[i].stream = s
                 /\ TopScore(entries[i].scores) \in Nat
<1>1. DOMAIN entries = 1..Len(entries) /\ Len(entries) \in Nat
    OBVIOUS
<1>2. EntriesOf(entries, s) = {i \in 1..Len(entries) : entries[i].stream = s}
    BY <1>1 DEF EntriesOf
<1>3. \A i \in EntriesOf(entries, s) : i \in Nat /\ entries[i] \in Entry /\ entries[i].stream = s
    BY <1>2
<1>4. \A i \in EntriesOf(entries, s) : TopScore(entries[i].scores) \in Nat
    BY <1>3, EntryIs
<1> QED BY <1>1, <1>2, <1>3, <1>4

LEMMA OnsetIsUnique ==
    ASSUME NEW entries \in Seq(Entry), NEW s \in Streams,
           NEW r, IsOnset(r, entries, s)
    PROVE  OnsetEntry(entries, s) = r
<1> DEFINE mine == EntriesOf(entries, s)
           Top(i) == TopScore(entries[i].scores)
           S == {Top(i) : i \in mine}
           R == {i \in mine : Top(i) = Max(S)}
<1>1. \A i \in mine : i \in Nat /\ Top(i) \in Nat
    BY EntriesAre
<1>2. r \in mine /\ \A i \in mine : Top(i) <= Top(r) /\ (Top(i) = Top(r) => r <= i)
    BY DEF IsOnset
<1>3. OnsetEntry(entries, s) = Min(R)
    BY Zenon DEF OnsetEntry
<1> HIDE DEF mine, Top
<1>4. Max(S) = Top(r)
    <2>1. Top(r) \in S /\ \A y \in S : y \in Nat /\ Top(r) >= y
        BY <1>1, <1>2
    <2>2. Max(S) \in S /\ \A y \in S : Max(S) >= y
        <3>1. \E x \in S : \A y \in S : x >= y
            BY <2>1
        <3> HIDE DEF S
        <3> QED BY <3>1, Zenon DEF Max
    <2> HIDE DEF S
    <2>3. Max(S) >= Top(r) /\ Top(r) >= Max(S) /\ Max(S) \in Nat /\ Top(r) \in Nat
        BY <2>1, <2>2
    <2> QED BY <2>3
<1>5. R = {i \in mine : Top(i) = Top(r)}
    BY <1>4
<1>6. r \in R /\ \A i \in R : i \in Nat /\ r <= i
    BY <1>1, <1>2, <1>5
<1> HIDE DEF R
<1>7. Min(R) \in R /\ \A y \in R : Min(R) <= y
    <2>1. \E x \in R : \A y \in R : x <= y
        BY <1>6
    <2> QED BY <2>1, Zenon DEF Min
<1>8. Min(R) <= r /\ r <= Min(R) /\ Min(R) \in Nat /\ r \in Nat
    BY <1>6, <1>7
<1> QED BY <1>3, <1>8

LEMMA OnsetExists ==
    ASSUME NEW entries \in Seq(Entry), NEW s \in Streams, EntriesOf(entries, s) # {}
    PROVE  IsOnset(OnsetEntry(entries, s), entries, s)
<1> DEFINE mine == EntriesOf(entries, s)
           top == [i \in mine |-> TopScore(entries[i].scores)]
           S == {top[i] : i \in mine}
<1>1. \A i \in mine : i \in Nat /\ top[i] \in Nat
    BY EntriesAre
<1>2. IsFiniteSet(mine)
    <2>1. 1 \in Int /\ Len(entries) \in Int /\ mine \subseteq 1..Len(entries)
        BY EntriesAre
    <2>2. IsFiniteSet(1..Len(entries))
        BY <2>1, FS_Interval
    <2> HIDE DEF mine
    <2> QED BY <2>1, <2>2, FS_Subset
<1>3. IsFiniteSet(S)
    <2>1. DOMAIN top = mine
        OBVIOUS
    <2> HIDE DEF mine, top
    <2> QED BY <1>2, <2>1, ImageIsFinite
<1>4. S \in SUBSET Int /\ S # {}
    <2> HIDE DEF mine, top
    <2>1. mine # {}
        BY DEF mine
    <2> QED BY <1>1, <2>1
<1>5. Max(S) \in S /\ \A y \in S : y <= Max(S)
    <2> HIDE DEF S
    <2> QED BY <1>3, <1>4, FiniteMax
<1> DEFINE m == Max(S)
           R == {i \in mine : top[i] = m}
<1>6. R \in SUBSET Nat /\ R # {}
    <2> HIDE DEF mine, top, m
    <2>1. m \in S
        BY <1>5 DEF m
    <2>2. PICK i \in mine : top[i] = m
        BY <2>1
    <2> QED BY <1>1, <2>2
<1>7. PICK r \in R : \A y \in R : r <= y
    <2> HIDE DEF R
    <2> QED BY <1>6, LeastNat
<1>8. \A i \in mine : top[i] <= m
    <2> HIDE DEF mine, top
    <2> QED BY <1>5 DEF m
<1> HIDE DEF m, S
<1>9. r \in mine /\ top[r] = m /\ \A i \in mine : top[i] <= m /\ (top[i] = m => r <= i)
    <2> HIDE DEF mine, top
    <2> QED BY <1>7, <1>8
<1>10. \A i \in mine : top[i] = TopScore(entries[i].scores)
    OBVIOUS
<1>11. IsOnset(r, entries, s)
    <2> HIDE DEF top
    <2> QED BY <1>9, <1>10 DEF IsOnset
<1> QED BY <1>11, OnsetIsUnique

(* The snapshot that is taken at an entry.                                  *)
SnapshotAt(r, entries, s) ==
    [value   |-> TopScore(entries[r].scores),
     scores  |-> entries[r].scores,
     history |-> Newest(SamplesOf(SubSeq(entries, 1, r), s)),
     at      |-> entries[r].at]

LEMMA OnsetSnapshotIs ==
    ASSUME NEW entries \in Seq(Entry), NEW s \in Streams
    PROVE  /\ EntriesOf(entries, s) = {} => OnsetSnapshot(entries, s) = NoPeak
           /\ \A r : IsOnset(r, entries, s) =>
                 OnsetSnapshot(entries, s) = IF TopScore(entries[r].scores) = 0 THEN NoPeak
                                             ELSE SnapshotAt(r, entries, s)
<1>1. EntriesOf(entries, s) = {} => OnsetSnapshot(entries, s) = NoPeak
    BY Zenon DEF OnsetSnapshot
<1>2. ASSUME NEW r, IsOnset(r, entries, s)
      PROVE  OnsetSnapshot(entries, s) = IF TopScore(entries[r].scores) = 0 THEN NoPeak
                                         ELSE SnapshotAt(r, entries, s)
    <2>1. OnsetEntry(entries, s) = r /\ r \in EntriesOf(entries, s)
        BY <1>2, OnsetIsUnique DEF IsOnset
    <2> QED BY <2>1, Zenon DEF OnsetSnapshot, SnapshotAt
<1> QED BY <1>1, <1>2

LEMMA PrefixStays ==
    ASSUME NEW entries \in Seq(Entry), NEW e \in Entry
    PROVE  /\ \A r \in 1..Len(entries) : SubSeq(Append(entries, e), 1, r) = SubSeq(entries, 1, r)
           /\ SubSeq(Append(entries, e), 1, Len(entries) + 1) = Append(entries, e)
<1> DEFINE more == Append(entries, e)
           n == Len(entries)
<1>1. /\ n \in Nat /\ more \in Seq(Entry) /\ Len(more) = n + 1
      /\ \A i \in 1..n : more[i] = entries[i]
    OBVIOUS
<1> HIDE DEF more
<1>2. ASSUME NEW r \in 1..n PROVE SubSeq(more, 1, r) = SubSeq(entries, 1, r)
    <2>1. /\ SubSeq(more, 1, r) \in Seq(Entry) /\ Len(SubSeq(more, 1, r)) = r
          /\ \A i \in 1..r : SubSeq(more, 1, r)[i] = more[i]
        BY <1>1
    <2>2. /\ SubSeq(entries, 1, r) \in Seq(Entry) /\ Len(SubSeq(entries, 1, r)) = r
          /\ \A i \in 1..r : SubSeq(entries, 1, r)[i] = entries[i]
        BY <1>1
    <2>3. \A i \in 1..r : SubSeq(more, 1, r)[i] = SubSeq(entries, 1, r)[i]
        BY <1>1, <2>1, <2>2
    <2> QED BY <2>1, <2>2, <2>3, SameSequence
<1>3. SubSeq(more, 1, n + 1) = more
    BY <1>1
<1> QED BY <1>2, <1>3 DEF more

(* An entry of another stream leaves the onset alone.                       *)
LEMMA OnsetOfOthers ==
    ASSUME NEW entries \in Seq(Entry), NEW e \in Entry, NEW s \in Streams, e.stream # s
    PROVE  OnsetSnapshot(Append(entries, e), s) = OnsetSnapshot(entries, s)
<1> DEFINE more == Append(entries, e)
           n == Len(entries)
<1>1. /\ n \in Nat /\ more \in Seq(Entry) /\ Len(more) = n + 1
      /\ more[n + 1] = e /\ \A i \in 1..n : more[i] = entries[i]
    OBVIOUS
<1> HIDE DEF more
<1>2. EntriesOf(more, s) = EntriesOf(entries, s)
    <2>1. EntriesOf(more, s) = {i \in 1..(n + 1) : more[i].stream = s}
        BY <1>1, EntriesAre
    <2>2. EntriesOf(entries, s) = {i \in 1..n : entries[i].stream = s}
        BY EntriesAre
    <2>3. 1..(n + 1) = (1..n) \cup {n + 1}
        BY <1>1
    <2> QED BY <1>1, <2>1, <2>2, <2>3
<1>3. CASE EntriesOf(entries, s) = {}
    BY <1>1, <1>2, <1>3, OnsetSnapshotIs DEF more
<1>4. CASE EntriesOf(entries, s) # {}
    <2> DEFINE r == OnsetEntry(entries, s)
    <2>1. IsOnset(r, entries, s)
        BY <1>4, OnsetExists
    <2> HIDE DEF r
    <2>2. \A i \in EntriesOf(entries, s) : i \in 1..n /\ more[i] = entries[i]
        BY <1>1, EntriesAre
    <2>3. r \in EntriesOf(entries, s)
        BY <2>1 DEF IsOnset
    <2>4. IsOnset(r, more, s)
        BY <1>2, <2>1, <2>2, <2>3 DEF IsOnset
    <2>5. SnapshotAt(r, more, s) = SnapshotAt(r, entries, s)
        <3>1. SubSeq(more, 1, r) = SubSeq(entries, 1, r)
            BY <2>2, <2>3, PrefixStays DEF more
        <3> QED BY <2>2, <2>3, <3>1, Zenon DEF SnapshotAt
    <2>6. OnsetSnapshot(entries, s) = IF TopScore(entries[r].scores) = 0 THEN NoPeak
                                      ELSE SnapshotAt(r, entries, s)
        BY <2>1, OnsetSnapshotIs
    <2>7. OnsetSnapshot(more, s) = IF TopScore(more[r].scores) = 0 THEN NoPeak
                                   ELSE SnapshotAt(r, more, s)
        BY <1>1, <2>4, OnsetSnapshotIs
    <2> QED BY <2>2, <2>3, <2>5, <2>6, <2>7 DEF more
<1> QED BY <1>3, <1>4

(* An entry of the stream is its onset if it scores higher.                 *)
LEMMA OnsetMoves ==
    ASSUME NEW entries \in Seq(Entry), NEW e \in Entry, NEW s \in Streams, e.stream = s
    PROVE  /\ OnsetSnapshot(entries, s).value \in Nat
           /\ OnsetSnapshot(Append(entries, e), s)
                 = IF TopScore(e.scores) > OnsetSnapshot(entries, s).value
                   THEN [value   |-> TopScore(e.scores),
                         scores  |-> e.scores,
                         history |-> Newest(SamplesOf(Append(entries, e), s)),
                         at      |-> e.at]
                   ELSE OnsetSnapshot(entries, s)
<1> DEFINE more == Append(entries, e)
           n == Len(entries)
           old == OnsetSnapshot(entries, s)
           new == OnsetSnapshot(more, s)
           Here == [value |-> TopScore(e.scores), scores |-> e.scores,
                    history |-> Newest(SamplesOf(more, s)), at |-> e.at]
<1>1. /\ n \in Nat /\ more \in Seq(Entry) /\ Len(more) = n + 1
      /\ more[n + 1] = e /\ \A i \in 1..n : more[i] = entries[i]
    OBVIOUS
<1>2. TopScore(e.scores) \in Nat
    BY EntryIs
<1>3. NoPeak.value = 0
    BY DEF NoPeak
<1> HIDE DEF more
<1>4. EntriesOf(more, s) = EntriesOf(entries, s) \cup {n + 1}
    <2>1. EntriesOf(more, s) = {i \in 1..(n + 1) : more[i].stream = s}
        BY <1>1, EntriesAre
    <2>2. EntriesOf(entries, s) = {i \in 1..n : entries[i].stream = s}
        BY EntriesAre
    <2>3. 1..(n + 1) = (1..n) \cup {n + 1}
        BY <1>1
    <2> QED BY <1>1, <2>1, <2>2, <2>3
<1>5. \A i \in EntriesOf(entries, s) : /\ i \in 1..n /\ more[i] = entries[i]
                                       /\ TopScore(entries[i].scores) \in Nat
    BY <1>1, EntriesAre
<1>6. SnapshotAt(n + 1, more, s) = Here
    <2>1. SubSeq(more, 1, n + 1) = more
        BY PrefixStays DEF more
    <2> QED BY <1>1, <2>1, Zenon DEF SnapshotAt
<1>7. ASSUME IsOnset(n + 1, more, s)
      PROVE  new = IF TopScore(e.scores) = 0 THEN NoPeak ELSE Here
    BY <1>1, <1>6, <1>7, OnsetSnapshotIs
<1> HIDE DEF Here
<1>8. CASE EntriesOf(entries, s) = {}
    <2>1. old = NoPeak
        BY <1>8, OnsetSnapshotIs
    <2>2. IsOnset(n + 1, more, s)
        <3>1. EntriesOf(more, s) = {n + 1}
            BY <1>4, <1>8
        <3> QED BY <1>1, <1>2, <3>1 DEF IsOnset
    <2> HIDE DEF old, new
    <2>3. new = IF TopScore(e.scores) > old.value THEN Here ELSE old
        BY <1>2, <1>3, <1>7, <2>1, <2>2
    <2> QED BY <1>3, <2>1, <2>3 DEF old, new, Here, more
<1>9. CASE EntriesOf(entries, s) # {}
    <2> DEFINE r == OnsetEntry(entries, s)
               top == TopScore(entries[r].scores)
    <2>1. IsOnset(r, entries, s)
        BY <1>9, OnsetExists
    <2> HIDE DEF r
    <2>2. r \in 1..n /\ more[r] = entries[r] /\ top \in Nat
        BY <1>5, <2>1 DEF IsOnset
    <2>3. old = IF top = 0 THEN NoPeak ELSE SnapshotAt(r, entries, s)
        BY <2>1, OnsetSnapshotIs
    <2>4. old.value = top
        BY <1>3, <2>2, <2>3 DEF SnapshotAt
    <2>5. CASE TopScore(e.scores) > top
        <3>1. IsOnset(n + 1, more, s)
            <4>1. \A i \in EntriesOf(entries, s) : TopScore(entries[i].scores) <= top
                BY <2>1 DEF IsOnset
            <4> HIDE DEF top
            <4>2. \A i \in EntriesOf(more, s) :
                     i # n + 1 => TopScore(more[i].scores) < TopScore(e.scores)
                BY <1>2, <1>4, <1>5, <2>2, <2>5, <4>1
            <4>3. n + 1 \in EntriesOf(more, s)
                BY <1>4
            <4>4. \A i \in EntriesOf(more, s) : i \in Nat /\ TopScore(more[i].scores) \in Nat
                BY <1>1, EntriesAre
            <4> QED BY <1>1, <1>2, <4>2, <4>3, <4>4 DEF IsOnset
        <3> HIDE DEF old, new, top
        <3>2. new = Here
            BY <1>2, <1>7, <2>2, <2>5, <3>1
        <3> QED BY <2>2, <2>4, <2>5, <3>2 DEF old, new, Here, more
    <2>6. CASE ~(TopScore(e.scores) > top)
        <3>1. IsOnset(r, more, s)
            <4>1. \A i \in EntriesOf(entries, s) :
                     /\ TopScore(entries[i].scores) <= top
                     /\ TopScore(entries[i].scores) = top => r <= i
                BY <2>1 DEF IsOnset
            <4>2. r \in EntriesOf(more, s) /\ TopScore(more[r].scores) = top
                BY <1>4, <2>1, <2>2 DEF IsOnset
            <4> HIDE DEF top
            <4>3. \A i \in EntriesOf(more, s) : /\ TopScore(more[i].scores) <= top
                                                /\ TopScore(more[i].scores) = top => r <= i
                <5> SUFFICES ASSUME NEW i \in EntriesOf(more, s)
                    PROVE  /\ TopScore(more[i].scores) <= top
                           /\ TopScore(more[i].scores) = top => r <= i
                    OBVIOUS
                <5>1. CASE i \in EntriesOf(entries, s)
                    BY <1>5, <4>1, <5>1
                <5>2. CASE i = n + 1
                    BY <1>1, <1>2, <2>2, <2>6, <5>2
                <5> QED BY <1>4, <5>1, <5>2
            <4> QED BY <4>2, <4>3 DEF IsOnset
        <3>2. SnapshotAt(r, more, s) = SnapshotAt(r, entries, s)
            <4>1. SubSeq(more, 1, r) = SubSeq(entries, 1, r)
                BY <2>2, PrefixStays DEF more
            <4> QED BY <2>2, <4>1, Zenon DEF SnapshotAt
        <3>3. new = IF TopScore(more[r].scores) = 0 THEN NoPeak ELSE SnapshotAt(r, more, s)
            BY <1>1, <3>1, OnsetSnapshotIs
        <3>4. new = old
            BY <2>2, <2>3, <3>2, <3>3, Zenon
        <3> HIDE DEF old, new, top
        <3> QED BY <2>2, <2>4, <2>6, <3>4 DEF old, new, more
    <2> QED BY <2>5, <2>6
<1> QED BY <1>8, <1>9
-------------------------------------------------------------------------------
(* A snapshot with the scores of the batch pass: what a second pass would   *)
(* add is there already.                                                    *)
Richer(s, p) == [p EXCEPT !.scores = @ \o Fresh(Batch(s, p.history), MethodsOf(p.scores))]

LEMMA NoMethods ==
    ASSUME NEW scores, IsScoring(scores), MethodsOf(scores) = {}
    PROVE  scores = <<>>
<1>1. DOMAIN scores = {}
    BY DEF MethodsOf
<1>2. scores \in Seq(Score1)
    BY DEF IsScoring, Score1
<1> QED BY <1>1, <1>2

LEMMA MethodsJoin ==
    ASSUME NEW a, IsScoring(a), NEW b, IsScoring(b)
    PROVE  MethodsOf(a \o b) = MethodsOf(a) \cup MethodsOf(b)
<1> DEFINE c == a \o b
           n == Len(a)
           m == Len(b)
<1>1. a \in Seq(Score1) /\ b \in Seq(Score1)
    BY DEF IsScoring, Score1
<1>2. /\ n \in Nat /\ m \in Nat /\ DOMAIN a = 1..n /\ DOMAIN b = 1..m
      /\ DOMAIN c = 1..(n + m)
      /\ \A i \in 1..n : c[i] = a[i]
      /\ \A i \in 1..m : c[n + i] = b[i]
      /\ \A i \in 1..(n + m) : i \in 1..n \/ (i - n \in 1..m /\ n + (i - n) = i)
      /\ \A i \in 1..n : i \in 1..(n + m)
      /\ \A i \in 1..m : n + i \in 1..(n + m)
    BY <1>1
<1> HIDE DEF c, n, m
<1>3. MethodsOf(c) \subseteq MethodsOf(a) \cup MethodsOf(b)
    <2> SUFFICES ASSUME NEW i \in DOMAIN c
                 PROVE  c[i].method \in MethodsOf(a) \cup MethodsOf(b)
        BY DEF MethodsOf
    <2>1. CASE i \in 1..n
        BY <1>2, <2>1 DEF MethodsOf
    <2>2. CASE i \notin 1..n
        <3>1. i - n \in 1..m /\ c[i] = b[i - n]
            BY <1>2, <2>2
        <3> QED BY <1>2, <3>1 DEF MethodsOf
    <2> QED BY <2>1, <2>2
<1>4. MethodsOf(a) \subseteq MethodsOf(c)
    <2> SUFFICES ASSUME NEW i \in DOMAIN a PROVE a[i].method \in MethodsOf(c)
        BY DEF MethodsOf
    <2>1. i \in DOMAIN c /\ c[i] = a[i]
        BY <1>2
    <2> QED BY <2>1 DEF MethodsOf
<1>5. MethodsOf(b) \subseteq MethodsOf(c)
    <2> SUFFICES ASSUME NEW i \in DOMAIN b PROVE b[i].method \in MethodsOf(c)
        BY DEF MethodsOf
    <2>1. n + i \in DOMAIN c /\ c[n + i] = b[i]
        BY <1>2
    <2> QED BY <2>1 DEF MethodsOf
<1> QED BY <1>3, <1>4, <1>5 DEF c

LEMMA RicherIs ==
    ASSUME NEW s \in Streams, NEW p \in Snapshot
    PROVE  /\ Richer(s, p) \in Snapshot
           /\ Richer(s, p).value = p.value
           /\ Richer(s, p).history = p.history
           /\ Richer(s, Richer(s, p)) = Richer(s, p)
<1> DEFINE b == Batch(s, p.history)
           a == p.scores
           x == Fresh(b, MethodsOf(a))
           c == a \o x
           q == [p EXCEPT !.scores = c]
           y == Fresh(b, MethodsOf(c))
<1>1. p.history \in Histories /\ IsScoring(a) /\ a \in Seq(Score1)
    BY DEF Snapshot, Scorings, IsScoring, Score1
<1>2. IsScoring(b)
    BY <1>1, BatchIs
<1> HIDE DEF a, b
<1>3. /\ IsScoring(x) /\ MethodsOf(x) \cap MethodsOf(a) = {}
      /\ MethodsOf(b) \subseteq MethodsOf(a) \cup MethodsOf(x)
    BY <1>2, FreshIs
<1> HIDE DEF x
<1>4. IsScoring(c) /\ MethodsOf(c) = MethodsOf(a) \cup MethodsOf(x)
    BY <1>1, <1>3, JoinIs, MethodsJoin
<1>5. c \in Scorings /\ c \in Seq(Score1)
    BY <1>4 DEF Scorings, IsScoring, Score1
<1> HIDE DEF c
<1>6. IsScoring(y) /\ MethodsOf(y) \cap MethodsOf(c) = {} /\ MethodsOf(y) \subseteq MethodsOf(b)
    BY <1>2, FreshIs
<1>7. y = <<>>
    <2>1. MethodsOf(y) = {}
        BY <1>3, <1>4, <1>6
    <2> HIDE DEF y
    <2> QED BY <1>6, <2>1, NoMethods
<1>8. c \o y = c
    BY <1>5, <1>7
<1>9. Richer(s, p) = q
    BY Zenon DEF Richer, q, c, x, a, b
<1>10. q \in Snapshot /\ q.value = p.value /\ q.history = p.history /\ q.scores = c
    BY <1>5 DEF Snapshot
<1>11. Richer(s, q) = [q EXCEPT !.scores = c \o y]
    <2>1. Richer(s, q) = [q EXCEPT !.scores = @ \o Fresh(Batch(s, q.history), MethodsOf(q.scores))]
        BY Zenon DEF Richer
    <2>2. Fresh(Batch(s, q.history), MethodsOf(q.scores)) = y
        BY <1>10 DEF b
    <2> HIDE DEF q, y
    <2> QED BY <1>10, <2>1, <2>2
<1>12. Richer(s, q) = q
    <2> HIDE DEF y
    <2>1. Richer(s, q) = [q EXCEPT !.scores = q.scores]
        BY <1>8, <1>10, <1>11
    <2> HIDE DEF q
    <2> QED BY <1>10, <2>1 DEF Snapshot
<1> HIDE DEF q
<1> QED BY <1>9, <1>10, <1>12
-------------------------------------------------------------------------------
(* What one sample does to the streams' state.                              *)
LEMMA UntrackedIs ==
    ASSUME NEW st \in State, NEW x, IsSample(x),
           NEW at \in Nat, seen \in Nat, x.stream = None \/ ~HasRoom(st.tracked, x.stream)
    PROVE  \E l \in Entry :
              /\ l.stream = None /\ l.entity = x.entity /\ l.record = seen + 1
              /\ Sampled(st, x, at).log = Append(st.log, l)
              /\ Sampled(st, x, at).tracked = st.tracked
              /\ Sampled(st, x, at).values = st.values
              /\ Sampled(st, x, at).peak = st.peak
              /\ Sampled(st, x, at).drift = DriftAfter(st.drift, x)
<1> DEFINE l == [entity |-> x.entity, stream |-> None, record |-> seen + 1]
           t == [st EXCEPT !.drift = DriftAfter(st.drift, x), !.log = Append(@, l)]
<1>1. Sampled(st, x, at) = t
    BY Zenon DEF Sampled
<1>2. l \in Entry /\ l.stream = None /\ l.entity = x.entity /\ l.record = seen + 1
    BY DEF Entry, IsSample
<1>3. /\ t.tracked = st.tracked /\ t.values = st.values /\ t.peak = st.peak
      /\ t.drift = DriftAfter(st.drift, x) /\ t.log = Append(st.log, l)
    <2> HIDE DEF l
    <2> QED BY DEF State
<1> HIDE DEF t, l
<1> QED BY <1>1, <1>2, <1>3

LEMMA TrackedIs ==
    ASSUME NEW st \in State, NEW x, IsSample(x),
           NEW at \in Nat, seen \in Nat, x.stream # None, HasRoom(st.tracked, x.stream)
    PROVE  \E l \in Entry :
              /\ l.stream = x.stream /\ l.entity = x.entity /\ l.record = seen + 1
              /\ l.value = x.value /\ l.scores = x.scores /\ l.at = at
              /\ Sampled(st, x, at).log = Append(st.log, l)
              /\ Sampled(st, x, at).tracked = IF x.stream \in ToSet(st.tracked) THEN st.tracked
                                              ELSE Append(st.tracked, x.stream)
              /\ Sampled(st, x, at).drift = DriftAfter(st.drift, x)
              /\ \A u \in Streams :
                    /\ Sampled(st, x, at).values[u]
                          = IF u = x.stream THEN Push(st.values[u], x.value) ELSE st.values[u]
                    /\ Sampled(st, x, at).peak[u]
                          = IF u = x.stream
                            THEN PeakAfter(st.peak[u], x, Push(st.values[u], x.value), at)
                            ELSE st.peak[u]
<1> DEFINE s == x.stream
           e == x.entity
           drifted == DriftAfter(st.drift, x)
           fired == drifted[e]
           history == Push(st.values[s], x.value)
           l == [entity |-> e, stream |-> s, value |-> x.value, scores |-> x.scores,
                 at |-> at, fired |-> fired, record |-> seen + 1]
           tr == IF s \in ToSet(st.tracked) THEN st.tracked ELSE Append(st.tracked, s)
           va == [st.values EXCEPT ![s] = history]
           pe == [st.peak EXCEPT ![s] = PeakAfter(@, x, history, at)]
           ti == [st.timeline EXCEPT ![e] = TimelineAfter(@, x, fired, at)]
           t == [tracked |-> tr, values |-> va, peak |-> pe, drift |-> drifted,
                 timeline |-> ti, log |-> Append(st.log, l)]
<1>1. Sampled(st, x, at) = t
    BY Zenon DEF Sampled
<1>2. /\ st.values \in [Streams -> Histories] /\ st.peak \in [Streams -> Snapshot]
      /\ st.drift \in [Entities -> Nat]
    BY DEF State
<1>3. s \in Streams /\ e \in Entities /\ x.value \in SampleValues /\ x.scores \in Scorings
    BY DEF IsSample
<1>4. fired \in Nat
    BY <1>2, DriftAfterIs
<1>5. /\ l \in Entry /\ l.stream = s /\ l.entity = e /\ l.record = seen + 1
      /\ l.value = x.value /\ l.scores = x.scores /\ l.at = at
    <2> HIDE DEF s, e, fired
    <2> QED BY <1>3, <1>4 DEF Entry
<1> HIDE DEF l, fired, history, drifted
<1>6. \A u \in Streams : /\ va[u] = IF u = s THEN history ELSE st.values[u]
                         /\ pe[u] = IF u = s THEN PeakAfter(st.peak[s], x, history, at)
                                    ELSE st.peak[u]
    BY <1>2, <1>3
<1> HIDE DEF va, pe, tr, ti
<1>7. /\ t.tracked = tr /\ t.values = va /\ t.peak = pe /\ t.drift = drifted
      /\ t.log = Append(st.log, l)
    OBVIOUS
<1> HIDE DEF t
<1>8. \A u \in Streams :
         /\ t.values[u] = IF u = s THEN Push(st.values[u], x.value) ELSE st.values[u]
         /\ t.peak[u] = IF u = s THEN PeakAfter(st.peak[u], x, Push(st.values[u], x.value), at)
                        ELSE st.peak[u]
    BY <1>6, <1>7 DEF history
<1>9. t.tracked = (IF s \in ToSet(st.tracked) THEN st.tracked ELSE Append(st.tracked, s))
    BY <1>7 DEF tr
<1>10. t.drift = DriftAfter(st.drift, x)
    BY <1>7 DEF drifted
<1> QED BY <1>1, <1>5, <1>7, <1>8, <1>9, <1>10, Zenon

(* The history of a stream is that of its samples, and its snapshot is its  *)
(* onset, or, for what the batch pass may choose, its onset made richer.    *)
SnapInv(st, s) ==
    LET onset == OnsetSnapshot(st.log, s)
    IN /\ st.values[s] = Newest(SamplesOf(st.log, s))
       /\ \/ st.peak[s] = onset
          \/ /\ st.peak[s] = Richer(s, onset)
             /\ s \in ToSet(st.tracked)
             /\ Len(onset.history) >= MinHistory
             /\ onset.value > 0

LEMMA NewestFits ==
    ASSUME NEW q \in Seq(SampleValues)
    PROVE  Newest(q) \in Histories
<1> DEFINE n == Len(q)
           H == HistoryLen
           m == IF 1 >= n - H + 1 THEN 1 ELSE n - H + 1
<1>1. n \in Nat /\ H \in Nat /\ H > 0
    BY LimitsAre
<1> HIDE DEF n, H
<1>2. Newest(q) = SubSeq(q, m, n)
    <2>1. 1 \in Int /\ n - H + 1 \in Int
        BY <1>1
    <2>2. Max({1, n - H + 1}) = m
        BY <2>1, MaxOfTwo, Zenon
    <2> QED BY <2>2, Zenon DEF Newest, n, H
<1>3. m \in Nat \ {0} /\ (n - m) + 1 <= H
    BY <1>1
<1> HIDE DEF m
<1>4. SubSeq(q, m, n) \in Seq(SampleValues)
      /\ Len(SubSeq(q, m, n)) = IF m <= n THEN (n - m) + 1 ELSE 0
    BY <1>1, <1>3, SliceIs DEF n
<1> QED BY <1>1, <1>2, <1>3, <1>4 DEF Histories, H

LEMMA OnsetIsSnapshot ==
    ASSUME NEW entries \in Seq(Entry), NEW s \in Streams
    PROVE  OnsetSnapshot(entries, s) \in Snapshot
<1>1. NoPeak \in Snapshot
    <2>1. <<>> \in Histories /\ <<>> \in Scorings
        <3>1. IsScoring(<<>>)
            BY DEF IsScoring
        <3> QED BY <3>1, LimitsAre DEF Histories, Scorings
    <2> QED BY <2>1 DEF NoPeak, Snapshot
<1>2. CASE EntriesOf(entries, s) = {}
    BY <1>1, <1>2, OnsetSnapshotIs
<1>3. CASE EntriesOf(entries, s) # {}
    <2> DEFINE r == OnsetEntry(entries, s)
               part == SubSeq(entries, 1, r)
    <2>1. IsOnset(r, entries, s)
        BY <1>3, OnsetExists
    <2> HIDE DEF r
    <2>2. r \in 1..Len(entries) /\ entries[r] \in Entry /\ entries[r].stream = s
        BY <2>1, EntriesAre DEF IsOnset
    <2>3. part \in Seq(Entry)
        BY <2>2
    <2> HIDE DEF part
    <2>4. Newest(SamplesOf(part, s)) \in Histories
        BY <2>2, <2>3, SamplesGrow, NewestFits
    <2>5. SnapshotAt(r, entries, s) \in Snapshot
        BY <2>2, <2>4, EntryIs DEF SnapshotAt, Snapshot, part
    <2> QED BY <1>1, <2>1, <2>5, OnsetSnapshotIs
<1> QED BY <1>2, <1>3

LEMMA SampledSnaps ==
    ASSUME NEW st, StateInv(st), NEW x, IsSample(x), NEW at \in Nat, seen \in Nat,
           NEW u \in Streams, SnapInv(st, u)
    PROVE  SnapInv(Sampled(st, x, at), u)
<1> DEFINE t == Sampled(st, x, at)
           onset == OnsetSnapshot(st.log, u)
<1>0. t = Sampled(st, x, at)
    OBVIOUS
<1> SUFFICES SnapInv(t, u)
    BY <1>0
<1> HIDE DEF t, onset
<1>1. st \in State /\ st.log \in Seq(Entry) /\ st.tracked \in Seq(Streams)
    BY DEF StateInv, State
<1>2. /\ st.values[u] = Newest(SamplesOf(st.log, u))
      /\ \/ st.peak[u] = onset
         \/ /\ st.peak[u] = Richer(u, onset)
            /\ u \in ToSet(st.tracked)
            /\ Len(onset.history) >= MinHistory
            /\ onset.value > 0
    BY DEF SnapInv, onset
<1>3. ASSUME NEW l \in Entry, t.log = Append(st.log, l), l.stream # u,
             t.values[u] = st.values[u], t.peak[u] = st.peak[u],
             ToSet(st.tracked) \subseteq ToSet(t.tracked)
      PROVE  SnapInv(t, u)
    <2>1. OnsetSnapshot(t.log, u) = onset
        BY <1>1, <1>3, OnsetOfOthers DEF onset
    <2>2. SamplesOf(t.log, u) = SamplesOf(st.log, u)
        BY <1>1, <1>3, SamplesGrow
    <2> QED BY <1>2, <1>3, <2>1, <2>2 DEF SnapInv
<1>4. CASE x.stream = None \/ ~HasRoom(st.tracked, x.stream)
    <2>1. PICK l \in Entry : /\ l.stream = None /\ t.log = Append(st.log, l)
                             /\ t.tracked = st.tracked /\ t.values = st.values
                             /\ t.peak = st.peak
        BY <1>0, <1>1, <1>4, UntrackedIs
    <2>2. l.stream # u
        BY <2>1, NoneAssumption
    <2> QED BY <1>3, <2>1, <2>2
<1>5. CASE x.stream # None /\ HasRoom(st.tracked, x.stream)
    <2>1. PICK l \in Entry :
              /\ l.stream = x.stream
              /\ l.value = x.value /\ l.scores = x.scores /\ l.at = at
              /\ t.log = Append(st.log, l)
              /\ t.tracked = IF x.stream \in ToSet(st.tracked) THEN st.tracked
                             ELSE Append(st.tracked, x.stream)
              /\ t.values[u] = IF u = x.stream THEN Push(st.values[u], x.value) ELSE st.values[u]
              /\ t.peak[u] = IF u = x.stream
                             THEN PeakAfter(st.peak[u], x, Push(st.values[u], x.value), at)
                             ELSE st.peak[u]
        BY <1>0, <1>1, <1>5, TrackedIs
    <2>2. x.stream \in Streams /\ x.value \in SampleValues
        BY <1>5 DEF IsSample
    <2>3. ToSet(st.tracked) \subseteq ToSet(t.tracked) /\ x.stream \in ToSet(t.tracked)
        <3>1. ToSet(Append(st.tracked, x.stream)) = ToSet(st.tracked) \cup {x.stream}
            BY <1>1, <2>2, ToSetAppend
        <3> QED BY <2>1, <3>1
    <2>4. CASE u # x.stream
        BY <1>3, <2>1, <2>3, <2>4
    <2>5. CASE u = x.stream
        <3> DEFINE history == Push(st.values[u], x.value)
        <3>1. SamplesOf(st.log, u) \in Seq(SampleValues)
              /\ SamplesOf(t.log, u) = Append(SamplesOf(st.log, u), x.value)
            BY <1>1, <2>1, <2>5, SamplesGrow
        <3>2. history = Newest(SamplesOf(t.log, u)) /\ t.values[u] = history
            BY <1>2, <2>1, <2>2, <2>5, <3>1, NewestIs
        <3>3. /\ onset.value \in Nat
              /\ OnsetSnapshot(t.log, u)
                    = IF TopScore(x.scores) > onset.value
                      THEN [value |-> TopScore(x.scores), scores |-> x.scores,
                            history |-> Newest(SamplesOf(t.log, u)), at |-> at]
                      ELSE onset
            BY <1>1, <2>1, <2>5, OnsetMoves DEF onset
        <3>4. st.peak[u].value = onset.value
            <4>1. onset \in Snapshot
                BY <1>1, OnsetIsSnapshot DEF onset
            <4> QED BY <1>2, <4>1, RicherIs
        <3> HIDE DEF history
        <3>5. t.peak[u] = IF TopScore(x.scores) > onset.value
                          THEN [value |-> TopScore(x.scores), scores |-> x.scores,
                                history |-> history, at |-> at]
                          ELSE st.peak[u]
            BY <2>1, <2>5, <3>4 DEF PeakAfter, history
        <3>6. CASE TopScore(x.scores) > onset.value
            <4>1. t.peak[u] = OnsetSnapshot(t.log, u)
                BY <3>2, <3>3, <3>5, <3>6
            <4> QED BY <3>2, <4>1 DEF SnapInv
        <3>7. CASE ~(TopScore(x.scores) > onset.value)
            <4>1. t.peak[u] = st.peak[u] /\ OnsetSnapshot(t.log, u) = onset
                BY <3>3, <3>5, <3>7
            <4> QED BY <1>2, <2>3, <3>2, <4>1 DEF SnapInv
        <3> QED BY <3>6, <3>7
    <2> QED BY <2>4, <2>5
<1> QED BY <1>4, <1>5

(* The snapshots follow the log through all the samples of a record.        *)
LEMMA AfterRecordSnaps ==
    ASSUME StateInv(StreamState), NEW record \in Records, NEW at \in Nat, seen \in Nat,
           NEW u \in Streams, SnapInv(StreamState, u)
    PROVE  SnapInv(AfterRecord(record, at), u)
<1> DEFINE N == Len(record)
<1>1. N \in Nat /\ \A k \in 1..N : IsSample(record[k])
    BY RecordIs
<1>2. PICK B : Unfolds(B, record, at) /\ \A k \in 0..N : StateInv(B[k])
    BY AfterRecordSteps
<1> DEFINE T == {k \in 0..N : SnapInv(B[k], u)}
<1>3. 0 \in T
    BY <1>1, <1>2 DEF Unfolds
<1>4. ASSUME NEW k \in 0..N, k \in T, k < N PROVE k + 1 \in T
    <2>1. k + 1 \in 1..N /\ k + 1 \in 0..N /\ (k + 1) - 1 = k
        BY <1>1, <1>4
    <2>2. B[k + 1] = Sampled(B[k], record[k + 1], at)
        BY <1>2, <2>1 DEF Unfolds
    <2>3. StateInv(B[k]) /\ IsSample(record[k + 1]) /\ SnapInv(B[k], u)
        BY <1>1, <1>2, <1>4, <2>1
    <2> HIDE DEF N
    <2>4. SnapInv(Sampled(B[k], record[k + 1], at), u)
        BY <2>3, SampledSnaps
    <2> QED BY <2>1, <2>2, <2>4
<1> HIDE DEF T
<1>5. \A k \in 0..N : k \in T
    <2> HIDE DEF N
    <2> QED BY <1>1, <1>3, <1>4, Climb
<1>6. N \in 0..N /\ B[N] = AfterRecord(record, at)
    BY <1>1, <1>2 DEF Unfolds
<1> QED BY <1>5, <1>6 DEF T

(* Where there is room for all, the first are all.                          *)
LEMMA AllOfFew ==
    ASSUME NEW set, IsFiniteSet(set), NEW n \in Nat, Cardinality(set) <= n, NEW pk,
           \A s \in set : ~Before(s, s, pk)
    PROVE  FirstOf(set, n, pk) = set
<1>1. ASSUME NEW s \in set PROVE Place(s, set, pk) < n
    <2> DEFINE ahead == {t \in set : Before(t, s, pk)}
    <2>1. ahead \in SUBSET set /\ ahead # set
        OBVIOUS
    <2> HIDE DEF ahead
    <2>2. /\ Cardinality(ahead) <= Cardinality(set) /\ Cardinality(ahead) # Cardinality(set)
          /\ IsFiniteSet(ahead)
        BY <2>1, FS_Subset
    <2>3. Cardinality(ahead) \in Nat /\ Cardinality(set) \in Nat
        BY <2>2, FS_CardinalityType
    <2>4. Place(s, set, pk) = Cardinality(ahead)
        BY DEF Place, ahead
    <2> QED BY <2>2, <2>3, <2>4
<1> QED BY <1>1, Zenon DEF FirstOf

(* A stream does not come before itself.                                    *)
LEMMA NotBeforeItself ==
    ASSUME NEW pk \in [Streams -> Snapshot], NEW s \in Streams,
           tracked \in Seq(Streams), s \in ToSet(tracked)
    PROVE  ~Before(s, s, pk)
<1>1. pk[s].value \in Nat
    BY DEF Snapshot
<1>2. \E i \in DOMAIN tracked : tracked[i] = s
    BY DEF ToSet
<1>3. Position(s) \in DOMAIN tracked
    BY <1>2 DEF Position
<1>4. DOMAIN tracked \subseteq Nat
    OBVIOUS
<1>5. Position(s) \in Nat
    BY <1>3, <1>4
<1> QED BY <1>1, <1>5 DEF Before

(* The batch pass where it has room for every candidate.                    *)
LEMMA EnrichedAll ==
    ASSUME tracked \in Seq(Streams), NEW pk \in [Streams -> Snapshot],
           Cardinality(Candidates(pk)) <= BatchTop
    PROVE  BatchEnrich(pk) = [s \in Streams |-> IF s \in Candidates(pk) THEN Richer(s, pk[s])
                                                ELSE pk[s]]
<1> DEFINE C == Candidates(pk)
<1>1. IsFiniteSet(ToSet(tracked)) /\ ToSet(tracked) \subseteq Streams
    BY ToSetIsFinite
<1>2. C \in SUBSET ToSet(tracked)
    BY DEF Candidates
<1>3. IsFiniteSet(C)
    BY <1>1, <1>2, FS_Subset
<1>4. \A s \in C : ~Before(s, s, pk)
    BY <1>1, <1>2, NotBeforeItself
<1>5. FirstOf(C, BatchTop, pk) = C
    BY <1>3, <1>4, LimitsAre, AllOfFew
<1> HIDE DEF C
<1>6. BatchEnrich(pk) = [s \in Streams |->
            IF s \in FirstOf(C, BatchTop, pk) THEN Richer(s, pk[s]) ELSE pk[s]]
    BY Zenon DEF BatchEnrich, Richer, C
<1> QED BY <1>5, <1>6 DEF C

(* Whatever its room, the batch pass makes a snapshot richer or leaves it.  *)
LEMMA EnrichedIs ==
    ASSUME NEW pk, NEW s \in Streams
    PROVE  BatchEnrich(pk)[s] = pk[s]
           \/ (s \in Candidates(pk) /\ BatchEnrich(pk)[s] = Richer(s, pk[s]))
<1> DEFINE top == FirstOf(Candidates(pk), BatchTop, pk)
<1>1. BatchEnrich(pk) = [u \in Streams |-> IF u \in top THEN Richer(u, pk[u]) ELSE pk[u]]
    BY Zenon DEF BatchEnrich, Richer
<1>2. top \subseteq Candidates(pk)
    BY DEF FirstOf
<1> HIDE DEF top
<1> QED BY <1>1, <1>2
-------------------------------------------------------------------------------
(* What a report can be made again of: every snapshot is its onset, made    *)
(* richer or not, and after a report with room for all the candidates they  *)
(* are the ones the batch pass makes of the onsets.                         *)
Onsets == [s \in Streams |-> OnsetSnapshot(log, s)]

RepeatInv == (Current /\ Cardinality(Candidates(peak)) <= BatchTop) => peak = BatchEnrich(Onsets)

RepInv == /\ IInv
          /\ \A s \in Streams : SnapInv(StreamState, s)
          /\ RepeatInv

LEMMA OnsetsAre ==
    ASSUME IInv
    PROVE  /\ Onsets \in [Streams -> Snapshot]
           /\ \A s \in Streams : Onsets[s] = OnsetSnapshot(log, s)
<1>1. log \in Seq(Entry)
    BY StateIs
<1>2. \A s \in Streams : OnsetSnapshot(log, s) \in Snapshot
    BY <1>1, OnsetIsSnapshot
<1> QED BY <1>2 DEF Onsets

LEMMA SnapsAre ==
    ASSUME IInv, NEW s \in Streams, SnapInv(StreamState, s)
    PROVE  /\ values[s] = Newest(SamplesOf(log, s))
           /\ \/ peak[s] = Onsets[s]
              \/ peak[s] = Richer(s, Onsets[s]) /\ s \in Candidates(Onsets)
           /\ peak[s].value = Onsets[s].value
           /\ peak[s].history = Onsets[s].history
<1> DEFINE st == StreamState
           o == OnsetSnapshot(log, s)
<1>1. st.values = values /\ st.peak = peak /\ st.tracked = tracked /\ st.log = log
    BY DEF StreamState
<1>2. Onsets[s] = o /\ o \in Snapshot
    BY OnsetsAre
<1> HIDE DEF st, o
<1>3. /\ values[s] = Newest(SamplesOf(log, s))
      /\ \/ peak[s] = o
         \/ /\ peak[s] = Richer(s, o)
            /\ s \in ToSet(tracked) /\ Len(o.history) >= MinHistory /\ o.value > 0
    BY <1>1 DEF SnapInv, st, o
<1>4. (s \in ToSet(tracked) /\ Len(o.history) >= MinHistory /\ o.value > 0)
         => s \in Candidates(Onsets)
    BY <1>2 DEF Candidates
<1>5. Richer(s, o).value = o.value /\ Richer(s, o).history = o.history
    BY <1>2, RicherIs
<1> QED BY <1>2, <1>3, <1>4, <1>5

(* Candidates are told by their values and histories, which nothing but a   *)
(* higher onset changes.                                                    *)
LEMMA SameCandidates ==
    ASSUME tracked \in Seq(Streams), NEW pk, NEW qk,
           \A s \in Streams : pk[s].value = qk[s].value /\ pk[s].history = qk[s].history
    PROVE  Candidates(pk) = Candidates(qk)
<1>1. ToSet(tracked) \subseteq Streams
    BY ToSetIsFinite
<1> QED BY <1>1 DEF Candidates

LEMMA CandidatesStable ==
    ASSUME tracked' = tracked, NEW pk
    PROVE  Candidates(pk)' = Candidates(pk)
BY Zenon DEF Candidates

LEMMA BatchEnrichStable ==
    ASSUME UNCHANGED StateForReport, NEW pk
    PROVE  BatchEnrich(pk)' = BatchEnrich(pk)
<1>1. tracked' = tracked
    BY DEF StateForReport
<1>2. Candidates(pk)' = Candidates(pk)
    BY <1>1, CandidatesStable
<1>3. \A set, n : FirstOf(set, n, pk)' = FirstOf(set, n, pk)
    BY FirstOfStable
<1> QED BY <1>2, <1>3, Zenon DEF BatchEnrich

(* What the batch pass makes of the snapshots.                              *)
LEMMA EnrichedSnaps ==
    ASSUME IInv, \A s \in Streams : SnapInv(StreamState, s)
    PROVE  /\ \A s \in Streams :
                 /\ BatchEnrich(peak)[s] = Onsets[s]
                    \/ (BatchEnrich(peak)[s] = Richer(s, Onsets[s]) /\ s \in Candidates(Onsets))
           /\ Candidates(BatchEnrich(peak)) = Candidates(peak)
           /\ Cardinality(Candidates(peak)) <= BatchTop => BatchEnrich(peak) = BatchEnrich(Onsets)
<1> DEFINE E == BatchEnrich(peak)
<1>1. /\ tracked \in Seq(Streams) /\ peak \in [Streams -> Snapshot]
      /\ Onsets \in [Streams -> Snapshot]
    BY StateIs, OnsetsAre
<1>2. \A s \in Streams : /\ peak[s] = Onsets[s]
                            \/ (peak[s] = Richer(s, Onsets[s]) /\ s \in Candidates(Onsets))
                         /\ peak[s].value = Onsets[s].value
                         /\ peak[s].history = Onsets[s].history
    BY SnapsAre
<1>3. Candidates(peak) = Candidates(Onsets)
    BY <1>1, <1>2, SameCandidates
<1>4. \A s \in Streams : /\ Richer(s, Onsets[s]).value = Onsets[s].value
                         /\ Richer(s, Onsets[s]).history = Onsets[s].history
                         /\ Richer(s, Richer(s, Onsets[s])) = Richer(s, Onsets[s])
    BY <1>1, RicherIs
<1>5. \A s \in Streams : E[s] = Onsets[s]
                         \/ (E[s] = Richer(s, Onsets[s]) /\ s \in Candidates(Onsets))
    <2> SUFFICES ASSUME NEW s \in Streams
                 PROVE  E[s] = Onsets[s]
                        \/ (E[s] = Richer(s, Onsets[s]) /\ s \in Candidates(Onsets))
        OBVIOUS
    <2>1. E[s] = peak[s] \/ (s \in Candidates(peak) /\ E[s] = Richer(s, peak[s]))
        BY EnrichedIs
    <2> HIDE DEF E
    <2> QED BY <2>1, <1>2, <1>3, <1>4
<1>6. Candidates(E) = Candidates(Onsets)
    <2> HIDE DEF E
    <2>1. \A s \in Streams : E[s].value = Onsets[s].value /\ E[s].history = Onsets[s].history
        BY <1>4, <1>5
    <2> QED BY <1>1, <2>1, SameCandidates
<1>7. ASSUME Cardinality(Candidates(peak)) <= BatchTop
      PROVE  E = BatchEnrich(Onsets)
    <2>1. E = [s \in Streams |-> IF s \in Candidates(peak) THEN Richer(s, peak[s]) ELSE peak[s]]
        BY <1>1, <1>7, EnrichedAll
    <2>2. BatchEnrich(Onsets)
             = [s \in Streams |-> IF s \in Candidates(Onsets) THEN Richer(s, Onsets[s])
                                  ELSE Onsets[s]]
        BY <1>1, <1>3, <1>7, EnrichedAll
    <2>3. \A s \in Streams :
             (IF s \in Candidates(peak) THEN Richer(s, peak[s]) ELSE peak[s])
                = IF s \in Candidates(Onsets) THEN Richer(s, Onsets[s]) ELSE Onsets[s]
        BY <1>2, <1>3, <1>4
    <2> HIDE DEF E
    <2> QED BY <2>1, <2>2, <2>3
<1> QED BY <1>3, <1>5, <1>6, <1>7

LEMMA InitRepInv == Init => RepInv
<1> SUFFICES ASSUME Init PROVE RepInv
    OBVIOUS
<1>1. IInv
    BY InitIInv
<1>2. log = <<>> /\ report = None /\ values = [s \in Streams |-> <<>>]
      /\ peak = [s \in Streams |-> NoPeak]
    BY DEF Init
<1>3. ASSUME NEW s \in Streams PROVE SnapInv(StreamState, s)
    <2> DEFINE st == StreamState
    <2>1. st.values = values /\ st.peak = peak /\ st.log = log
        BY DEF StreamState
    <2> HIDE DEF st
    <2>2. st.values[s] = <<>> /\ st.peak[s] = NoPeak /\ st.log = <<>>
        BY <1>2, <2>1
    <2>3. OnsetSnapshot(<<>>, s) = NoPeak
        <3>1. EntriesOf(<<>>, s) = {}
            BY DEF EntriesOf
        <3> QED BY <3>1, Zenon DEF OnsetSnapshot
    <2>4. Newest(SamplesOf(<<>>, s)) = <<>>
        <3>1. SamplesOf(<<>>, s) = <<>>
            BY NoSamples
        <3> DEFINE m == Max({1, 0 - HistoryLen + 1})
        <3>2. 1 \in Int /\ 0 - HistoryLen + 1 \in Int
            BY LimitsAre
        <3>3. m = 1
            <4>1. m = IF 1 >= 0 - HistoryLen + 1 THEN 1 ELSE 0 - HistoryLen + 1
                BY <3>2, MaxOfTwo, Zenon
            <4> QED BY <4>1, LimitsAre
        <3>4. Len(<<>>) = 0
            OBVIOUS
        <3>5. Newest(<<>>) = SubSeq(<<>>, m, 0)
            BY <3>4, Zenon DEF Newest
        <3> HIDE DEF m
        <3>6. SubSeq(<<>>, 1, 0) = <<>>
            OBVIOUS
        <3> QED BY <3>1, <3>3, <3>5, <3>6
    <2>5. SnapInv(st, s)
        BY <2>2, <2>3, <2>4, Zenon DEF SnapInv
    <2> QED BY <2>5 DEF st
<1>4. RepeatInv
    BY <1>2 DEF RepeatInv, Current
<1> QED BY <1>1, <1>3, <1>4 DEF RepInv

LEMMA ProcessRepInv ==
    ASSUME RepInv, NEW record \in Records, NEW gap \in Gaps, Process(record, gap)
    PROVE  RepInv'
<1> DEFINE st == AfterRecord(record, now')
<1>1. IInv /\ IInv' /\ seen \in Nat /\ now' \in Nat
    BY ProcessIInv DEF RepInv, IInv
<1>2. StreamState' = st
    <2>1. StateInv(st)
        BY <1>1, AfterRecordInv DEF IInv
    <2>2. /\ tracked' = st.tracked /\ values' = st.values /\ peak' = st.peak
          /\ drift' = st.drift /\ timeline' = st.timeline /\ log' = st.log
        BY DEF Process
    <2>3. st \in State
        BY <2>1 DEF StateInv
    <2> HIDE DEF st
    <2>4. st = [tracked |-> st.tracked, values |-> st.values, peak |-> st.peak,
                drift |-> st.drift, timeline |-> st.timeline, log |-> st.log]
        BY <2>3 DEF State
    <2> QED BY <2>2, <2>4 DEF StreamState
<1>3. ASSUME NEW s \in Streams PROVE SnapInv(StreamState, s)'
    <2>1. SnapInv(st, s)
        BY <1>1, AfterRecordSnaps DEF RepInv, IInv
    <2> HIDE DEF st
    <2> QED BY <1>2, <2>1
<1>4. ~Current'
    <2>1. report # None => report.records \in Nat /\ report.records <= seen
        BY <1>1 DEF IInv, ReportInv
    <2>2. report' = report /\ seen' = seen + 1
        BY DEF Process
    <2> QED BY <1>1, <2>1, <2>2 DEF Current
<1> QED BY <1>1, <1>3, <1>4 DEF RepInv, RepeatInv

LEMMA AssembleRepInv ==
    ASSUME RepInv, Assemble
    PROVE  RepInv'
<1>1. /\ peak' = BatchEnrich(peak) /\ tracked' = tracked /\ values' = values /\ log' = log
      /\ UNCHANGED StateForReport
    BY DEF Assemble, StateForReport
<1>2. IInv /\ IInv' /\ \A s \in Streams : SnapInv(StreamState, s)
    BY AssembleIInv DEF RepInv
<1>3. /\ \A s \in Streams :
            \/ peak'[s] = Onsets[s]
            \/ peak'[s] = Richer(s, Onsets[s]) /\ s \in Candidates(Onsets)
      /\ Candidates(peak') = Candidates(peak)
      /\ Cardinality(Candidates(peak)) <= BatchTop => peak' = BatchEnrich(Onsets)
    <2> DEFINE E == BatchEnrich(peak)
    <2>1. /\ \A s \in Streams :
                \/ E[s] = Onsets[s]
                \/ E[s] = Richer(s, Onsets[s]) /\ s \in Candidates(Onsets)
          /\ Candidates(E) = Candidates(peak)
          /\ Cardinality(Candidates(peak)) <= BatchTop => E = BatchEnrich(Onsets)
        BY <1>2, EnrichedSnaps
    <2>2. peak' = E
        BY <1>1
    <2> HIDE DEF E
    <2> QED BY <2>1, <2>2
<1>4. ASSUME NEW s \in Streams PROVE SnapInv(StreamState, s)'
    <2> DEFINE t == StreamState'
               o == OnsetSnapshot(log, s)
    <2>1. t.values = values /\ t.peak = peak' /\ t.tracked = tracked /\ t.log = log
        BY <1>1 DEF StreamState
    <2>2. values[s] = Newest(SamplesOf(log, s)) /\ Onsets[s] = o
        BY <1>2, SnapsAre, OnsetsAre
    <2>3. s \in Candidates(Onsets) => /\ s \in ToSet(tracked)
                                      /\ Len(Onsets[s].history) >= MinHistory
                                      /\ Onsets[s].value > 0
        BY DEF Candidates
    <2> HIDE DEF o
    <2>4. \/ peak'[s] = o
          \/ /\ peak'[s] = Richer(s, o)
             /\ s \in ToSet(tracked) /\ Len(o.history) >= MinHistory /\ o.value > 0
        BY <1>3, <2>2, <2>3
    <2> HIDE DEF t
    <2>5. SnapInv(t, s)
        BY <2>1, <2>2, <2>4 DEF SnapInv, o
    <2> QED BY <2>5 DEF t
<1>5. RepeatInv'
    <2> SUFFICES ASSUME (Current /\ Cardinality(Candidates(peak)) <= BatchTop)'
                 PROVE  (peak = BatchEnrich(Onsets))'
        BY DEF RepeatInv
    <2>1. Candidates(peak)' = Candidates(peak)
        <3>1. Candidates(peak)' = Candidates(peak')
            BY <1>1, CandidatesStable
        <3> QED BY <1>3, <3>1
    <2>2. peak' = BatchEnrich(Onsets)
        BY <1>3, <2>1
    <2>3. Onsets' = Onsets
        BY <1>1, Zenon DEF Onsets
    <2>4. BatchEnrich(Onsets)' = BatchEnrich(Onsets)
        <3> DEFINE pk == Onsets
        <3> QED BY <1>1, <2>3, BatchEnrichStable
    <2> QED BY <2>2, <2>4
<1> QED BY <1>2, <1>4, <1>5 DEF RepInv

LEMMA NextRepInv == RepInv /\ [Next]_vars => RepInv'
<1> SUFFICES ASSUME RepInv, [Next]_vars PROVE RepInv'
    OBVIOUS
<1>1. ASSUME NEW record \in Records, NEW gap \in Gaps, Process(record, gap) PROVE RepInv'
    BY <1>1, ProcessRepInv
<1>2. CASE Assemble
    BY <1>2, AssembleRepInv
<1>3. CASE UNCHANGED vars
    <2>1. /\ tracked' = tracked /\ values' = values /\ peak' = peak /\ seen' = seen
          /\ report' = report /\ log' = log /\ UNCHANGED StateForReport
          /\ StreamState' = StreamState
        BY <1>3 DEF vars, StreamState, StateForReport
    <2>2. IInv'
        BY <1>3, NextIInv DEF RepInv
    <2>3. ASSUME NEW s \in Streams PROVE SnapInv(StreamState, s)'
        BY <2>1 DEF RepInv
    <2>4. RepeatInv'
        <3>1. Candidates(peak)' = Candidates(peak)
            BY <2>1, CandidatesStable
        <3>2. Onsets' = Onsets
            BY <2>1, Zenon DEF Onsets
        <3>3. BatchEnrich(Onsets)' = BatchEnrich(Onsets)
            BY <2>1, <3>2, BatchEnrichStable
        <3> QED BY <2>1, <3>1, <3>3 DEF RepInv, RepeatInv, Current
    <2> QED BY <2>2, <2>3, <2>4 DEF RepInv
<1> QED BY <1>1, <1>2, <1>3 DEF Next

(* A report is the one that would have been made of the same records with   *)
(* no report before it, as long as the batch pass has room for every        *)
(* candidate: assemble() may be called any number of times.                 *)
THEOREM ReportsAreRepeatable == Spec => []AssembleIsRepeatable
<1>1. RepInv => AssembleIsRepeatable
    <2> SUFFICES ASSUME RepInv, Current, Cardinality(Candidates(peak)) <= BatchTop
                 PROVE  report = Report(BatchEnrich(Onsets))
        BY Zenon DEF AssembleIsRepeatable, Onsets
    <2>1. peak = BatchEnrich(Onsets)
        BY DEF RepInv, RepeatInv
    <2>2. report = Report(peak)
        BY DEF RepInv, IInv, ReportInv
    <2> QED BY <2>1, <2>2
<1> QED BY <1>1, InitRepInv, NextRepInv, PTL DEF Spec
-------------------------------------------------------------------------------
(* The fused risk that speaks for its entity, and the event it makes.       *)
Speaks(b, fused) == \A g \in fused : (g.entity = b.entity /\ g # b) => Outranks(b, g)

EventOf(b, rank) == [entity |-> b.entity, metric |-> b.metric, at |-> b.at, issue |-> b.issue,
                     risk |-> b.risk, confidence |-> b.confidence, tti |-> b.tti,
                     rank |-> rank]

LEMMA SpeakerIs ==
    ASSUME NEW fused, IsFiniteSet(fused), \A f \in fused : IsFused(f),
           \A f, g \in fused : f.place = g.place => f = g
    PROVE  /\ \A e \in CollapsePerEntity(fused) :
                 \E b \in fused : Speaks(b, fused) /\ e = EventOf(b, e.rank)
           /\ \A b \in fused : Speaks(b, fused) =>
                 \E rank : EventOf(b, rank) \in CollapsePerEntity(fused)
<1> DEFINE Of(e) == {f \in fused : f.entity = e}
           Best(e) == CHOOSE f \in Of(e) : \A g \in Of(e) \ {f} : Outranks(f, g)
           Rank(f) == Min({g.place : g \in Of(f.entity)})
           named == {f.entity : f \in fused}
<1>1. CollapsePerEntity(fused) = {EventOf(Best(e), Rank(Best(e))) : e \in named}
    BY Zenon DEF CollapsePerEntity, EventOf
<1>2. ASSUME NEW e \in named
      PROVE  Best(e) \in Of(e) /\ \A g \in Of(e) \ {Best(e)} : Outranks(Best(e), g)
    <2>1. IsFiniteSet(Of(e)) /\ Of(e) # {} /\ Of(e) \subseteq fused
        BY FS_Subset
    <2> HIDE DEF Of
    <2>2. \E f \in Of(e) : \A g \in Of(e) \ {f} : Outranks(f, g)
        BY <2>1, BestExists
    <2> QED BY <2>2
<1> HIDE DEF Best
<1>3. ASSUME NEW e \in named
      PROVE  Best(e) \in fused /\ Best(e).entity = e /\ Speaks(Best(e), fused)
    BY <1>2 DEF Speaks
<1>4. \A b, rank : EventOf(b, rank).rank = rank
    BY DEF EventOf
<1>5. ASSUME NEW e \in CollapsePerEntity(fused)
      PROVE  \E b \in fused : Speaks(b, fused) /\ e = EventOf(b, e.rank)
    <2>1. PICK d \in named : e = EventOf(Best(d), Rank(Best(d)))
        BY <1>1, Zenon
    <2> HIDE DEF named, Rank
    <2> QED BY <1>3, <1>4, <2>1
<1>6. ASSUME NEW b \in fused, Speaks(b, fused)
      PROVE  \E rank : EventOf(b, rank) \in CollapsePerEntity(fused)
    <2> DEFINE c == Best(b.entity)
    <2>1. b.entity \in named
        OBVIOUS
    <2>2. c \in fused /\ c.entity = b.entity /\ Speaks(c, fused)
        BY <1>3, <2>1
    <2>3. EventOf(c, Rank(c)) \in CollapsePerEntity(fused)
        BY <1>1, <2>1, Zenon
    <2> HIDE DEF c, Rank
    <2>4. c = b
        <3>1. c # b => Outranks(b, c) /\ Outranks(c, b)
            BY <1>6, <2>2 DEF Speaks
        <3>2. /\ b.excursion \in Nat /\ b.risk \in Nat /\ b.place \in Nat
              /\ c.excursion \in Nat /\ c.risk \in Nat /\ c.place \in Nat
            BY <2>2 DEF IsFused
        <3> QED BY <3>1, <3>2 DEF Outranks
    <2> QED BY <2>3, <2>4
<1> QED BY <1>5, <1>6

IsFusedList(fused) == /\ IsFiniteSet(fused)
                      /\ \A f \in fused : IsFused(f)
                      /\ \A f, g \in fused : f.place = g.place => f = g

AreThoseOf(d, fused, a, S) == {f \in fused : f.entity = d} = {a[s] : s \in S}

(* The same fused risks in the same order, if not at the same places.       *)
SameButPlaces(a, b, S) ==
    /\ \A s \in S : /\ a[s].metric = b[s].metric /\ a[s].at = b[s].at
                    /\ a[s].issue = b[s].issue /\ a[s].risk = b[s].risk
                    /\ a[s].confidence = b[s].confidence /\ a[s].tti = b[s].tti
                    /\ a[s].excursion = b[s].excursion
    /\ \A s, t \in S : a[s].place < a[t].place <=> b[s].place < b[t].place

(* Where the fused risks of an entity are the same and in the same order,   *)
(* wherever they are among all, its event is the same but for its rank.     *)
LEMMA SameSpeaker ==
    ASSUME NEW fused, IsFusedList(fused), NEW other, IsFusedList(other),
           NEW d, NEW S, NEW a, NEW b,
           AreThoseOf(d, fused, a, S), AreThoseOf(d, other, b, S), SameButPlaces(a, b, S),
           NEW e \in CollapsePerEntity(fused), e.entity = d
    PROVE  \E f \in CollapsePerEntity(other) : [f EXCEPT !.rank = e.rank] = e
<1>0. /\ \A f \in fused : IsFused(f)
      /\ \A f \in other : IsFused(f)
      /\ \A f, g \in other : f.place = g.place => f = g
      /\ {f \in fused : f.entity = d} = {a[s] : s \in S}
      /\ {f \in other : f.entity = d} = {b[s] : s \in S}
    BY DEF IsFusedList, AreThoseOf
<1>1. PICK best \in fused : Speaks(best, fused) /\ e = EventOf(best, e.rank)
    BY SpeakerIs DEF IsFusedList
<1>2. best.entity = d
    BY <1>1 DEF EventOf
<1>3. PICK s \in S : best = a[s]
    BY <1>0, <1>2
<1>4. \A t \in S : a[t] \in fused /\ a[t].entity = d /\ b[t] \in other /\ b[t].entity = d
    BY <1>0
<1>5. Speaks(b[s], other)
    <2> SUFFICES ASSUME NEW g \in other, g.entity = d, g # b[s]
                 PROVE  Outranks(b[s], g)
        BY <1>4 DEF Speaks
    <2>1. PICK t \in S : g = b[t]
        BY <1>0
    <2>2. b[s].place \in Nat /\ b[t].place \in Nat /\ a[s].place \in Nat /\ a[t].place \in Nat
        BY <1>0, <1>4 DEF IsFused
    <2>3. b[s].place # b[t].place
        BY <1>0, <1>4, <2>1
    <2>4. a[s].place # a[t].place
        <3>1. /\ a[s].place < a[t].place <=> b[s].place < b[t].place
              /\ a[t].place < a[s].place <=> b[t].place < b[s].place
            BY Zenon DEF SameButPlaces
        <3> QED BY <2>2, <2>3, <3>1
    <2>5. Outranks(a[s], a[t])
        BY <1>1, <1>2, <1>3, <1>4, <2>4 DEF Speaks
    <2> QED BY <2>1, <2>5 DEF Outranks, SameButPlaces
<1>6. PICK rank : EventOf(b[s], rank) \in CollapsePerEntity(other)
    BY <1>4, <1>5, SpeakerIs DEF IsFusedList
<1>7. [EventOf(b[s], rank) EXCEPT !.rank = e.rank] = EventOf(b[s], e.rank)
    BY DEF EventOf
<1>8. EventOf(b[s], e.rank) = EventOf(best, e.rank)
    BY <1>2, <1>3, <1>4, Zenon DEF EventOf, SameButPlaces
<1> QED BY <1>1, <1>6, <1>7, <1>8
-------------------------------------------------------------------------------
(* Room, in the batch pass and in the top K, for all that ever scored.      *)
Room == Cardinality(Scorers) <= BatchTop /\ (TopK = 0 \/ Cardinality(Scorers) <= TopK)

LEMMA ScorersAre ==
    ASSUME tracked \in Seq(Streams)
    PROVE  /\ IsFiniteSet(Scorers) /\ Scorers \subseteq ToSet(tracked)
           /\ ToSet(tracked) \subseteq Streams
<1>1. IsFiniteSet(ToSet(tracked)) /\ ToSet(tracked) \subseteq Streams
    BY ToSetIsFinite
<1>2. Scorers \in SUBSET ToSet(tracked)
    BY DEF Scorers
<1> QED BY <1>1, <1>2, FS_Subset

LEMMA FewFit ==
    ASSUME tracked \in Seq(Streams), NEW set \in SUBSET Scorers
    PROVE  /\ IsFiniteSet(set) /\ Cardinality(set) \in Nat
           /\ Room => Cardinality(set) <= BatchTop
           /\ Room => TopK = 0 \/ Cardinality(set) <= TopK
<1>1. IsFiniteSet(Scorers)
    BY ScorersAre
<1>2. /\ IsFiniteSet(set) /\ Cardinality(set) <= Cardinality(Scorers)
      /\ Cardinality(set) \in Nat /\ Cardinality(Scorers) \in Nat
    BY <1>1, FS_Subset, FS_CardinalityType
<1>3. BatchTop \in Nat /\ TopK \in Nat
    BY LimitAssumption
<1> QED BY <1>2, <1>3 DEF Room

(* What is fused of a stream when no other stream takes its place.          *)
Alone(pk, s, place) ==
    Fused(s, pk[s], drift[EntityOf[s]],
          IF pk[s].value >= ForecastFloor /\ Len(pk[s].history) >= MinHistory
          THEN ForecastOf(s, pk[s].history) ELSE {},
          values[s], place)

Mine(pk, d) == {s \in Screened(pk) : EntityOf[s] = d /\ Alone(pk, s, 0).risk >= IncidentFloor}

PlaceOf(s, pk) == Place(s, Screened(pk), pk)

FusedOfEntity(pk, d) ==
    /\ IsFusedList(FusedByMetric(pk))
    /\ {f \in FusedByMetric(pk) : f.entity = d} = {Alone(pk, s, PlaceOf(s, pk)) : s \in Mine(pk, d)}
    /\ \A s, t \in Mine(pk, d) : PlaceOf(s, pk) < PlaceOf(t, pk) <=> Before(s, t, pk)

LEMMA AloneIs ==
    ASSUME NEW pk, NEW s, NEW place
    PROVE  /\ Alone(pk, s, place).entity = EntityOf[s]
           /\ Alone(pk, s, place).place = place
           /\ Alone(pk, s, place).metric = Alone(pk, s, 0).metric
           /\ Alone(pk, s, place).at = Alone(pk, s, 0).at
           /\ Alone(pk, s, place).issue = Alone(pk, s, 0).issue
           /\ Alone(pk, s, place).risk = Alone(pk, s, 0).risk
           /\ Alone(pk, s, place).confidence = Alone(pk, s, 0).confidence
           /\ Alone(pk, s, place).tti = Alone(pk, s, 0).tti
           /\ Alone(pk, s, place).excursion = Alone(pk, s, 0).excursion
BY Zenon DEF Alone, Fused

(* With room for all, what is fused of an entity depends on its own streams *)
(* and on their order alone.                                                *)
LEMMA FusedWithRoom ==
    ASSUME IInv, Room, NEW pk, Snaps(pk), NEW d
    PROVE  FusedOfEntity(pk, d)
<1> DEFINE screened == Screened(pk)
           all == {Alone(pk, s, PlaceOf(s, pk)) : s \in screened}
<1>1. tracked \in Seq(Streams) /\ ToSet(tracked) \subseteq Streams /\ pk \in [Streams -> Snapshot]
    BY StateIs, ScorersAre DEF Snaps
<1>2. screened \in SUBSET Scorers /\ screened \in SUBSET ToSet(tracked)
    <2> SUFFICES ASSUME NEW s \in screened
                 PROVE  s \in ToSet(tracked) /\ peak[s].value > 0
        BY DEF Scorers
    <2>1. s \in ToSet(tracked) /\ pk[s].value >= TimelineFloor
        BY DEF Screened
    <2>2. s \in Streams /\ pk[s].value \in Nat
        BY <1>1, <2>1 DEF Snapshot
    <2>3. peak[s].value = pk[s].value
        BY <2>2 DEF Snaps
    <2> QED BY <2>1, <2>2, <2>3, LimitsAre
<1> HIDE DEF screened
<1>3. TopK # 0 => FirstOf(screened, TopK, pk) = screened
    <2>1. IsFiniteSet(screened) /\ (TopK # 0 => Cardinality(screened) <= TopK)
        BY <1>1, <1>2, FewFit
    <2>2. \A s \in screened : ~Before(s, s, pk)
        BY <1>1, <1>2, NotBeforeItself
    <2>3. TopK \in Nat
        BY LimitAssumption
    <2> QED BY <2>1, <2>2, <2>3, AllOfFew
<1>4. FusedByMetric(pk) = {f \in all : f.risk >= IncidentFloor}
    <2> DEFINE forecastSet == IF TopK = 0 THEN screened ELSE FirstOf(screened, TopK, pk)
    <2>1. forecastSet = screened
        BY <1>3
    <2>2. FusedByMetric(pk) =
             {f \in {Fused(s, pk[s], drift[EntityOf[s]],
                           IF /\ pk[s].value >= ForecastFloor /\ s \in forecastSet
                              /\ Len(pk[s].history) >= MinHistory
                           THEN ForecastOf(s, pk[s].history) ELSE {},
                           values[s], PlaceOf(s, pk)) : s \in screened} :
                 f.risk >= IncidentFloor}
        BY Zenon DEF FusedByMetric, PlaceOf, screened
    <2> HIDE DEF forecastSet
    <2>3. \A s \in screened :
             Alone(pk, s, PlaceOf(s, pk))
                = Fused(s, pk[s], drift[EntityOf[s]],
                        IF /\ pk[s].value >= ForecastFloor /\ s \in forecastSet
                           /\ Len(pk[s].history) >= MinHistory
                        THEN ForecastOf(s, pk[s].history) ELSE {},
                        values[s], PlaceOf(s, pk))
        <3> SUFFICES ASSUME NEW s \in screened
                     PROVE  (pk[s].value >= ForecastFloor /\ Len(pk[s].history) >= MinHistory)
                               <=> /\ pk[s].value >= ForecastFloor /\ s \in forecastSet
                                   /\ Len(pk[s].history) >= MinHistory
            BY Zenon DEF Alone
        <3> QED BY <2>1
    <2> QED BY <2>2, <2>3
<1>5. {f \in FusedByMetric(pk) : f.entity = d} = {Alone(pk, s, PlaceOf(s, pk)) : s \in Mine(pk, d)}
    <2>1. \A s \in screened : /\ Alone(pk, s, PlaceOf(s, pk)).entity = EntityOf[s]
                              /\ Alone(pk, s, PlaceOf(s, pk)).risk = Alone(pk, s, 0).risk
        BY AloneIs
    <2>2. Mine(pk, d) = {s \in screened : EntityOf[s] = d /\ Alone(pk, s, 0).risk >= IncidentFloor}
        BY DEF Mine, screened
    <2> QED BY <1>4, <2>1, <2>2
<1>6. \A s, t \in Mine(pk, d) : PlaceOf(s, pk) < PlaceOf(t, pk) <=> Before(s, t, pk)
    <2>1. \A s, t \in screened : Place(s, screened, pk) < Place(t, screened, pk) <=> Before(s, t, pk)
        BY <1>2, PlaceIs
    <2>2. Mine(pk, d) \subseteq screened
        BY DEF Mine, screened
    <2> QED BY <2>1, <2>2 DEF PlaceOf, screened
<1>7. IsFusedList(FusedByMetric(pk))
    BY FusedAre DEF IsFusedList
<1> QED BY <1>5, <1>6, <1>7, Zenon DEF FusedOfEntity

FusedOfAll == \A pk, d : Snaps(pk) => FusedOfEntity(pk, d)

LEMMA FusedNow == IInv /\ Room => FusedOfAll
BY FusedWithRoom DEF FusedOfAll

LEMMA FusedNext == IInv' /\ Room' => FusedOfAll'
BY FusedNow, PTL

(* A step that leaves the streams of an entity as they were.                *)
PositionsOf(s) == {i \in DOMAIN tracked : tracked[i] = s}

LeftAlone(d) ==
    /\ drift'[d] = drift[d]
    /\ \A s \in Streams : EntityOf[s] = d => /\ values'[s] = values[s]
                                             /\ peak'[s] = peak[s]
                                             /\ PositionsOf(s)' = PositionsOf(s)

LEMMA SameStream ==
    ASSUME NEW d, LeftAlone(d), NEW pk, NEW qk, NEW s \in Streams, EntityOf[s] = d, pk[s] = qk[s]
    PROVE  /\ s \in ToSet(tracked)' <=> s \in ToSet(tracked)
           /\ Position(s)' = Position(s)
           /\ s \in Screened(qk)' <=> s \in Screened(pk)
           /\ \A place : Alone(qk, s, place)' = Alone(pk, s, place)
<1>1. /\ drift'[d] = drift[d] /\ values'[s] = values[s] /\ PositionsOf(s)' = PositionsOf(s)
    BY DEF LeftAlone
<1>2. \A i : (i \in DOMAIN tracked' /\ tracked'[i] = s) <=> (i \in DOMAIN tracked /\ tracked[i] = s)
    BY <1>1 DEF PositionsOf
<1>3. s \in ToSet(tracked)' <=> s \in ToSet(tracked)
    <2>1. s \in ToSet(tracked') <=> \E i \in DOMAIN tracked' : tracked'[i] = s
        BY DEF ToSet
    <2>2. s \in ToSet(tracked) <=> \E i \in DOMAIN tracked : tracked[i] = s
        BY DEF ToSet
    <2> QED BY <1>2, <2>1, <2>2
<1>4. Position(s)' = Position(s)
    BY <1>2, Zenon DEF Position
<1>5. s \in Screened(qk)' <=> s \in Screened(pk)
    <2>1. s \in Screened(qk)' <=> /\ s \in ToSet(tracked)' /\ qk[s].value >= TimelineFloor
                                  /\ IsGenuineExcursion(s, values'[s])
        BY Zenon DEF Screened
    <2>2. s \in Screened(pk) <=> /\ s \in ToSet(tracked) /\ pk[s].value >= TimelineFloor
                                 /\ IsGenuineExcursion(s, values[s])
        BY Zenon DEF Screened
    <2> QED BY <1>1, <1>3, <2>1, <2>2, Zenon
<1>6. \A place : Alone(qk, s, place)' = Alone(pk, s, place)
    BY <1>1, Zenon DEF Alone
<1> QED BY <1>3, <1>4, <1>5, <1>6

(* With room for all before and after, such a step leaves the event of the  *)
(* entity as it was but for its rank.                                       *)
LEMMA SameEvent ==
    ASSUME IInv, IInv', Room, Room', NEW d, LeftAlone(d), NEW pk, Snaps(pk), NEW qk, Snaps(qk)',
           \A s \in Streams : EntityOf[s] = d => pk[s] = qk[s],
           NEW e \in CollapsePerEntity(FusedByMetric(pk)), e.entity = d
    PROVE  \E f \in CollapsePerEntity(FusedByMetric(qk))' : [f EXCEPT !.rank = e.rank] = e
<1>1. FusedOfEntity(pk, d)
    BY FusedWithRoom
<1>2. FusedOfEntity(qk, d)'
    BY FusedNext DEF FusedOfAll
<1> DEFINE S == Mine(pk, d)
           a == [s \in S |-> Alone(pk, s, PlaceOf(s, pk))]
           b == [s \in S |-> Alone(qk, s, PlaceOf(s, qk))']
           fused == FusedByMetric(pk)
           other == FusedByMetric(qk)'
<1>3. \A s \in S : s \in Streams /\ EntityOf[s] = d /\ pk[s] = qk[s]
    <2>1. S \subseteq ToSet(tracked)
        BY DEF Mine, Screened
    <2>2. ToSet(tracked) \subseteq Streams
        BY StateIs, ScorersAre
    <2> QED BY <2>1, <2>2 DEF Mine
<1>4. \A s : s \in Mine(qk, d)' => s \in Streams /\ EntityOf[s] = d
    <2>1. tracked' \in Seq(Streams)
        BY DEF IInv, StateInv, State, StreamState
    <2>2. ToSet(tracked') \subseteq Streams
        BY <2>1, ToSetIsFinite
    <2>3. \A s : s \in Mine(qk, d)' => s \in ToSet(tracked') /\ EntityOf[s] = d
        BY DEF Mine, Screened
    <2> QED BY <2>2, <2>3
<1>5. \A s \in Streams : EntityOf[s] = d =>
          /\ Position(s)' = Position(s)
          /\ s \in Screened(qk)' <=> s \in Screened(pk)
          /\ \A place : Alone(qk, s, place)' = Alone(pk, s, place)
    <2> SUFFICES ASSUME NEW s \in Streams, EntityOf[s] = d
                 PROVE  /\ Position(s)' = Position(s)
                        /\ s \in Screened(qk)' <=> s \in Screened(pk)
                        /\ \A place : Alone(qk, s, place)' = Alone(pk, s, place)
        OBVIOUS
    <2>1. pk[s] = qk[s]
        OBVIOUS
    <2> QED BY <2>1, SameStream
<1>6. Mine(qk, d)' = S
    <2>1. \A s \in Streams : EntityOf[s] = d => (s \in Mine(qk, d)' <=> s \in S)
        BY <1>5 DEF Mine
    <2> HIDE DEF S
    <2> QED BY <1>3, <1>4, <2>1
<1>7. /\ IsFusedList(fused)
      /\ {f \in fused : f.entity = d} = {Alone(pk, s, PlaceOf(s, pk)) : s \in S}
      /\ \A s, t \in S : PlaceOf(s, pk) < PlaceOf(t, pk) <=> Before(s, t, pk)
    BY <1>1, Zenon DEF FusedOfEntity
<1>8. /\ IsFusedList(other)
      /\ {f \in other : f.entity = d} = {Alone(qk, s, PlaceOf(s, qk))' : s \in S}
      /\ \A s, t \in S : PlaceOf(s, qk)' < PlaceOf(t, qk)' <=> Before(s, t, qk)'
    BY <1>2, <1>6, Zenon DEF FusedOfEntity
<1>9. \A s, t \in S : Before(s, t, qk)' <=> Before(s, t, pk)
    BY <1>3, <1>5 DEF Before
<1>10. /\ \A s \in S : a[s] = Alone(pk, s, PlaceOf(s, pk))
       /\ \A s \in S : b[s] = Alone(qk, s, PlaceOf(s, qk))'
    BY Zenon
<1> HIDE DEF S, a, b, fused, other
<1>11. AreThoseOf(d, fused, a, S) /\ AreThoseOf(d, other, b, S)
    BY <1>7, <1>8, <1>10 DEF AreThoseOf
<1>12. \A s \in S : b[s] = Alone(pk, s, PlaceOf(s, qk)')
    BY <1>3, <1>5, <1>10
<1>13. \A s \in S : /\ a[s].metric = b[s].metric /\ a[s].at = b[s].at
                    /\ a[s].issue = b[s].issue /\ a[s].risk = b[s].risk
                    /\ a[s].confidence = b[s].confidence /\ a[s].tti = b[s].tti
                    /\ a[s].excursion = b[s].excursion
                    /\ a[s].place = PlaceOf(s, pk) /\ b[s].place = PlaceOf(s, qk)'
    <2> SUFFICES ASSUME NEW s \in S
                 PROVE  /\ a[s].metric = b[s].metric /\ a[s].at = b[s].at
                        /\ a[s].issue = b[s].issue /\ a[s].risk = b[s].risk
                        /\ a[s].confidence = b[s].confidence /\ a[s].tti = b[s].tti
                        /\ a[s].excursion = b[s].excursion
                        /\ a[s].place = PlaceOf(s, pk) /\ b[s].place = PlaceOf(s, qk)'
        OBVIOUS
    <2> DEFINE p == PlaceOf(s, pk)
               q == PlaceOf(s, qk)'
    <2>1. a[s] = Alone(pk, s, p) /\ b[s] = Alone(pk, s, q)
        BY <1>10, <1>12
    <2> HIDE DEF p, q
    <2>2. /\ a[s].metric = b[s].metric /\ a[s].at = b[s].at
          /\ a[s].issue = b[s].issue /\ a[s].risk = b[s].risk
          /\ a[s].confidence = b[s].confidence /\ a[s].tti = b[s].tti
          /\ a[s].excursion = b[s].excursion
          /\ a[s].place = p /\ b[s].place = q
        BY <2>1, AloneIs
    <2> QED BY <2>2 DEF p, q
<1>14. SameButPlaces(a, b, S)
    BY <1>7, <1>8, <1>9, <1>13 DEF SameButPlaces
<1>15. e \in CollapsePerEntity(fused)
    BY DEF fused
<1>16. \E f \in CollapsePerEntity(other) : [f EXCEPT !.rank = e.rank] = e
    <2>1. e.entity = d
        OBVIOUS
    <2>2. IsFusedList(fused) /\ IsFusedList(other)
        BY <1>7, <1>8
    <2>3. PICK F, G, T, A, B : F = fused /\ G = other /\ T = S /\ A = a /\ B = b
        OBVIOUS
    <2>4. /\ IsFusedList(F) /\ IsFusedList(G)
          /\ AreThoseOf(d, F, A, T) /\ AreThoseOf(d, G, B, T) /\ SameButPlaces(A, B, T)
          /\ e \in CollapsePerEntity(F)
        BY <1>11, <1>14, <1>15, <2>2, <2>3
    <2>5. \E f \in CollapsePerEntity(G) : [f EXCEPT !.rank = e.rank] = e
        BY <2>1, <2>4, SameSpeaker
    <2> QED BY <2>3, <2>5
<1> QED BY <1>16 DEF other
-------------------------------------------------------------------------------
(* What a record cannot do to the streams: forget what was logged, lower an *)
(* onset, drop a stream, or touch an entity without logging a sample of it. *)
Kept(st, t, d) ==
    /\ t.drift[d] = st.drift[d]
    /\ \A s \in Streams : EntityOf[s] = d =>
          /\ t.values[s] = st.values[s]
          /\ t.peak[s] = st.peak[s]
          /\ {i \in DOMAIN t.tracked : t.tracked[i] = s}
                = {i \in DOMAIN st.tracked : st.tracked[i] = s}

Logged(st, d) == \E i \in DOMAIN st.log : st.log[i].record = seen + 1 /\ st.log[i].entity = d

Reaches(st, t, d) ==
    /\ \A i \in DOMAIN st.log : i \in DOMAIN t.log /\ t.log[i] = st.log[i]
    /\ \A s \in Streams : t.peak[s].value >= st.peak[s].value
    /\ ToSet(st.tracked) \subseteq ToSet(t.tracked)
    /\ Logged(t, d) \/ Kept(st, t, d)

LEMMA ReachesItself ==
    ASSUME NEW st \in State, NEW d
    PROVE  Reaches(st, st, d)
<1>1. \A s \in Streams : st.peak[s].value \in Nat
    BY DEF State, Snapshot
<1>2. Kept(st, st, d)
    BY DEF Kept
<1> QED BY <1>1, <1>2 DEF Reaches

LEMMA ReachesOn ==
    ASSUME NEW st \in State, NEW t \in State, NEW u \in State, NEW d,
           Reaches(st, t, d), Reaches(t, u, d)
    PROVE  Reaches(st, u, d)
<1>1. \A s \in Streams : /\ st.peak[s].value \in Nat /\ t.peak[s].value \in Nat
                         /\ u.peak[s].value \in Nat
    BY DEF State, Snapshot
<1>2. \A i \in DOMAIN st.log : i \in DOMAIN u.log /\ u.log[i] = st.log[i]
    BY Zenon DEF Reaches
<1>3. \A s \in Streams : u.peak[s].value >= st.peak[s].value
    <2>1. \A s \in Streams : /\ t.peak[s].value >= st.peak[s].value
                             /\ u.peak[s].value >= t.peak[s].value
        BY Zenon DEF Reaches
    <2> QED BY <1>1, <2>1
<1>4. ToSet(st.tracked) \subseteq ToSet(u.tracked)
    BY DEF Reaches
<1>5. Logged(u, d) \/ Kept(st, u, d)
    <2>1. Logged(t, d) => Logged(u, d)
        BY Zenon DEF Reaches, Logged
    <2>2. Kept(st, t, d) /\ Kept(t, u, d) => Kept(st, u, d)
        BY Zenon DEF Kept
    <2> QED BY <2>1, <2>2 DEF Reaches
<1> QED BY <1>2, <1>3, <1>4, <1>5, Zenon DEF Reaches

LEMMA AppendIs ==
    ASSUME NEW T, NEW q \in Seq(T), NEW v \in T
    PROVE  /\ \A i \in DOMAIN q : i \in DOMAIN Append(q, v) /\ Append(q, v)[i] = q[i]
           /\ Len(q) + 1 \in DOMAIN Append(q, v) /\ Append(q, v)[Len(q) + 1] = v
           /\ \A s : s # v => {i \in DOMAIN Append(q, v) : Append(q, v)[i] = s}
                                 = {i \in DOMAIN q : q[i] = s}
           /\ ToSet(Append(q, v)) = ToSet(q) \cup {v}
<1> DEFINE n == Len(q)
           r == Append(q, v)
<1>1. n \in Nat /\ DOMAIN q = 1..n /\ DOMAIN r = 1..(n + 1)
    OBVIOUS
<1>2. \A i \in 1..n : r[i] = q[i]
    OBVIOUS
<1>3. r[n + 1] = v
    OBVIOUS
<1>4. ToSet(r) = ToSet(q) \cup {v}
    BY ToSetAppend
<1> HIDE DEF n, r
<1>5. \A s : s # v => {i \in DOMAIN r : r[i] = s} = {i \in DOMAIN q : q[i] = s}
    <2>1. \A i : i \in 1..(n + 1) <=> (i \in 1..n \/ i = n + 1)
        BY <1>1
    <2> QED BY <1>1, <1>2, <1>3, <2>1
<1>6. n + 1 \in 1..(n + 1) /\ \A i \in 1..n : i \in 1..(n + 1)
    BY <1>1
<1> QED BY <1>1, <1>2, <1>3, <1>4, <1>5, <1>6 DEF n, r

LEMMA SampledReaches ==
    ASSUME NEW st \in State, NEW x, IsSample(x), NEW at \in Nat, seen \in Nat, NEW d \in Entities
    PROVE  Reaches(st, Sampled(st, x, at), d)
<1> DEFINE t == Sampled(st, x, at)
<1>0. t = Sampled(st, x, at)
    OBVIOUS
<1> SUFFICES Reaches(st, t, d)
    BY <1>0
<1> HIDE DEF t
<1>1. /\ st.log \in Seq(Entry) /\ st.tracked \in Seq(Streams) /\ st.drift \in [Entities -> Nat]
      /\ \A s \in Streams : st.peak[s].value \in Nat
    BY DEF State, Snapshot
<1>2. ASSUME NEW l \in Entry, l.entity = x.entity, l.record = seen + 1, t.log = Append(st.log, l)
      PROVE  /\ \A i \in DOMAIN st.log : i \in DOMAIN t.log /\ t.log[i] = st.log[i]
             /\ x.entity = d => Logged(t, d)
    <2>1. /\ \A i \in DOMAIN st.log : i \in DOMAIN t.log /\ t.log[i] = st.log[i]
          /\ Len(st.log) + 1 \in DOMAIN t.log /\ t.log[Len(st.log) + 1] = l
        BY <1>1, <1>2, AppendIs
    <2>2. x.entity = d => Logged(t, d)
        BY <1>2, <2>1 DEF Logged
    <2> QED BY <2>1, <2>2
<1>3. x.entity # d => DriftAfter(st.drift, x)[d] = st.drift[d]
    BY <1>1 DEF DriftAfter
<1>4. CASE x.stream = None \/ ~HasRoom(st.tracked, x.stream)
    <2>1. PICK l \in Entry : /\ l.entity = x.entity /\ l.record = seen + 1
                             /\ t.log = Append(st.log, l)
                             /\ t.tracked = st.tracked /\ t.values = st.values
                             /\ t.peak = st.peak /\ t.drift = DriftAfter(st.drift, x)
        BY <1>0, <1>4, UntrackedIs
    <2>2. x.entity # d => Kept(st, t, d)
        BY <1>3, <2>1 DEF Kept
    <2>3. \A s \in Streams : t.peak[s].value >= st.peak[s].value
        BY <1>1, <2>1
    <2> QED BY <1>2, <2>1, <2>2, <2>3 DEF Reaches
<1>5. CASE x.stream # None /\ HasRoom(st.tracked, x.stream)
    <2>1. PICK l \in Entry :
              /\ l.entity = x.entity /\ l.record = seen + 1
              /\ t.log = Append(st.log, l)
              /\ t.tracked = IF x.stream \in ToSet(st.tracked) THEN st.tracked
                             ELSE Append(st.tracked, x.stream)
              /\ t.drift = DriftAfter(st.drift, x)
              /\ \A u \in Streams :
                    /\ t.values[u] = IF u = x.stream THEN Push(st.values[u], x.value)
                                     ELSE st.values[u]
                    /\ t.peak[u] = IF u = x.stream
                                   THEN PeakAfter(st.peak[u], x, Push(st.values[u], x.value), at)
                                   ELSE st.peak[u]
        BY <1>0, <1>5, TrackedIs
    <2>2. x.stream \in Streams /\ EntityOf[x.stream] = x.entity /\ IsScoring(x.scores)
        BY <1>5 DEF IsSample, Scorings
    <2>3. /\ ToSet(st.tracked) \subseteq ToSet(t.tracked)
          /\ \A s : s # x.stream => {i \in DOMAIN t.tracked : t.tracked[i] = s}
                                       = {i \in DOMAIN st.tracked : st.tracked[i] = s}
        <3>1. /\ ToSet(Append(st.tracked, x.stream)) = ToSet(st.tracked) \cup {x.stream}
              /\ \A s : s # x.stream =>
                    {i \in DOMAIN Append(st.tracked, x.stream) : Append(st.tracked, x.stream)[i] = s}
                       = {i \in DOMAIN st.tracked : st.tracked[i] = s}
            BY <1>1, <2>2, AppendIs
        <3>2. CASE x.stream \in ToSet(st.tracked)
            BY <2>1, <3>2
        <3>3. CASE x.stream \notin ToSet(st.tracked)
            <4>1. t.tracked = Append(st.tracked, x.stream)
                BY <2>1, <3>3
            <4> QED BY <3>1, <4>1
        <3> QED BY <3>2, <3>3
    <2>4. x.entity # d => Kept(st, t, d)
        <3> SUFFICES ASSUME x.entity # d PROVE Kept(st, t, d)
            OBVIOUS
        <3>1. t.drift[d] = st.drift[d]
            BY <1>3, <2>1
        <3>2. ASSUME NEW s \in Streams, EntityOf[s] = d
              PROVE  /\ t.values[s] = st.values[s] /\ t.peak[s] = st.peak[s]
                     /\ {i \in DOMAIN t.tracked : t.tracked[i] = s}
                           = {i \in DOMAIN st.tracked : st.tracked[i] = s}
            <4>1. s # x.stream
                BY <2>2, <3>2
            <4> QED BY <2>1, <2>3, <4>1
        <3> QED BY <3>1, <3>2 DEF Kept
    <2>5. ASSUME NEW s \in Streams PROVE t.peak[s].value >= st.peak[s].value
        <3>1. TopScore(x.scores) \in Nat
            BY <2>2, TopScoreIs
        <3>2. CASE s = x.stream
            <4>1. t.peak[s] = PeakAfter(st.peak[s], x, Push(st.values[s], x.value), at)
                BY <2>1, <3>2
            <4> QED BY <1>1, <3>1, <4>1 DEF PeakAfter
        <3>3. CASE s # x.stream
            BY <1>1, <2>1, <3>3
        <3> QED BY <3>2, <3>3
    <2> QED BY <1>2, <2>1, <2>3, <2>4, <2>5 DEF Reaches
<1> QED BY <1>4, <1>5

LEMMA AfterRecordReaches ==
    ASSUME StateInv(StreamState), NEW record \in Records, NEW at \in Nat, seen \in Nat,
           NEW d \in Entities
    PROVE  Reaches(StreamState, AfterRecord(record, at), d)
<1> DEFINE N == Len(record)
<1>1. N \in Nat /\ \A k \in 1..N : IsSample(record[k])
    BY RecordIs
<1>2. PICK B : Unfolds(B, record, at) /\ \A k \in 0..N : StateInv(B[k])
    BY AfterRecordSteps
<1> DEFINE T == {k \in 0..N : Reaches(StreamState, B[k], d)}
<1>3. StreamState \in State /\ \A k \in 0..N : B[k] \in State
    BY <1>2 DEF StateInv
<1>4. 0 \in T
    <2>1. Reaches(StreamState, StreamState, d)
        BY <1>3, ReachesItself
    <2>2. 0 \in 0..N /\ B[0] = StreamState
        BY <1>1, <1>2 DEF Unfolds
    <2> QED BY <2>1, <2>2
<1>5. ASSUME NEW k \in 0..N, k \in T, k < N PROVE k + 1 \in T
    <2>1. k + 1 \in 1..N /\ k + 1 \in 0..N /\ (k + 1) - 1 = k
        BY <1>1, <1>5
    <2>2. B[k + 1] = Sampled(B[k], record[k + 1], at)
        BY <1>2, <2>1 DEF Unfolds
    <2>3. IsSample(record[k + 1]) /\ B[k] \in State /\ B[k + 1] \in State
          /\ Reaches(StreamState, B[k], d)
        BY <1>1, <1>3, <1>5, <2>1
    <2> HIDE DEF N
    <2>4. Reaches(B[k], B[k + 1], d)
        BY <2>2, <2>3, SampledReaches
    <2>5. Reaches(StreamState, B[k + 1], d)
        BY <1>3, <2>3, <2>4, ReachesOn
    <2> QED BY <2>1, <2>5
<1> HIDE DEF T
<1>6. \A k \in 0..N : k \in T
    <2> HIDE DEF N
    <2> QED BY <1>1, <1>4, <1>5, Climb
<1>7. N \in 0..N /\ B[N] = AfterRecord(record, at)
    BY <1>1, <1>2 DEF Unfolds
<1> QED BY <1>6, <1>7 DEF T

LEMMA ProcessReaches ==
    ASSUME IInv, NEW record \in Records, NEW gap \in Gaps, Process(record, gap),
           NEW d \in Entities
    PROVE  Reaches(StreamState, StreamState', d)
<1> DEFINE st == AfterRecord(record, now')
<1>1. StateInv(StreamState) /\ seen \in Nat /\ now' \in Nat
    BY ProcessIInv DEF IInv
<1>2. StateInv(st) /\ Reaches(StreamState, st, d)
    BY <1>1, AfterRecordInv, AfterRecordReaches
<1>3. StreamState' = st
    <2>1. /\ tracked' = st.tracked /\ values' = st.values /\ peak' = st.peak
          /\ drift' = st.drift /\ timeline' = st.timeline /\ log' = st.log
        BY DEF Process
    <2>2. st \in State
        BY <1>2 DEF StateInv
    <2> HIDE DEF st
    <2>3. st = [tracked |-> st.tracked, values |-> st.values, peak |-> st.peak,
                drift |-> st.drift, timeline |-> st.timeline, log |-> st.log]
        BY <2>2 DEF State
    <2> QED BY <2>1, <2>3 DEF StreamState
<1> HIDE DEF st
<1> QED BY <1>2, <1>3

(* What a record does, read from the variables.                             *)
LEMMA ProcessLeaves ==
    ASSUME IInv, NEW record \in Records, NEW gap \in Gaps, Process(record, gap),
           NEW d \in Entities
    PROVE  /\ \A i \in DOMAIN log : i \in DOMAIN log' /\ log'[i] = log[i]
           /\ \A s \in Streams : peak'[s].value >= peak[s].value
           /\ ToSet(tracked) \subseteq ToSet(tracked')
           /\ \/ \E i \in DOMAIN log' : log'[i].record = seen + 1 /\ log'[i].entity = d
              \/ LeftAlone(d)
<1> DEFINE st == StreamState
           t == StreamState'
<1>1. /\ st.tracked = tracked /\ st.values = values /\ st.peak = peak /\ st.drift = drift
      /\ st.log = log
    BY DEF StreamState
<1>2. /\ t.tracked = tracked' /\ t.values = values' /\ t.peak = peak' /\ t.drift = drift'
      /\ t.log = log'
    BY DEF StreamState
<1>3. Reaches(st, t, d)
    BY ProcessReaches
<1> HIDE DEF st, t
<1>4. Kept(st, t, d) => LeftAlone(d)
    BY <1>1, <1>2, Zenon DEF Kept, LeftAlone, PositionsOf
<1>5. Logged(t, d) => \E i \in DOMAIN log' : log'[i].record = seen + 1 /\ log'[i].entity = d
    BY <1>2, Zenon DEF Logged
<1> QED BY <1>1, <1>2, <1>3, <1>4, <1>5 DEF Reaches

(* Room is never gained by a record.                                        *)
LEMMA RoomWasThere ==
    ASSUME IInv, IInv', Room', \A s \in Streams : peak'[s].value >= peak[s].value,
           ToSet(tracked) \subseteq ToSet(tracked')
    PROVE  Room
<1>1. tracked \in Seq(Streams) /\ tracked' \in Seq(Streams)
      /\ peak \in [Streams -> Snapshot] /\ peak' \in [Streams -> Snapshot]
    BY DEF IInv, StateInv, State, StreamState
<1>2. ToSet(tracked') \subseteq Streams /\ IsFiniteSet(ToSet(tracked'))
    BY <1>1, ToSetIsFinite
<1>3. Scorers' = {s \in ToSet(tracked') : peak'[s].value > 0}
    BY DEF Scorers
<1>4. IsFiniteSet(Scorers')
    BY <1>2, <1>3, FS_Subset
<1>5. Scorers \in SUBSET Scorers'
    <2> SUFFICES ASSUME NEW s \in Scorers PROVE s \in ToSet(tracked') /\ peak'[s].value > 0
        BY <1>3
    <2>1. s \in ToSet(tracked') /\ peak[s].value > 0
        BY DEF Scorers
    <2>2. peak[s].value \in Nat /\ peak'[s].value \in Nat /\ s \in Streams
        BY <1>1, <1>2, <2>1 DEF Snapshot
    <2> QED BY <2>1, <2>2
<1>6. /\ Cardinality(Scorers) <= Cardinality(Scorers')
      /\ Cardinality(Scorers) \in Nat /\ Cardinality(Scorers') \in Nat
    BY <1>4, <1>5, FS_Subset, FS_CardinalityType
<1>7. BatchTop \in Nat /\ TopK \in Nat
    BY LimitAssumption
<1>8. Cardinality(Scorers') <= BatchTop /\ (TopK = 0 \/ Cardinality(Scorers') <= TopK)
    BY DEF Room
<1> QED BY <1>6, <1>7, <1>8 DEF Room
-------------------------------------------------------------------------------
(* An event of the last report that nothing has touched is the one that a   *)
(* report would have now, with room for all.                                *)
Untouched(e) == \A i \in DOMAIN log : log[i].record > report.records => log[i].entity # e.entity

StaysAs(e) == \E f \in CollapsePerEntity(FusedByMetric(BatchEnrich(peak))) :
                  [f EXCEPT !.rank = e.rank] = e

Stays == (report # None /\ Room) => \A e \in EventsOf(report) : Untouched(e) => StaysAs(e)

StayInv == IInv /\ Stays

LEMMA ExceptTwice ==
    ASSUME NEW g, NEW x, NEW y
    PROVE  [[g EXCEPT !.rank = x] EXCEPT !.rank = y] = [g EXCEPT !.rank = y]
OBVIOUS

LEMMA EventIs ==
    ASSUME IInv, NEW pk, Snaps(pk), NEW f \in CollapsePerEntity(FusedByMetric(pk))
    PROVE  /\ f.entity \in Entities
           /\ \A rank : [f EXCEPT !.rank = rank].entity = f.entity
           /\ [f EXCEPT !.rank = f.rank] = f
<1>1. PICK b \in FusedByMetric(pk) : f = EventOf(b, f.rank)
    BY FusedAre, SpeakerIs
<1>2. IsFused(b)
    BY FusedAre
<1>3. b.entity \in Entities
    BY <1>2 DEF IsFused
<1> QED BY <1>1, <1>3 DEF EventOf

(* The snapshots of the next report, with room for all.                     *)
Enriched == /\ BatchEnrich(peak) = [s \in Streams |-> IF s \in Candidates(peak)
                                                      THEN Richer(s, peak[s]) ELSE peak[s]]
            /\ Snaps(BatchEnrich(peak))

LEMMA EnrichedNow == IInv /\ Room => Enriched
<1> SUFFICES ASSUME IInv, Room PROVE Enriched
    OBVIOUS
<1>1. tracked \in Seq(Streams) /\ peak \in [Streams -> Snapshot]
    BY StateIs
<1>2. Candidates(peak) \in SUBSET Scorers
    BY DEF Candidates, Scorers
<1>3. Cardinality(Candidates(peak)) <= BatchTop
    BY <1>1, <1>2, FewFit
<1>4. Snaps(BatchEnrich(peak))
    BY <1>1, BatchEnrichIs DEF Snaps
<1> QED BY <1>1, <1>3, <1>4, EnrichedAll DEF Enriched

LEMMA EnrichedNext == IInv' /\ Room' => Enriched'
BY EnrichedNow, PTL

LEMMA ProcessStays ==
    ASSUME StayInv, NEW record \in Records, NEW gap \in Gaps, Process(record, gap)
    PROVE  StayInv'
<1>1. IInv /\ IInv' /\ report' = report
    BY ProcessIInv DEF StayInv, Process
<1> SUFFICES ASSUME report # None, Room', NEW e \in EventsOf(report), Untouched(e)'
             PROVE  StaysAs(e)'
    <2>1. (report # None /\ Room') =>
              \A e \in EventsOf(report) : Untouched(e)' => StaysAs(e)'
        OBVIOUS
    <2> QED BY <1>1, <2>1 DEF StayInv, Stays
<1>2. /\ tracked \in Seq(Streams) /\ log \in Seq(Entry) /\ peak \in [Streams -> Snapshot]
      /\ ToSet(tracked) \subseteq Streams
    BY <1>1, StateIs, ScorersAre
<1>3. Room
    <2>1. ASSUME NEW s \in Streams
          PROVE  peak'[s].value >= peak[s].value /\ ToSet(tracked) \subseteq ToSet(tracked')
        <3>1. EntityOf[s] \in Entities
            BY StreamAssumption
        <3> QED BY <1>1, <3>1, ProcessLeaves
    <2>2. ToSet(tracked) \subseteq ToSet(tracked')
        BY <1>2, <2>1
    <2> QED BY <1>1, <2>1, <2>2, RoomWasThere
<1>4. \A i \in DOMAIN log : i \in DOMAIN log' /\ log'[i] = log[i]
    <2> SUFFICES ASSUME NEW i \in DOMAIN log PROVE i \in DOMAIN log' /\ log'[i] = log[i]
        OBVIOUS
    <2>1. log[i] \in Entry
        BY <1>2, ElementIs
    <2>2. log[i].entity \in Entities
        BY <2>1 DEF Entry
    <2> QED BY <1>1, <2>2, ProcessLeaves
<1>5. Untouched(e)
    BY <1>1, <1>4 DEF Untouched
<1>6. PICK f \in CollapsePerEntity(FusedByMetric(BatchEnrich(peak))) : [f EXCEPT !.rank = e.rank] = e
    BY <1>3, <1>5 DEF StayInv, Stays, StaysAs
<1>7. Enriched /\ Enriched'
    BY <1>1, <1>3, EnrichedNow, EnrichedNext
<1> DEFINE d == f.entity
<1>8. d \in Entities /\ e.entity = d
    <2>1. PICK pk : pk = BatchEnrich(peak)
        OBVIOUS
    <2>2. Snaps(pk) /\ f \in CollapsePerEntity(FusedByMetric(pk))
        BY <1>7, <2>1 DEF Enriched
    <2>3. f.entity \in Entities /\ [f EXCEPT !.rank = e.rank].entity = f.entity
        BY <1>1, <2>2, EventIs
    <2> QED BY <1>6, <2>3
<1> HIDE DEF d
<1>9. LeftAlone(d)
    <2>1. report.records \in Nat /\ report.records <= seen /\ seen \in Nat
        BY <1>1 DEF IInv, ReportInv
    <2>2. \A i \in DOMAIN log' : log'[i].record > report.records => log'[i].entity # e.entity
        BY <1>1 DEF Untouched
    <2>3. seen + 1 > report.records
        BY <2>1
    <2>4. ~\E i \in DOMAIN log' : log'[i].record = seen + 1 /\ log'[i].entity = d
        BY <1>8, <2>2, <2>3
    <2> QED BY <1>1, <1>8, <2>4, ProcessLeaves
<1>10. PICK pk, qk : pk = BatchEnrich(peak) /\ qk = BatchEnrich(peak)'
    OBVIOUS
<1>11. Snaps(pk) /\ Snaps(qk)'
    BY <1>7, <1>10 DEF Enriched
<1>12. ASSUME NEW s \in Streams, EntityOf[s] = d PROVE pk[s] = qk[s]
    <2>1. peak'[s] = peak[s]
        BY <1>9, <1>12 DEF LeftAlone
    <2>2. s \in ToSet(tracked)' <=> s \in ToSet(tracked)
        BY <1>9, <1>12, SameStream
    <2>3. s \in Candidates(peak)' <=> s \in Candidates(peak)
        BY <2>1, <2>2 DEF Candidates
    <2>4. /\ pk[s] = IF s \in Candidates(peak) THEN Richer(s, peak[s]) ELSE peak[s]
          /\ qk[s] = IF s \in Candidates(peak)' THEN Richer(s, peak'[s]) ELSE peak'[s]
        BY <1>7, <1>10 DEF Enriched
    <2> QED BY <2>1, <2>3, <2>4
<1>13. f \in CollapsePerEntity(FusedByMetric(pk)) /\ f.entity = d
    BY <1>6, <1>10 DEF d
<1>14. PICK g \in CollapsePerEntity(FusedByMetric(qk))' : [g EXCEPT !.rank = f.rank] = f
    BY <1>1, <1>3, <1>9, <1>11, <1>12, <1>13, SameEvent
<1>15. [g EXCEPT !.rank = e.rank] = e
    BY <1>6, <1>14, ExceptTwice
<1>16. g \in CollapsePerEntity(FusedByMetric(BatchEnrich(peak)))'
    BY <1>10, <1>14
<1> QED BY <1>15, <1>16 DEF StaysAs

(* The events of the next report are those that StaysAs speaks of.          *)
LEMMA EventsOfNext ==
    ASSUME Assemble
    PROVE  EventsOf(report') = CollapsePerEntity(FusedByMetric(BatchEnrich(peak)))
<1>1. PICK pk, r : pk = BatchEnrich(peak) /\ r = report'
    OBVIOUS
<1>2. r = Report(pk)
    BY <1>1 DEF Assemble
<1>3. EventsOf(r) = CollapsePerEntity(FusedByMetric(pk))
    BY <1>2, ReportParts
<1> QED BY <1>1, <1>3

LEMMA AssembleStays ==
    ASSUME StayInv, Assemble
    PROVE  StayInv'
<1>1. /\ IInv /\ IInv' /\ peak' = BatchEnrich(peak) /\ tracked' = tracked
      /\ UNCHANGED StateForReport
    BY AssembleIInv DEF StayInv, Assemble, StateForReport
<1> SUFFICES ASSUME Room', NEW e \in EventsOf(report') PROVE StaysAs(e)'
    BY <1>1 DEF StayInv, Stays
<1>2. /\ tracked \in Seq(Streams) /\ peak \in [Streams -> Snapshot]
      /\ ToSet(tracked) \subseteq Streams
    BY <1>1, StateIs, ScorersAre
<1>3. Room
    <2>1. ASSUME NEW s \in Streams PROVE peak'[s].value >= peak[s].value
        <3>1. peak'[s].value = peak[s].value /\ peak[s].value \in Nat
            BY <1>1, <1>2, BatchEnrichIs DEF Snapshot
        <3> QED BY <3>1
    <2> QED BY <1>1, <2>1, RoomWasThere
<1>4. Enriched /\ Enriched'
    BY <1>1, <1>3, EnrichedNow, EnrichedNext
<1>5. PICK pk, qk, p : pk = BatchEnrich(peak) /\ qk = BatchEnrich(peak)' /\ p = peak
    OBVIOUS
<1>6. \A s \in Streams : /\ Richer(s, p[s]).value = p[s].value
                         /\ Richer(s, p[s]).history = p[s].history
                         /\ Richer(s, Richer(s, p[s])) = Richer(s, p[s])
    BY <1>2, <1>5, RicherIs
<1>7. pk = [s \in Streams |-> IF s \in Candidates(p) THEN Richer(s, p[s]) ELSE p[s]]
    BY <1>4, <1>5 DEF Enriched
<1>8. Candidates(peak)' = Candidates(p)
    <2>1. \A s \in Streams : pk[s].value = p[s].value /\ pk[s].history = p[s].history
        BY <1>6, <1>7
    <2>2. Candidates(pk) = Candidates(p)
        BY <1>2, <2>1, SameCandidates
    <2>3. Candidates(pk)' = Candidates(pk)
        BY <1>1, CandidatesStable
    <2>4. Candidates(peak)' = Candidates(pk)'
        BY <1>1, <1>5
    <2> QED BY <2>2, <2>3, <2>4
<1>9. qk = pk
    <2>1. qk = [s \in Streams |-> IF s \in Candidates(peak)' THEN Richer(s, peak'[s]) ELSE peak'[s]]
        BY <1>4, <1>5 DEF Enriched
    <2>2. qk = [s \in Streams |-> IF s \in Candidates(p) THEN Richer(s, pk[s]) ELSE pk[s]]
        BY <1>1, <1>5, <1>8, <2>1
    <2>3. \A s \in Streams : (IF s \in Candidates(p) THEN Richer(s, pk[s]) ELSE pk[s]) = pk[s]
        BY <1>6, <1>7
    <2>4. pk = [s \in Streams |-> pk[s]]
        BY <1>7
    <2> QED BY <2>2, <2>3, <2>4
<1>10. e \in CollapsePerEntity(FusedByMetric(pk))
    BY <1>5, EventsOfNext
<1>11. e \in CollapsePerEntity(FusedByMetric(pk))'
    BY <1>1, <1>10, FusedStable
<1>12. e \in CollapsePerEntity(FusedByMetric(BatchEnrich(peak)))'
    BY <1>5, <1>9, <1>11
<1>13. [e EXCEPT !.rank = e.rank] = e
    <2>1. Snaps(pk)
        BY <1>4, <1>5 DEF Enriched
    <2> QED BY <1>1, <1>10, <2>1, EventIs
<1> QED BY <1>12, <1>13 DEF StaysAs

LEMMA InitStays == Init => StayInv
BY InitIInv DEF StayInv, Stays, Init

LEMMA NextStays == StayInv /\ [Next]_vars => StayInv'
<1> SUFFICES ASSUME StayInv, [Next]_vars PROVE StayInv'
    OBVIOUS
<1>1. ASSUME NEW record \in Records, NEW gap \in Gaps, Process(record, gap) PROVE StayInv'
    BY <1>1, ProcessStays
<1>2. CASE Assemble
    BY <1>2, AssembleStays
<1>3. CASE UNCHANGED vars
    <2>1. /\ tracked' = tracked /\ peak' = peak /\ report' = report /\ log' = log
          /\ UNCHANGED StateForReport
        BY <1>3 DEF vars, StateForReport
    <2>2. IInv'
        BY <1>3, NextIInv DEF StayInv
    <2>3. Room' = Room
        <3>1. Scorers' = Scorers
            BY <2>1, Zenon DEF Scorers
        <3> QED BY <3>1 DEF Room
    <2>4. ASSUME NEW e PROVE Untouched(e)' = Untouched(e) /\ StaysAs(e)' = StaysAs(e)
        <3>1. Untouched(e)' = Untouched(e)
            BY <2>1, Zenon DEF Untouched
        <3>2. PICK pk : pk = BatchEnrich(peak)
            OBVIOUS
        <3>3. BatchEnrich(peak)' = pk
            BY <2>1, <3>2, BatchEnrichStable
        <3>4. FusedByMetric(pk)' = FusedByMetric(pk)
            BY <2>1, FusedStable
        <3>5. FusedByMetric(BatchEnrich(peak))' = FusedByMetric(BatchEnrich(peak))
            BY <3>2, <3>3, <3>4
        <3>6. StaysAs(e)' = StaysAs(e)
            BY <3>5, Zenon DEF StaysAs
        <3> QED BY <3>1, <3>6
    <2> QED BY <2>1, <2>2, <2>3, <2>4 DEF StayInv, Stays
<1> QED BY <1>1, <1>2, <1>3 DEF Next

(* An event does not fade because of its surroundings: with room in the     *)
(* batch pass and the top K for every stream that ever scored, the event of *)
(* an entity that has had no record since the last report is in the next    *)
(* one as it was but for its rank, whatever happened to all the others.     *)
THEOREM UntouchedEventsStayed == Spec => UntouchedEventsStay
<1>1. StayInv /\ [Next]_vars =>
          [(report # None /\ report' # report /\ Room) =>
              \A e \in EventsOf(report) : Untouched(e) =>
                  \E f \in EventsOf(report') : [f EXCEPT !.rank = e.rank] = e]_vars
    <2> SUFFICES ASSUME StayInv, [Next]_vars, report # None, report' # report, Room,
                        NEW e \in EventsOf(report), Untouched(e)
                 PROVE  \E f \in EventsOf(report') : [f EXCEPT !.rank = e.rank] = e
        OBVIOUS
    <2>1. Assemble
        BY DEF Next, Process, vars
    <2>2. EventsOf(report') = CollapsePerEntity(FusedByMetric(BatchEnrich(peak)))
        BY <2>1, EventsOfNext
    <2>3. StaysAs(e)
        BY DEF StayInv, Stays
    <2> QED BY <2>2, <2>3 DEF StaysAs
<1>2. StayInv /\ [Next]_vars =>
          [(/\ report # None /\ report' # report
            /\ Cardinality(Scorers) <= BatchTop
            /\ TopK = 0 \/ Cardinality(Scorers) <= TopK)
           => \A e \in EventsOf(report) :
                 (\A i \in DOMAIN log : log[i].record > report.records => log[i].entity # e.entity) =>
                     \E f \in EventsOf(report') : [f EXCEPT !.rank = e.rank] = e]_vars
    BY <1>1, Zenon DEF Room, Untouched
<1> QED BY <1>2, InitStays, NextStays, PTL DEF Spec, UntouchedEventsStay
===============================================================================
