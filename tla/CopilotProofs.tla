----------------------------- MODULE CopilotProofs -----------------------------
(***************************************************************************)
(* That an answer is grounded, whichever backend gave it and whatever the  *)
(* corpus, the query, the analytics and the model are: the retrieval first *)
(* (what is cut off a ranking is worse than what is kept), then the copilot *)
(* from the request to the answer.                                         *)
(***************************************************************************)
EXTENDS Copilot, FiniteSetTheorems, TLAPS

LEMMA MinOfTwo ==
    ASSUME NEW a \in Int, NEW b \in Int
    PROVE  Min({a, b}) = IF a <= b THEN a ELSE b
<1>1. CASE a <= b
  <2>1. a \in {a, b} /\ \A y \in {a, b} : a <= y
    BY <1>1
  <2>2. \A x \in {a, b} : (\A y \in {a, b} : x <= y) => x = a
    BY <1>1
  <2> QED
    BY <1>1, <2>1, <2>2 DEF Min
<1>2. CASE ~(a <= b)
  <2>1. b \in {a, b} /\ \A y \in {a, b} : b <= y
    BY <1>2
  <2>2. \A x \in {a, b} : (\A y \in {a, b} : x <= y) => x = b
    BY <1>2
  <2> QED
    BY <1>2, <2>1, <2>2 DEF Min
<1> QED
  BY <1>1, <1>2
-------------------------------------------------------------------------------
(* Rankings: a ranking names each of its chunks once; cutting it keeps the  *)
(* best.                                                                    *)
LEMMA ChunksAreFinite ==
    ASSUME NEW S, NEW s \in Seq(S)
    PROVE  IsFiniteSet(ToSet(s)) /\ ToSet(s) \subseteq S
<1> DEFINE T == ToSet(s)
<1>1. s \in Surjection(1..Len(s), T)
  <2>1. DOMAIN s = 1..Len(s) /\ \A i \in 1..Len(s) : s[i] \in T
    BY DEF ToSet
  <2>2. s \in [1..Len(s) -> T]
    BY <2>1
  <2>3. \A t \in T : \E i \in 1..Len(s) : s[i] = t
    BY <2>1 DEF ToSet
  <2> QED
    BY <2>2, <2>3 DEF Surjection
<1>2. IsFiniteSet(1..Len(s))
  BY FS_Interval
<1> QED
  BY <1>1, <1>2, FS_Surjection DEF ToSet

LEMMA RankingNamesAll ==
    ASSUME NEW S, IsFiniteSet(S), NEW s \in SetToSeqs(S)
    PROVE  /\ s \in Seq(S) /\ ToSet(s) = S
           /\ \A i, j \in DOMAIN s : i # j => s[i] # s[j]
           /\ Len(s) = 0 <=> S = {}
<1>1. Cardinality(S) \in Nat
  BY FS_CardinalityType
<1>2. /\ s \in [1..Cardinality(S) -> S]
      /\ \A i, j \in 1..Cardinality(S) : i # j => s[i] # s[j]
  BY DEF SetToSeqs
<1>3. s \in Seq(S) /\ Len(s) = Cardinality(S) /\ DOMAIN s = 1..Cardinality(S)
  BY <1>1, <1>2
<1>4. s \in Injection(1..Cardinality(S), S)
  BY <1>2, Zenon DEF Injection, IsInjective
<1>5. IsFiniteSet(1..Cardinality(S)) /\ Cardinality(1..Cardinality(S)) = Cardinality(S)
  BY <1>1, FS_Interval
<1>6. s \in Surjection(1..Cardinality(S), S)
  BY <1>4, <1>5, FS_Injection
<1>7. ToSet(s) = S
  BY <1>3, <1>6 DEF ToSet, Surjection
<1> QED
  BY <1>2, <1>3, <1>7, FS_EmptySet

LEMMA TakeIsPrefix ==
    ASSUME NEW S, NEW s \in Seq(S), NEW n \in Nat
    PROVE  /\ Take(s, n) \in Seq(S)
           /\ Len(Take(s, n)) = IF Len(s) <= n THEN Len(s) ELSE n
           /\ \A i \in 1..Len(Take(s, n)) : Take(s, n)[i] = s[i]
           /\ ToSet(Take(s, n)) \subseteq ToSet(s)
<1>1. CASE Len(s) <= n
  BY <1>1 DEF Take, ToSet
<1>2. CASE ~(Len(s) <= n)
  <2>1. Take(s, n) = SubSeq(s, 1, n)
    BY <1>2 DEF Take
  <2>2. n \in 0..Len(s)
    BY <1>2
  <2>3. Len(Take(s, n)) = n /\ Take(s, n) \in Seq(S)
    BY <2>1, <2>2
  <2>4. \A i \in 1..n : Take(s, n)[i] = s[i]
    BY <2>1, <2>2
  <2> QED
    BY <1>2, <2>3, <2>4 DEF ToSet
<1> QED
  BY <1>1, <1>2

LEMMA PlaceOfNamed ==
    ASSUME NEW s, NEW c \in ToSet(s)
    PROVE  PlaceIn(s, c) \in DOMAIN s /\ s[PlaceIn(s, c)] = c
BY Zenon DEF ToSet, PlaceIn

(* What may not stand before another stands in front of it, also where the  *)
(* ranking is cut, once or twice.                                           *)
Cut(t, s) == Len(t) <= Len(s) /\ \A k \in 1..Len(t) : t[k] = s[k]

LEMMA CutKeepsTheBest ==
    ASSUME NEW S, IsFiniteSet(S), NEW s \in SetToSeqs(S), NEW before,
           \A i, j \in DOMAIN s : i < j => <<s[i], s[j]>> \in before,
           NEW t \in Seq(S), Cut(t, s),
           NEW c \in ToSet(t), NEW d \in S, c # d, <<c, d>> \notin before
    PROVE  d \in ToSet(t) /\ PlaceIn(t, d) < PlaceIn(t, c)
<1> DEFINE i == PlaceIn(t, c)
           j == PlaceIn(s, d)
<1>1. s \in Seq(S) /\ ToSet(s) = S /\ \A k, l \in DOMAIN s : k # l => s[k] # s[l]
  BY RankingNamesAll
<1>2. Len(t) <= Len(s) /\ \A k \in 1..Len(t) : t[k] = s[k]
  BY DEF Cut
<1>3. i \in 1..Len(t) /\ t[i] = c
  BY PlaceOfNamed
<1>4. j \in 1..Len(s) /\ s[j] = d
  BY <1>1, PlaceOfNamed
<1>5. j < i
  <2>1. i \in DOMAIN s /\ s[i] = c /\ i \in Nat /\ j \in Nat
    BY <1>1, <1>2, <1>3, <1>4
  <2>2. i # j
    BY <1>4, <2>1
  <2>3. ~(i < j)
    BY <1>1, <1>4, <2>1
  <2> QED
    BY <2>1, <2>2, <2>3
<1>6. j \in 1..Len(t) /\ t[j] = d
  BY <1>2, <1>3, <1>4, <1>5
<1>7. d \in ToSet(t)
  BY <1>6 DEF ToSet
<1>8. PlaceIn(t, d) = j
  <2>1. PlaceIn(t, d) \in 1..Len(t) /\ t[PlaceIn(t, d)] = d
    BY <1>7, PlaceOfNamed
  <2> QED
    BY <1>1, <1>2, <1>6, <2>1
<1> QED
  BY <1>5, <1>7, <1>8

LEMMA TakeCuts ==
    ASSUME NEW S, NEW s \in Seq(S), NEW t \in Seq(S), Cut(t, s), NEW n \in Nat
    PROVE  /\ Take(t, n) \in Seq(S) /\ Cut(Take(t, n), s)
           /\ n # 0 /\ Len(t) # 0 => Len(Take(t, n)) # 0
BY TakeIsPrefix DEF Cut
-------------------------------------------------------------------------------
(* Fractions: a sum grows with its parts.                                   *)
Fractions == [num : {0, 1}, den : Nat \ {0}]

AtMost(p, q) == p.num * q.den <= q.num * p.den

LEMMA TimesPositive ==
    ASSUME NEW a \in Int, NEW b \in Int, NEW k \in Nat \ {0}
    PROVE  (a <= b => a * k <= b * k) /\ (a < b => a * k < b * k)
OBVIOUS

LEMMA SumsGrow ==
    ASSUME NEW p \in Fractions, NEW q \in Fractions, AtMost(p, q),
           NEW r \in Fractions, NEW s \in Fractions, AtMost(r, s),
           More(q, p) \/ More(s, r)
    PROVE  More(SumOf(q, s), SumOf(p, r)) /\ ~More(SumOf(p, r), SumOf(q, s))
<1> DEFINE pq == p.num * q.den
           qp == q.num * p.den
           rs == r.num * s.den
           sr == s.num * r.den
           left  == r.den * s.den
           right == p.den * q.den
<1>1. /\ p.num \in Int /\ q.num \in Int /\ r.num \in Int /\ s.num \in Int
      /\ p.den \in Nat \ {0} /\ q.den \in Nat \ {0}
      /\ r.den \in Nat \ {0} /\ s.den \in Nat \ {0}
  BY DEF Fractions
<1>2. /\ pq \in Int /\ qp \in Int /\ rs \in Int /\ sr \in Int
      /\ left \in Nat \ {0} /\ right \in Nat \ {0}
  BY <1>1
<1>3. pq <= qp /\ rs <= sr /\ (pq < qp \/ rs < sr)
  BY <1>1 DEF AtMost, More
<1>4. pq * left + rs * right < qp * left + sr * right
  <2>1. /\ pq * left <= qp * left /\ (pq < qp => pq * left < qp * left)
        /\ rs * right <= sr * right /\ (rs < sr => rs * right < sr * right)
    BY <1>2, <1>3, TimesPositive
  <2> HIDE DEF pq, qp, rs, sr, left, right
  <2>2. /\ pq * left \in Int /\ qp * left \in Int
        /\ rs * right \in Int /\ sr * right \in Int
    BY <1>2
  <2> QED
    BY <1>3, <2>1, <2>2
<1>5. SumOf(p, r).num * SumOf(q, s).den = pq * left + rs * right
  BY <1>1 DEF SumOf
<1>6. SumOf(q, s).num * SumOf(p, r).den = qp * left + sr * right
  BY <1>1 DEF SumOf
<1> HIDE DEF pq, qp, rs, sr, left, right
<1>7. pq * left + rs * right \in Int /\ qp * left + sr * right \in Int
  BY <1>2
<1> QED
  BY <1>4, <1>5, <1>6, <1>7 DEF More

(* A better place has the greater reciprocal, any place a greater one than  *)
(* none.                                                                    *)
LEMMA ReciprocalsFall ==
    ASSUME NEW S, NEW s \in Seq(S), NEW c, NEW d,
           c \in ToSet(s) => d \in ToSet(s) /\ PlaceIn(s, d) < PlaceIn(s, c)
    PROVE  /\ Reciprocal(s, c) \in Fractions /\ Reciprocal(s, d) \in Fractions
           /\ AtMost(Reciprocal(s, c), Reciprocal(s, d))
           /\ c \in ToSet(s) => More(Reciprocal(s, d), Reciprocal(s, c))
<1>1. \A e \in ToSet(s) : PlaceIn(s, e) \in Nat \ {0}
  BY PlaceOfNamed
<1>2. RrfK \in Nat
  BY RetrievalAssumption
<1>3. Reciprocal(s, c) \in Fractions /\ Reciprocal(s, d) \in Fractions
  BY <1>1, <1>2 DEF Reciprocal, Fractions
<1>4. CASE c \in ToSet(s)
  <2> DEFINE i == RrfK + PlaceIn(s, c)
             j == RrfK + PlaceIn(s, d)
  <2>1. i \in Int /\ j \in Int /\ j < i
    BY <1>1, <1>2, <1>4
  <2>2. /\ Reciprocal(s, c) = [num |-> 1, den |-> i]
        /\ Reciprocal(s, d) = [num |-> 1, den |-> j]
    BY <1>4 DEF Reciprocal
  <2> HIDE DEF i, j
  <2> QED
    BY <1>3, <1>4, <2>1, <2>2 DEF AtMost, More
<1>5. CASE c \notin ToSet(s)
  <2>1. Reciprocal(s, c) = [num |-> 0, den |-> 1]
    BY <1>5 DEF Reciprocal
  <2>2. Reciprocal(s, d).num \in {0, 1} /\ Reciprocal(s, d).den \in Nat \ {0}
    BY <1>3 DEF Fractions
  <2> QED
    BY <1>3, <1>5, <2>1, <2>2 DEF AtMost
<1> QED
  BY <1>3, <1>4, <1>5
-------------------------------------------------------------------------------
(* What a request is given: some of the corpus, if there is one, and with a *)
(* chunk every chunk that matches the query better in both ways.            *)
IsQuery(query) == query.dense \in [Chunks -> Int] /\ query.sparse \in [Chunks -> Int]

LEMMA RetrievedOfCorpus ==
    ASSUME NEW indexed \in Seq(Chunks), NEW query, NEW ranked \in Retrieved(indexed, query, MaxChunks)
    PROVE  /\ ranked \in Seq(ToSet(indexed)) /\ ToSet(ranked) \subseteq Chunks
           /\ ranked = <<>> <=> indexed = <<>>
<1>1. IsFiniteSet(ToSet(indexed)) /\ ToSet(indexed) \subseteq Chunks
  BY ChunksAreFinite
<1>2. CandidatePool \in Nat /\ CandidatePool # 0 /\ MaxChunks \in Nat /\ MaxChunks # 0
  BY RetrievalAssumption, ValueAssumption
<1>0. PICK dense \in DenseRankings(indexed, query.dense),
           sparse \in SparseRankings(indexed, query.sparse) :
         \E f \in Fused(dense, sparse) :
            ranked = Take(Take(IF f = <<>> THEN indexed ELSE f, CandidatePool), MaxChunks)
  BY DEF Retrieved
<1>3. PICK fused \in Fused(dense, sparse) :
         ranked = Take(Take(IF fused = <<>> THEN indexed ELSE fused, CandidatePool), MaxChunks)
  BY <1>0
<1>4. PICK s \in SetToSeqs(ToSet(indexed)) : dense = Take(s, CandidatePool)
  BY DEF DenseRankings, Sortings
<1>5. /\ s \in Seq(ToSet(indexed)) /\ ToSet(s) = ToSet(indexed)
      /\ Len(s) = 0 <=> ToSet(indexed) = {}
  BY <1>1, RankingNamesAll
<1>6. /\ dense \in Seq(ToSet(indexed)) /\ ToSet(dense) \subseteq ToSet(indexed)
      /\ Len(s) # 0 => Len(dense) # 0
  BY <1>2, <1>4, <1>5, TakeIsPrefix
<1>7. PICK z \in SetToSeqs({c \in ToSet(indexed) : query.sparse[c] > 0}) :
         sparse = Take(z, CandidatePool)
  BY DEF SparseRankings, Sortings
<1>8. sparse \in Seq(ToSet(indexed)) /\ ToSet(sparse) \subseteq ToSet(indexed)
  <2>1. IsFiniteSet({c \in ToSet(indexed) : query.sparse[c] > 0})
    BY <1>1, FS_Subset
  <2>2. z \in Seq(ToSet(indexed)) /\ ToSet(z) \subseteq ToSet(indexed)
    BY <2>1, RankingNamesAll
  <2> QED
    BY <1>2, <1>7, <2>2, TakeIsPrefix
<1>9. fused \in SetToSeqs(ToSet(dense) \cup ToSet(sparse))
  BY DEF Fused, Sortings
<1>10. /\ fused \in Seq(ToSet(indexed))
       /\ Len(fused) = 0 <=> ToSet(dense) \cup ToSet(sparse) = {}
  <2>1. IsFiniteSet(ToSet(dense) \cup ToSet(sparse))
    BY <1>1, <1>6, <1>8, FS_Subset
  <2>2. /\ fused \in Seq(ToSet(dense) \cup ToSet(sparse))
        /\ Len(fused) = 0 <=> ToSet(dense) \cup ToSet(sparse) = {}
    BY <1>9, <2>1, RankingNamesAll
  <2>3. ToSet(dense) \cup ToSet(sparse) \subseteq ToSet(indexed)
    BY <1>6, <1>8
  <2> HIDE <1>6, <1>8
  <2> QED
    BY <2>2, <2>3
<1>11. indexed = <<>> <=> ToSet(indexed) = {}
  BY DEF ToSet
<1>12. indexed \in Seq(ToSet(indexed))
  BY DEF ToSet
<1>13. CASE indexed = <<>>
  <2>1. ToSet(dense) \cup ToSet(sparse) = {}
    BY <1>6, <1>8, <1>11, <1>13
  <2>2. fused = <<>>
    BY <1>10, <2>1
  <2> DEFINE t == Take(indexed, CandidatePool)
  <2>3. t \in Seq(ToSet(indexed)) /\ Len(t) = 0
    <3>1. Len(indexed) = 0
      BY <1>13
    <3>2. /\ t \in Seq(ToSet(indexed))
          /\ Len(t) = IF Len(indexed) <= CandidatePool THEN Len(indexed) ELSE CandidatePool
      BY <1>2, <1>12, TakeIsPrefix
    <3> QED
      BY <1>2, <3>1, <3>2
  <2>4. ranked \in Seq(ToSet(indexed)) /\ Len(ranked) = 0
    BY <1>2, <1>3, <2>2, <2>3, TakeIsPrefix
  <2> QED
    BY <1>1, <1>13, <2>4 DEF ToSet
<1>14. CASE indexed # <<>>
  <2>1. Len(dense) # 0
    BY <1>5, <1>6, <1>11, <1>14
  <2>2. ToSet(dense) # {}
    <3>1. 1 \in DOMAIN dense
      BY <1>6, <2>1
    <3> QED
      BY <3>1 DEF ToSet
  <2>3. fused # <<>> /\ Len(fused) # 0
    BY <1>10, <2>2
  <2> DEFINE t == Take(fused, CandidatePool)
  <2>4. t \in Seq(ToSet(indexed)) /\ Len(t) # 0
    BY <1>2, <1>10, <2>3, TakeIsPrefix
  <2>5. ranked \in Seq(ToSet(indexed)) /\ Len(ranked) # 0
    BY <1>2, <1>3, <2>3, <2>4, TakeIsPrefix
  <2> QED
    BY <1>1, <1>14, <2>5 DEF ToSet
<1> QED
  BY <1>13, <1>14

LEMMA BetterIsRetrieved ==
    ASSUME NEW indexed \in Seq(Chunks), NEW query, IsQuery(query),
           NEW ranked \in Retrieved(indexed, query, MaxChunks),
           NEW c \in ToSet(ranked), NEW d \in ToSet(indexed),
           query.dense[d] > query.dense[c], query.sparse[d] > query.sparse[c]
    PROVE  d \in ToSet(ranked)
<1> DEFINE C == ToSet(indexed)
           M == {x \in C : query.sparse[x] > 0}
<1>1. IsFiniteSet(C) /\ C \subseteq Chunks /\ IsFiniteSet(M)
  <2>1. IsFiniteSet(C) /\ C \subseteq Chunks
    BY ChunksAreFinite
  <2> QED
    BY <2>1, FS_Subset
<1>2. CandidatePool \in Nat /\ MaxChunks \in Nat
  BY RetrievalAssumption, ValueAssumption
<1>3. c \in C /\ c # d
  <2>1. ranked \in Seq(C)
    BY RetrievedOfCorpus
  <2>2. c \in C
    BY <2>1 DEF ToSet
  <2>3. query.dense[c] \in Int
    BY <1>1, <2>2 DEF IsQuery
  <2> QED
    BY <2>2, <2>3
<1>4. PICK dense \in DenseRankings(indexed, query.dense),
           sparse \in SparseRankings(indexed, query.sparse) :
         \E f \in Fused(dense, sparse) :
            ranked = Take(Take(IF f = <<>> THEN indexed ELSE f, CandidatePool), MaxChunks)
  BY DEF Retrieved
<1>5. PICK fused \in Fused(dense, sparse) :
         ranked = Take(Take(IF fused = <<>> THEN indexed ELSE fused, CandidatePool), MaxChunks)
  BY <1>4
(* The dense ranking has the better chunk in front of the worse.            *)
<1>6. /\ dense \in Seq(C)
      /\ c \in ToSet(dense) => d \in ToSet(dense) /\ PlaceIn(dense, d) < PlaceIn(dense, c)
  <2> DEFINE B == {p \in C \X C : query.dense[p[1]] >= query.dense[p[2]]}
  <2>1. PICK s \in SetToSeqs(C) :
            /\ \A i, j \in DOMAIN s : i < j => query.dense[s[i]] >= query.dense[s[j]]
            /\ dense = Take(s, CandidatePool)
    BY DEF DenseRankings, Sortings
  <2>2. s \in Seq(C)
    BY <1>1, RankingNamesAll
  <2>3. \A i, j \in DOMAIN s : i < j => <<s[i], s[j]>> \in B
    BY <2>1, <2>2
  <2>4. dense \in Seq(C) /\ Cut(dense, s)
    BY <1>2, <2>1, <2>2, TakeIsPrefix DEF Cut
  <2>5. <<c, d>> \notin B
    BY <1>1, <1>3 DEF IsQuery
  <2> HIDE DEF B
  <2> QED
    BY <1>1, <1>3, <2>3, <2>4, <2>5, CutKeepsTheBest
<1>7. /\ sparse \in Seq(M)
      /\ c \in ToSet(sparse) => d \in ToSet(sparse) /\ PlaceIn(sparse, d) < PlaceIn(sparse, c)
  <2> DEFINE B == {p \in M \X M : query.sparse[p[1]] >= query.sparse[p[2]]}
  <2>1. PICK s \in SetToSeqs(M) :
            /\ \A i, j \in DOMAIN s : i < j =>
                  \/ query.sparse[s[i]] > query.sparse[s[j]]
                  \/ query.sparse[s[i]] = query.sparse[s[j]]
            /\ sparse = Take(s, CandidatePool)
    BY DEF SparseRankings, Sortings
  <2>2. s \in Seq(M)
    BY <1>1, RankingNamesAll
  <2>3. \A i, j \in DOMAIN s : i < j => <<s[i], s[j]>> \in B
    <3> SUFFICES ASSUME NEW i \in DOMAIN s, NEW j \in DOMAIN s, i < j
                 PROVE  <<s[i], s[j]>> \in B
      OBVIOUS
    <3>1. s[i] \in M /\ s[j] \in M
      BY <2>2
    <3>2. query.sparse[s[i]] \in Int /\ query.sparse[s[j]] \in Int
      BY <1>1, <3>1 DEF IsQuery
    <3> QED
      BY <2>1, <3>1, <3>2
  <2>4. sparse \in Seq(M) /\ Cut(sparse, s)
    BY <1>2, <2>1, <2>2, TakeIsPrefix DEF Cut
  <2>5. <<c, d>> \notin B
    BY <1>1, <1>3 DEF IsQuery
  <2>6. c \in ToSet(sparse) => c \in M
    BY <2>4 DEF ToSet
  <2>7. c \in M => d \in M
    BY <1>1, <1>3 DEF IsQuery
  <2> HIDE DEF B, M
  <2> QED
    BY <1>1, <1>3, <2>3, <2>4, <2>5, <2>6, <2>7, CutKeepsTheBest
(* So has the fused one.                                                    *)
<1> DEFINE F == ToSet(dense) \cup ToSet(sparse)
           score(e) == SumOf(Reciprocal(dense, e), Reciprocal(sparse, e))
           B == {p \in F \X F : \/ More(score(p[1]), score(p[2]))
                                \/ ~More(score(p[2]), score(p[1]))}
<1>8. fused \in SetToSeqs(F) /\ IsFiniteSet(F)
  BY <1>6, <1>7, ChunksAreFinite, FS_Union DEF Fused, Sortings
<1>9. c \in F => d \in F /\ More(score(d), score(c)) /\ ~More(score(c), score(d))
  <2> SUFFICES ASSUME c \in F
               PROVE  d \in F /\ More(score(d), score(c)) /\ ~More(score(c), score(d))
    OBVIOUS
  <2>1. /\ Reciprocal(dense, c) \in Fractions /\ Reciprocal(dense, d) \in Fractions
        /\ AtMost(Reciprocal(dense, c), Reciprocal(dense, d))
        /\ c \in ToSet(dense) => More(Reciprocal(dense, d), Reciprocal(dense, c))
    BY <1>6, ReciprocalsFall
  <2>2. /\ Reciprocal(sparse, c) \in Fractions /\ Reciprocal(sparse, d) \in Fractions
        /\ AtMost(Reciprocal(sparse, c), Reciprocal(sparse, d))
        /\ c \in ToSet(sparse) => More(Reciprocal(sparse, d), Reciprocal(sparse, c))
    BY <1>7, ReciprocalsFall
  <2>3. More(score(d), score(c)) /\ ~More(score(c), score(d))
    BY <2>1, <2>2, SumsGrow
  <2> QED
    BY <1>6, <1>7, <2>3
<1>10. \A i, j \in DOMAIN fused : i < j => <<fused[i], fused[j]>> \in B
  <2> SUFFICES ASSUME NEW i \in DOMAIN fused, NEW j \in DOMAIN fused, i < j
               PROVE  <<fused[i], fused[j]>> \in B
    OBVIOUS
  <2>1. \/ More(score(fused[i]), score(fused[j]))
        \/ ~More(score(fused[j]), score(fused[i]))
    BY DEF Fused, Sortings
  <2>2. fused[i] \in F /\ fused[j] \in F
    <3>1. fused \in Seq(F)
      BY <1>8, RankingNamesAll
    <3> HIDE DEF F
    <3> QED
      BY <3>1
  <2> QED
    BY <2>1, <2>2
<1> HIDE DEF F, B, score
<1>11. fused \in Seq(F) /\ Cut(fused, fused)
  BY <1>8, RankingNamesAll DEF Cut
<1>12. CASE fused = <<>>
  <2>1. ToSet(dense) = {}
    <3>1. Len(fused) = 0
      BY <1>12
    <3>2. F = {}
      BY <1>8, <3>1, RankingNamesAll
    <3> QED
      BY <3>2 DEF F
  <2>2. \E x : x \in ToSet(dense)
    <3>1. PICK s \in SetToSeqs(C) : dense = Take(s, CandidatePool)
      BY <1>4 DEF DenseRankings, Sortings
    <3>2. s \in Seq(C) /\ Len(s) # 0
      BY <1>1, <1>3, <3>1, RankingNamesAll
    <3>3. CandidatePool # 0
      BY RetrievalAssumption
    <3>4. Len(dense) # 0
      BY <1>2, <3>1, <3>2, <3>3, TakeIsPrefix
    <3>5. 1 \in DOMAIN dense
      BY <1>6, <3>4
    <3> QED
      BY <3>5 DEF ToSet
  <2> QED
    BY <2>1, <2>2
<1>13. CASE fused # <<>>
  <2> DEFINE t == Take(fused, CandidatePool)
  <2>1. t \in Seq(F) /\ Cut(t, fused)
    BY <1>2, <1>11, TakeCuts
  <2>2. ranked \in Seq(F) /\ Cut(ranked, fused)
    BY <1>2, <1>5, <1>11, <1>13, <2>1, TakeCuts
  <2>3. c \in F
    BY <2>2 DEF ToSet
  <2>4. d \in F /\ <<c, d>> \notin B
    BY <1>9, <2>3 DEF B
  <2> QED
    BY <1>3, <1>8, <1>10, <2>2, <2>4, CutKeepsTheBest
<1> QED
  BY <1>12, <1>13
-------------------------------------------------------------------------------
(* The copilot.  While a request runs, its grounding is of the known types  *)
(* and its actions honour the approval gates.                               *)
Grounding == [universe : SUBSET Ids, insufficient : BOOLEAN, confidence : 0..10,
              issue : Issues \cup {Healthy}, scope : Scopes, actions : SUBSET Action]

Answers == [citations : SUBSET (Ids \cup {NoContext, Telemetry}), insufficient : BOOLEAN,
            confidence : 0..10, issue : Issues \cup {Healthy}, scope : Scopes,
            actions : SUBSET Action, by : {"template", "model", "pipeline"}]

Gated(actions) == \A a \in actions : a.step \in StateChanging => a.approval

TypeOK == /\ corpus \in Corpora
          /\ pc \in {"idle", "backend", "gate", "answered"}
          /\ incident \in Incidents \cup {None}
          /\ pc # "idle" => ctx \in Grounding /\ Gated(ctx.actions)
          /\ pc \in {"gate", "answered"} => response \in Answers

(* What answer() and the pipeline's last resort draw on is the same.        *)
GroundedInIncident ==
    pc # "idle" /\ incident # None => /\ ctx.confidence = incident.risk.confidence
                                      /\ ctx.issue = incident.risk.issue
                                      /\ ctx.scope = AffectedScope(incident.blast, None)

(* What a backend hands to the gate already keeps to the analytics.         *)
WithoutModel == /\ ctx.insufficient => response.insufficient
                /\ Gated(response.actions)
                /\ response.scope = ctx.scope

Offered == pc = "gate" => /\ response.by \in {"template", "model"}
                          /\ KeepsTheNumbers
                          /\ response.by = "template" => WithoutModel

IInv == /\ TypeOK
        /\ GroundedInIncident
        /\ Offered
        /\ BestChunksRetrieved
        /\ AnswerIsGrounded
        /\ FallbackIsCautious

(* The analytics an answer is grounded in, of whichever caller.             *)
Sound(context) ==
    /\ ResolvedConfidence(context) \in 0..10
    /\ ResolvedIssue(context) \in Issues \cup {Healthy}
    /\ Resolved(context, "blast") \in Scopes \cup {None}
    /\ \/ Resolved(context, "playbook") = None
       \/ /\ Resolved(context, "playbook") \in Playbooks
          /\ Gated(Resolved(context, "playbook").actions)

LEMMA RequestsAreSound ==
    ASSUME NEW context \in Contexts
    PROVE  Sound(context)
<1>1. /\ context.incident \in Incidents \cup {None}
      /\ context.risk \in Risks \cup {None}
      /\ context.blast \in Scopes \cup {None} /\ context.playbook \in Playbooks \cup {None}
      /\ context.playbook # None => Gated(context.playbook.actions)
  BY ContextAssumption, ActionAssumption DEF Gated
<1>2. \A inc \in Incidents :
         /\ inc.issue \in Issues \cup {Healthy} /\ inc.risk \in Risks
         /\ inc.blast \in Scopes \cup {None} /\ inc.playbook \in Playbooks \cup {None}
         /\ inc.playbook # None => Gated(inc.playbook.actions)
  BY ContextAssumption, ActionAssumption DEF Gated
<1>3. ResolvedConfidence(context) \in 0..10
  BY <1>1, <1>2 DEF ResolvedConfidence, Resolved, Risks
<1>4. ResolvedIssue(context) \in Issues \cup {Healthy}
  BY <1>1, <1>2 DEF ResolvedIssue, Risks
<1>5. Resolved(context, "blast") \in Scopes \cup {None}
  BY <1>1, <1>2 DEF Resolved
<1>6. \/ Resolved(context, "playbook") = None
      \/ /\ Resolved(context, "playbook") \in Playbooks
         /\ Gated(Resolved(context, "playbook").actions)
  BY <1>1, <1>2 DEF Resolved
<1> QED
  BY <1>3, <1>4, <1>5, <1>6 DEF Sound

LEMMA IncidentsAreSound ==
    ASSUME NEW inc \in Incidents
    PROVE  /\ Sound(ContextOf(inc))
           /\ ResolvedConfidence(ContextOf(inc)) = inc.risk.confidence
           /\ ResolvedIssue(ContextOf(inc)) = inc.risk.issue
           /\ Resolved(ContextOf(inc), "blast") = inc.blast
<1>1. /\ inc.issue \in Issues \cup {Healthy} /\ inc.risk \in Risks /\ inc.risk # None
      /\ inc.blast \in Scopes \cup {None} /\ inc.playbook \in Playbooks \cup {None}
      /\ inc.playbook # None => Gated(inc.playbook.actions)
  BY ContextAssumption, ActionAssumption DEF Gated
<1>2. /\ Resolved(ContextOf(inc), "risk") = inc.risk
      /\ Resolved(ContextOf(inc), "blast") = inc.blast
      /\ Resolved(ContextOf(inc), "playbook") = inc.playbook
  BY DEF Resolved, ContextOf
<1>3. /\ ResolvedConfidence(ContextOf(inc)) = inc.risk.confidence
      /\ ResolvedIssue(ContextOf(inc)) = inc.risk.issue
  BY <1>1, <1>2 DEF ResolvedConfidence, ResolvedIssue, ContextOf
<1>4. inc.risk.confidence \in 0..10 /\ inc.risk.issue \in Issues \cup {Healthy}
  BY <1>1 DEF Risks
<1> QED
  BY <1>1, <1>2, <1>3, <1>4 DEF Sound

LEMMA AbstainingIsSafe == AbstainActions \subseteq Action /\ Gated(AbstainActions)
BY ActionAssumption DEF AbstainActions, Action, Gated

LEMMA FactsAreIds ==
    ASSUME NEW root, NEW blast
    PROVE  GraphFacts(root, blast, None) \subseteq Ids
BY DEF GraphFacts, Facts, Ids

LEMMA OfferedActions ==
    ASSUME NEW context, Sound(context), NEW ranked \in Seq(Chunks), NEW facts \in SUBSET Ids,
           NEW actions \in ActionsFor(Resolved(context, "playbook"), ranked, facts)
    PROVE  actions \in SUBSET Action /\ Gated(actions)
<1> DEFINE playbook == Resolved(context, "playbook")
<1>1. \/ playbook = None
      \/ playbook \in Playbooks /\ Gated(playbook.actions)
  BY DEF Sound
<1> HIDE DEF playbook
<1>2. CASE PlaybookToActions(playbook) # {}
  <2>1. playbook \in Playbooks /\ Gated(playbook.actions)
    BY <1>1, <1>2 DEF PlaybookToActions
  <2>2. playbook.ref \in Ids /\ playbook.actions \subseteq Action
    BY <2>1 DEF Playbooks
  <2>3. PlaybookToActions(playbook) =
           {[a EXCEPT !.ref = IF @ = None THEN playbook.ref ELSE @] : a \in playbook.actions}
    BY <1>2 DEF PlaybookToActions
  <2>4. \A a \in playbook.actions :
           LET b == [a EXCEPT !.ref = IF @ = None THEN playbook.ref ELSE @]
           IN b \in Action /\ b.step = a.step /\ b.approval = a.approval
    BY <2>2 DEF Action
  <2>5. PlaybookToActions(playbook) \subseteq Action /\ Gated(PlaybookToActions(playbook))
    BY <2>1, <2>3, <2>4 DEF Gated
  <2> QED
    BY <1>2, <2>5 DEF ActionsFor, playbook
<1>3. CASE PlaybookToActions(playbook) = {}
  <2>1. PICK r \in IF ranked # <<>> THEN {Head(ranked)} ELSE IF facts # {} THEN facts ELSE {None} :
            actions = {[step |-> Diagnose, ref |-> r, approval |-> FALSE]}
    BY <1>3 DEF ActionsFor, playbook
  <2>2. r \in Ids \cup {None}
    <3>1. ranked # <<>> => Head(ranked) \in Chunks
      OBVIOUS
    <3> QED
      BY <2>1, <3>1 DEF Ids
  <2>3. Diagnose \notin StateChanging
    BY ActionAssumption
  <2> QED
    BY <2>1, <2>2, <2>3 DEF Action, Gated
<1> QED
  BY <1>2, <1>3

(* A request is grounded in what is retrieved for it and in its analytics.  *)
LEMMA AskGrounds ==
    ASSUME TypeOK, NEW query \in Queries, NEW context, Sound(context), Ask(query, context)
    PROVE  /\ ctx' \in Grounding /\ Gated(ctx.actions)'
           /\ ctx.confidence' = ResolvedConfidence(context)
           /\ ctx.issue' = ResolvedIssue(context)
           /\ ctx.scope' = AffectedScope(Resolved(context, "blast"), None)
           /\ BestChunksRetrieved'
<1> DEFINE blast == Resolved(context, "blast")
           facts == GraphFacts(Resolved(context, "root"), blast, None)
           given(ranked) == ToSet(ranked)
<1>1. PICK ranked \in Retrieved(corpus, query, MaxChunks) :
         \E actions \in ActionsFor(Resolved(context, "playbook"), ranked, facts) :
            /\ ctx' = [universe |-> given(ranked) \cup {DocOf[c] : c \in given(ranked)} \cup facts,
                       insufficient |-> ShouldAbstain(given(ranked)),
                       confidence |-> ResolvedConfidence(context),
                       issue |-> ResolvedIssue(context),
                       scope |-> AffectedScope(blast, None), actions |-> actions]
            /\ asked' = [query |-> query, chunks |-> given(ranked)]
  BY DEF Ask
<1>2. PICK actions \in ActionsFor(Resolved(context, "playbook"), ranked, facts) :
            /\ ctx' = [universe |-> given(ranked) \cup {DocOf[c] : c \in given(ranked)} \cup facts,
                       insufficient |-> ShouldAbstain(given(ranked)),
                       confidence |-> ResolvedConfidence(context),
                       issue |-> ResolvedIssue(context),
                       scope |-> AffectedScope(blast, None), actions |-> actions]
            /\ asked' = [query |-> query, chunks |-> given(ranked)]
  BY <1>1
<1>3. corpus \in Seq(Chunks) /\ IsQuery(query)
  BY CorpusAssumption DEF TypeOK, IsQuery
<1>4. /\ ranked \in Seq(ToSet(corpus)) /\ ToSet(ranked) \subseteq Chunks
      /\ ranked = <<>> <=> corpus = <<>>
  BY <1>3, RetrievedOfCorpus
<1>5. ranked \in Seq(Chunks)
  BY <1>4 DEF ToSet
<1>6. facts \subseteq Ids
  BY FactsAreIds
<1>7. actions \in SUBSET Action /\ Gated(actions)
  BY <1>5, <1>6, OfferedActions
<1>8. given(ranked) \cup {DocOf[c] : c \in given(ranked)} \cup facts \subseteq Ids
  BY <1>4, <1>6 DEF Ids, Docs
<1>9. AffectedScope(blast, None) \in Scopes
  BY DEF Sound, AffectedScope, Scopes
<1>10. ctx' \in Grounding /\ Gated(ctx.actions)'
  BY <1>2, <1>7, <1>8, <1>9 DEF Grounding, Sound, ShouldAbstain, Gated
<1>11. /\ ctx.confidence' = ResolvedConfidence(context)
       /\ ctx.issue' = ResolvedIssue(context)
       /\ ctx.scope' = AffectedScope(blast, None)
  BY <1>2
<1>12. BestChunksRetrieved'
  <2>1. corpus' = corpus /\ asked'.query = query /\ asked'.chunks = ToSet(ranked)
    BY <1>2 DEF Ask
  <2>2. \A c \in ToSet(ranked), d \in ToSet(corpus) :
           query.dense[d] > query.dense[c] /\ query.sparse[d] > query.sparse[c]
              => d \in ToSet(ranked)
    BY <1>3, BetterIsRetrieved
  <2>3. ctx'.insufficient <=> ToSet(ranked) = {}
    BY <1>2 DEF ShouldAbstain
  <2>4. ToSet(ranked) = {} <=> ranked = <<>>
    BY <1>4 DEF ToSet
  <2> QED
    BY <1>4, <2>1, <2>2, <2>3, <2>4 DEF BestChunksRetrieved
<1> QED
  BY <1>10, <1>11, <1>12
-------------------------------------------------------------------------------
LEMMA InitIsGrounded ==
    ASSUME Init
    PROVE  IInv
BY DEF Init, IInv, TypeOK, GroundedInIncident, Offered, BestChunksRetrieved,
       AnswerIsGrounded, FallbackIsCautious, Answered

(* Asking starts a request that has no answer yet.                          *)
LEMMA AskKeepsInv ==
    ASSUME IInv, NEW query \in Queries, NEW context, Sound(context), Ask(query, context),
           \/ incident' = None
           \/ /\ incident' \in Incidents
              /\ ResolvedConfidence(context) = incident'.risk.confidence
              /\ ResolvedIssue(context) = incident'.risk.issue
              /\ Resolved(context, "blast") = incident'.blast
    PROVE  IInv'
<1>1. pc' = "backend" /\ corpus' = corpus
  BY DEF Ask
<1>2. /\ ctx' \in Grounding /\ Gated(ctx.actions)'
      /\ ctx.confidence' = ResolvedConfidence(context)
      /\ ctx.issue' = ResolvedIssue(context)
      /\ ctx.scope' = AffectedScope(Resolved(context, "blast"), None)
      /\ BestChunksRetrieved'
  BY AskGrounds DEF IInv
<1>3. TypeOK'
  BY <1>1, <1>2 DEF IInv, TypeOK
<1>4. GroundedInIncident'
  BY <1>2 DEF GroundedInIncident
<1>5. Offered' /\ AnswerIsGrounded' /\ FallbackIsCautious'
  BY <1>1 DEF Offered, AnswerIsGrounded, FallbackIsCautious, Answered
<1> QED
  BY <1>2, <1>3, <1>4, <1>5 DEF IInv

LEMMA TemplateKeepsInv ==
    ASSUME IInv, TemplateAnswers
    PROVE  IInv'
<1>1. pc = "backend" /\ pc' = "gate" /\ response' = TemplateResponse
  BY DEF TemplateAnswers
<1>2. UNCHANGED <<corpus, ctx, incident>>
  BY DEF TemplateAnswers
<1>3. /\ ctx \in Grounding /\ Gated(ctx.actions)
      /\ ctx.confidence \in 0..10
  BY <1>1 DEF IInv, TypeOK, Grounding
<1>4. /\ Min({ctx.confidence, Low}) \in 0..10
      /\ \/ Min({ctx.confidence, Low}) = ctx.confidence
         \/ Min({ctx.confidence, Low}) < ctx.confidence
  <2>1. ctx.confidence \in Int /\ Low \in Int /\ Low = 2
    BY <1>3 DEF Low
  <2> QED
    BY <1>3, <2>1, MinOfTwo
<1>5. response' \in Answers /\ response'.by = "template"
  <2>1. CASE ctx.insufficient \/ ctx.universe = {}
    <3>1. response' = [citations |-> {NoContext}, insufficient |-> TRUE,
                       confidence |-> Min({ctx.confidence, Low}), issue |-> ctx.issue,
                       scope |-> ctx.scope, actions |-> AbstainActions, by |-> "template"]
      BY <1>1, <2>1 DEF TemplateResponse
    <3> QED
      BY <1>3, <1>4, <3>1, AbstainingIsSafe DEF Answers, Grounding
  <2>2. CASE ~(ctx.insufficient \/ ctx.universe = {})
    <3>1. response' = [citations |-> ctx.universe, insufficient |-> FALSE,
                       confidence |-> ctx.confidence, issue |-> ctx.issue,
                       scope |-> ctx.scope, actions |-> ctx.actions, by |-> "template"]
      BY <1>1, <2>2 DEF TemplateResponse
    <3> QED
      BY <1>3, <3>1 DEF Answers, Grounding
  <2> QED
    BY <2>1, <2>2
<1>6. KeepsTheNumbers' /\ WithoutModel'
  <2>1. CASE ctx.insufficient \/ ctx.universe = {}
    <3>1. response' = [citations |-> {NoContext}, insufficient |-> TRUE,
                       confidence |-> Min({ctx.confidence, Low}), issue |-> ctx.issue,
                       scope |-> ctx.scope, actions |-> AbstainActions, by |-> "template"]
      BY <1>1, <2>1 DEF TemplateResponse
    <3> QED
      BY <1>2, <1>4, <3>1, AbstainingIsSafe DEF KeepsTheNumbers, WithoutModel, Gated
  <2>2. CASE ~(ctx.insufficient \/ ctx.universe = {})
    <3>1. response' = [citations |-> ctx.universe, insufficient |-> FALSE,
                       confidence |-> ctx.confidence, issue |-> ctx.issue,
                       scope |-> ctx.scope, actions |-> ctx.actions, by |-> "template"]
      BY <1>1, <2>2 DEF TemplateResponse
    <3> QED
      BY <1>2, <1>3, <2>2, <3>1 DEF KeepsTheNumbers, WithoutModel, Gated
  <2> QED
    BY <2>1, <2>2
<1>7. TypeOK'
  BY <1>1, <1>2, <1>3, <1>5 DEF IInv, TypeOK, Gated
<1>8. GroundedInIncident'
  BY <1>1, <1>2 DEF IInv, GroundedInIncident
<1>9. Offered'
  BY <1>5, <1>6 DEF Offered
<1>10. BestChunksRetrieved' /\ AnswerIsGrounded' /\ FallbackIsCautious'
  BY <1>1 DEF BestChunksRetrieved, AnswerIsGrounded, FallbackIsCautious, Answered
<1> QED
  BY <1>7, <1>8, <1>9, <1>10 DEF IInv

LEMMA ModelKeepsInv ==
    ASSUME IInv, NEW out \in ModelOutput, ModelAnswers(out)
    PROVE  IInv'
<1>1. pc = "backend" /\ pc' = "gate" /\ response' = Assemble(out)
  BY DEF ModelAnswers
<1>2. UNCHANGED <<corpus, ctx, incident>>
  BY DEF ModelAnswers
<1>3. ctx \in Grounding
  BY <1>1 DEF IInv, TypeOK
<1>4. /\ out.citations \in SUBSET Ids /\ out.insufficient \in BOOLEAN
      /\ out.issue \in Issues \cup {Healthy} /\ out.scope \in Scopes
      /\ out.actions \in SUBSET Action
  BY ActionAssumption DEF ModelOutput, Scopes
<1>5. response' \in Answers /\ response'.by = "model"
  <2> DEFINE cited == out.citations \cap ctx.universe
  <2>1. response' = [citations |-> IF cited = {} THEN {NoContext} ELSE cited,
                     insufficient |-> out.insufficient \/ cited = {},
                     confidence |-> ctx.confidence,
                     issue |-> IF out.issue = Healthy THEN ctx.issue ELSE out.issue,
                     scope |-> IF out.scope = {} THEN ctx.scope ELSE out.scope,
                     actions |-> IF out.actions = {} THEN AbstainActions ELSE out.actions,
                     by |-> "model"]
    BY <1>1 DEF Assemble
  <2>2. (IF cited = {} THEN {NoContext} ELSE cited) \in SUBSET (Ids \cup {NoContext, Telemetry})
    BY <1>4
  <2> HIDE DEF cited
  <2> QED
    BY <1>3, <1>4, <2>1, <2>2, AbstainingIsSafe DEF Answers, Grounding
<1>6. KeepsTheNumbers'
  <2>1. response'.confidence = ctx.confidence
    BY <1>1 DEF Assemble
  <2>2. response'.issue = IF out.issue = Healthy THEN ctx.issue ELSE out.issue
    BY <1>1 DEF Assemble
  <2> QED
    BY <1>2, <2>1, <2>2 DEF KeepsTheNumbers
<1>7. TypeOK'
  BY <1>1, <1>2, <1>5 DEF IInv, TypeOK, Gated
<1>8. GroundedInIncident'
  BY <1>1, <1>2 DEF IInv, GroundedInIncident
<1>9. Offered'
  BY <1>5, <1>6 DEF Offered
<1>10. BestChunksRetrieved' /\ AnswerIsGrounded' /\ FallbackIsCautious'
  BY <1>1 DEF BestChunksRetrieved, AnswerIsGrounded, FallbackIsCautious, Answered
<1> QED
  BY <1>7, <1>8, <1>9, <1>10 DEF IInv

(* The gate: a citation that survives was given, and an answer that has     *)
(* none left becomes the abstaining one.                                    *)
LEMMA GateKeepsInv ==
    ASSUME IInv, Gate
    PROVE  IInv'
<1> DEFINE valid == response.citations \cap ctx.universe
           cleaned == {[a EXCEPT !.ref = IF @ \in ctx.universe THEN @ ELSE None] :
                          a \in response.actions}
<1>1. pc = "gate" /\ pc' = "answered" /\ response' = EnforceCitations(response)
  BY DEF Gate
<1>2. UNCHANGED <<corpus, ctx, incident>>
  BY DEF Gate
<1>3. /\ ctx \in Grounding /\ Gated(ctx.actions) /\ response \in Answers
      /\ response.by \in {"template", "model"} /\ KeepsTheNumbers
      /\ response.by = "template" => WithoutModel
  BY <1>1 DEF IInv, TypeOK, Offered
<1>4. NoContext \notin ctx.universe
  BY <1>3, IdAssumption DEF Grounding
<1>5. cleaned \in SUBSET Action /\ \A a \in cleaned : a.ref \in ctx.universe \cup {None}
  BY <1>3 DEF Answers, Action
<1>6. Gated(response.actions) => Gated(cleaned)
  <2>1. \A a \in response.actions :
           LET b == [a EXCEPT !.ref = IF @ \in ctx.universe THEN @ ELSE None]
           IN b.step = a.step /\ b.approval = a.approval
    BY <1>3 DEF Answers, Action
  <2> QED
    BY <2>1 DEF Gated
<1>7. response.confidence \in 0..10 /\ ctx.confidence \in 0..10
  BY <1>3 DEF Answers, Grounding
<1>8. ASSUME valid = {}
      PROVE  response' \in Answers /\ AnswerIsGrounded' /\ FallbackIsCautious'
  <2> DEFINE low == Min({response.confidence, Low})
  <2>1. low \in 0..10 /\ low <= response.confidence /\ low <= Low
    <3>1. response.confidence \in Int /\ Low \in Int /\ Low = 2
      BY <1>7 DEF Low
    <3> QED
      BY <1>7, <3>1, MinOfTwo
  <2>2. response' = [response EXCEPT !.citations = {NoContext}, !.insufficient = TRUE,
                                     !.confidence = low, !.actions = AbstainActions]
    BY <1>1, <1>8 DEF EnforceCitations
  <2> HIDE DEF low
  <2>3. /\ response'.citations = {NoContext} /\ response'.insufficient = TRUE
        /\ response'.confidence = low /\ response'.actions = AbstainActions
        /\ response'.issue = response.issue /\ response'.scope = response.scope
        /\ response'.by = response.by
    BY <1>3, <2>2 DEF Answers
  <2>4. response' \in Answers
    BY <1>3, <2>1, <2>2, AbstainingIsSafe DEF Answers
  <2>5. KeepsTheNumbers'
    BY <1>2, <1>3, <1>7, <2>1, <2>3 DEF KeepsTheNumbers
  <2>6. CitesWhatItWasGiven'
    BY <1>2, <2>3 DEF CitesWhatItWasGiven, AbstainActions
  <2>7. AnswerIsGrounded' /\ FallbackIsCautious'
    BY <1>2, <1>3, <2>1, <2>3, <2>5, <2>6, AbstainingIsSafe
       DEF AnswerIsGrounded, FallbackIsCautious, WithoutModel, Gated
  <2> QED
    BY <2>4, <2>7
<1>9. ASSUME valid # {}
      PROVE  response' \in Answers /\ AnswerIsGrounded' /\ FallbackIsCautious'
  <2>1. response' = [response EXCEPT !.citations = valid, !.actions = cleaned]
    BY <1>1, <1>9 DEF EnforceCitations
  <2>2. valid \in SUBSET (Ids \cup {NoContext, Telemetry}) /\ valid \subseteq ctx.universe
    BY <1>3 DEF Answers
  <2> HIDE DEF valid, cleaned
  <2>3. /\ response'.citations = valid /\ response'.insufficient = response.insufficient
        /\ response'.confidence = response.confidence /\ response'.actions = cleaned
        /\ response'.issue = response.issue /\ response'.scope = response.scope
        /\ response'.by = response.by
    BY <1>3, <2>1 DEF Answers
  <2>4. response' \in Answers
    BY <1>3, <1>5, <2>1, <2>2 DEF Answers
  <2>5. KeepsTheNumbers'
    BY <1>2, <1>3, <2>3 DEF KeepsTheNumbers
  <2>6. CitesWhatItWasGiven' /\ response'.citations # {NoContext}
    BY <1>2, <1>4, <1>5, <1>9, <2>2, <2>3 DEF CitesWhatItWasGiven
  <2>7. AnswerIsGrounded' /\ FallbackIsCautious'
    BY <1>2, <1>3, <1>6, <2>3, <2>5, <2>6
       DEF AnswerIsGrounded, FallbackIsCautious, WithoutModel, Gated
  <2> QED
    BY <2>4, <2>7
<1>10. TypeOK'
  BY <1>1, <1>2, <1>8, <1>9 DEF IInv, TypeOK, Gated
<1>11. GroundedInIncident'
  BY <1>1, <1>2 DEF IInv, GroundedInIncident
<1>12. Offered' /\ BestChunksRetrieved'
  BY <1>1 DEF Offered, BestChunksRetrieved
<1> QED
  BY <1>8, <1>9, <1>10, <1>11, <1>12 DEF IInv

(* The last resort draws on the incident what answer() would have.          *)
LEMMA RaiseKeepsInv ==
    ASSUME IInv, Raise
    PROVE  IInv'
<1> DEFINE inc == incident
<1>1. /\ pc # "idle" /\ pc' = "answered" /\ response' = LastResort(inc)
      /\ inc \in Incidents
  BY DEF Raise, IInv, TypeOK
<1>2. UNCHANGED <<corpus, ctx, incident>>
  BY DEF Raise
<1>3. /\ inc.issue \in Issues \cup {Healthy} /\ inc.risk \in Risks
      /\ inc.blast \in Scopes \cup {None} /\ inc.playbook \in Playbooks \cup {None}
      /\ inc.playbook # None => Gated(inc.playbook.actions)
      /\ inc.risk.issue # Healthy => inc.issue # Healthy
  BY <1>1, ContextAssumption, ActionAssumption, ValueAssumption DEF Gated
<1>4. /\ ctx \in Grounding /\ Gated(ctx.actions) /\ ctx.confidence = inc.risk.confidence
      /\ ctx.issue = inc.risk.issue /\ ctx.scope = AffectedScope(inc.blast, None)
  BY <1>1, ContextAssumption DEF IInv, TypeOK, GroundedInIncident, Raise
<1> DEFINE steps == IF inc.playbook = None THEN {} ELSE inc.playbook.actions
           cited == {Telemetry} \cup (IF inc.playbook = None THEN {} ELSE {inc.playbook.ref})
           told  == IF steps # {} THEN steps
                    ELSE {[step |-> Diagnose, ref |-> None, approval |-> FALSE]}
<1>5. response' = [citations |-> cited, insufficient |-> FALSE,
                   confidence |-> inc.risk.confidence, issue |-> inc.issue,
                   scope |-> AffectedScope(inc.blast, None), actions |-> told,
                   by |-> "pipeline"]
  BY <1>1 DEF LastResort
<1>6. steps \in SUBSET Action /\ Gated(steps)
  BY <1>3 DEF Playbooks, Gated
<1>7. told \in SUBSET Action /\ Gated(told)
  <2>1. Diagnose \notin StateChanging
    BY ActionAssumption
  <2> QED
    BY <1>6, <2>1 DEF Action, Gated
<1>8. cited \in SUBSET (Ids \cup {NoContext, Telemetry}) /\ cited # {NoContext}
  BY <1>3, IdAssumption DEF Playbooks
<1>9. AffectedScope(inc.blast, None) \in Scopes
  BY <1>3 DEF AffectedScope, Scopes
<1> HIDE DEF told, cited, steps
<1>10. response' \in Answers
  BY <1>3, <1>5, <1>7, <1>8, <1>9 DEF Answers, Risks
<1>11. KeepsTheNumbers'
  BY <1>2, <1>3, <1>4, <1>5 DEF KeepsTheNumbers
<1>12. AnswerIsGrounded' /\ FallbackIsCautious'
  BY <1>2, <1>4, <1>5, <1>7, <1>8, <1>11 DEF AnswerIsGrounded, FallbackIsCautious, Gated
<1>13. TypeOK'
  BY <1>1, <1>2, <1>4, <1>10 DEF IInv, TypeOK, Gated
<1>14. GroundedInIncident'
  BY <1>1, <1>2 DEF IInv, GroundedInIncident
<1>15. Offered' /\ BestChunksRetrieved'
  BY <1>1 DEF Offered, BestChunksRetrieved
<1> QED
  BY <1>12, <1>13, <1>14, <1>15 DEF IInv

LEMMA ReturnKeepsInv ==
    ASSUME IInv, Return
    PROVE  IInv'
<1>1. pc' = "idle" /\ corpus' = corpus /\ incident' = None
  BY DEF Return
<1> QED
  BY <1>1 DEF IInv, TypeOK, GroundedInIncident, Offered, BestChunksRetrieved,
              AnswerIsGrounded, FallbackIsCautious, Answered

(* Steps that leave the request alone.                                      *)
LEMMA UntouchedKeepsInv ==
    ASSUME IInv, UNCHANGED <<corpus, asked, pc, ctx, incident, response>>
    PROVE  IInv'
BY DEF IInv, TypeOK, GroundedInIncident, Offered, BestChunksRetrieved, AnswerIsGrounded,
       FallbackIsCautious, Answered, KeepsTheNumbers, CitesWhatItWasGiven, WithoutModel, Gated

LEMMA NextKeepsInv ==
    ASSUME IInv, [Next]_vars
    PROVE  IInv'
<1>1. CASE ServerFlips
  BY <1>1, UntouchedKeepsInv DEF ServerFlips
<1>2. ASSUME NEW wanted \in BOOLEAN, NEW loopback \in BOOLEAN, Construct(wanted, loopback)
      PROVE  IInv'
  BY <1>2, UntouchedKeepsInv DEF Construct
<1>3. ASSUME NEW query \in Queries, NEW context \in Contexts, AskOfApi(query, context)
      PROVE  IInv'
  BY <1>3, RequestsAreSound, AskKeepsInv DEF AskOfApi
<1>4. ASSUME NEW query \in Queries, NEW inc \in Incidents, AskOfPipeline(query, inc)
      PROVE  IInv'
  BY <1>4, IncidentsAreSound, AskKeepsInv DEF AskOfPipeline
<1>5. CASE TemplateAnswers
  BY <1>5, TemplateKeepsInv
<1>6. ASSUME NEW out \in ModelOutput, ModelAnswers(out)
      PROVE  IInv'
  BY <1>6, ModelKeepsInv
<1>7. CASE ModelFails
  BY <1>7, UntouchedKeepsInv DEF ModelFails
<1>8. CASE Gate
  BY <1>8, GateKeepsInv
<1>9. CASE Raise
  BY <1>9, RaiseKeepsInv
<1>10. CASE Return
  BY <1>10, ReturnKeepsInv
<1>11. CASE UNCHANGED vars
  BY <1>11, UntouchedKeepsInv DEF vars
<1> QED
  BY <1>1, <1>2, <1>3, <1>4, <1>5, <1>6, <1>7, <1>8, <1>9, <1>10, <1>11 DEF Next

(* Every reachable state of a copilot satisfies the invariant.              *)
THEOREM InvariantHolds == Spec => []IInv
<1>1. Init => IInv
  BY InitIsGrounded
<1>2. IInv /\ [Next]_vars => IInv'
  BY NextKeepsInv
<1> QED
  BY <1>1, <1>2, PTL DEF Spec

(* The chunks that match a query best in both ways reach the backend, and   *)
(* some do as long as there is a corpus (HybridRetriever.retrieve).         *)
THEOREM BestReachTheBackend == Spec => []BestChunksRetrieved
BY InvariantHolds, PTL DEF IInv

(* An answer keeps to the analytics' numbers and to the ids it was given,   *)
(* or abstains (enforce_citations, _fallback_response_from_incident).       *)
THEOREM AnswersAreGrounded == Spec => []AnswerIsGrounded
BY InvariantHolds, PTL DEF IInv

(* Without the model, an answer honours abstaining, approval and scope      *)
(* (TemplateClient, _fallback_response_from_incident).                      *)
THEOREM FallbacksAreCautious == Spec => []FallbackIsCautious
BY InvariantHolds, PTL DEF IInv
===============================================================================
