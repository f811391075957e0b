------------------------------ MODULE NumberLemmas ------------------------------
(***************************************************************************)
(* What the proofs need to know of natural numbers: induction by way of    *)
(* the least element, extrema, the order under products and quotients, and *)
(* the existence of what is defined by recursion on a number.              *)
(***************************************************************************)
EXTENDS Integers, FiniteSetsExt, FiniteSetTheorems, WellFoundedInduction, TLAPS

(* Induction over the natural numbers, by way of the least element.         *)
NatLess == {p \in Nat \X Nat : p[1] < p[2]}

LEMMA NatLessWF == IsWellFoundedOn(NatLess, Nat)
BY NatLessThanWellFounded DEF OpToRel, NatLess

(* Every set of natural numbers has a least element.                        *)
LEMMA LeastNat ==
    ASSUME NEW T \in SUBSET Nat, T # {}
    PROVE  \E x \in T : \A y \in T : x <= y
<1>1. PICK x \in T : \A y \in T : ~ (<<y, x>> \in NatLess)
    BY NatLessWF, WFMin
<1>2. ASSUME NEW y \in T, ~(x <= y) PROVE FALSE
    <2>1. y \in Nat /\ x \in Nat /\ y < x
        BY <1>2
    <2>2. <<y, x>> \in NatLess
        BY <2>1 DEF NatLess
    <2> QED BY <1>1, <2>2
<1> QED BY <1>2

(* A set that has 0 and, below n, the successor of each of its elements has *)
(* every number up to n.                                                    *)
LEMMA Climb ==
    ASSUME NEW n \in Nat, NEW T, 0 \in T,
           \A k \in 0..n : k \in T /\ k < n => k + 1 \in T
    PROVE  \A k \in 0..n : k \in T
<1> SUFFICES ASSUME (0..n) \ T # {} PROVE FALSE
    OBVIOUS
<1> DEFINE U == (0..n) \ T
<1>1. U \in SUBSET Nat
    OBVIOUS
<1>2. PICK x \in U : \A y \in U : x <= y
    BY <1>1, LeastNat, Zenon
<1>3. x \in 0..n /\ x # 0 /\ x \notin T
    BY <1>2
<1>4. x - 1 \in 0..n /\ x - 1 < n /\ ~(x <= x - 1) /\ (x - 1) + 1 = x
    BY <1>3
<1>5. x - 1 \in T
    BY <1>2, <1>4
<1> QED BY <1>3, <1>4, <1>5

(* The least element of a set of natural numbers.                           *)
LEMMA MinOf ==
    ASSUME NEW T \in SUBSET Nat, T # {}
    PROVE  Min(T) \in T /\ \A y \in T : Min(T) <= y
BY LeastNat DEF Min

(* The greatest element of a set of numbers below n.                        *)
LEMMA MaxOf ==
    ASSUME NEW n \in Nat, NEW T \in SUBSET (0..n), T # {}
    PROVE  Max(T) \in T /\ \A y \in T : y <= Max(T)
<1> DEFINE U == {n - y : y \in T}
<1>1. U \in SUBSET Nat /\ U # {}
    <2>1. \A y \in T : n - y \in Nat
        OBVIOUS
    <2> QED BY <2>1
<1>2. PICK u \in U : \A v \in U : u <= v
    BY <1>1, LeastNat, Zenon
<1>3. PICK x \in T : u = n - x
    BY <1>2
<1>4. \A y \in T : x >= y
    <2> SUFFICES ASSUME NEW y \in T PROVE x >= y
        OBVIOUS
    <2>1. n - x <= n - y
        BY <1>2, <1>3
    <2> QED BY <2>1
<1>5. Max(T) \in T /\ \A y \in T : Max(T) >= y
    BY <1>4 DEF Max
<1> QED BY <1>5

(* Multiplication of natural numbers keeps order.                           *)
LEMMA ProductGrows ==
    ASSUME NEW a \in Nat, NEW b \in Nat, NEW c \in Nat, NEW d \in Nat, a <= b, c <= d
    PROVE  a * c <= b * d /\ a * c \in Nat /\ b * d \in Nat
<1>1. a * c \in Nat /\ b * d \in Nat /\ b * c \in Nat
    OBVIOUS
<1>2. a * c <= b * c
    <2>1. (b - a) * c >= 0
        OBVIOUS
    <2> QED BY <2>1
<1>3. b * c <= b * d
    <2>1. b * (d - c) >= 0
        OBVIOUS
    <2> QED BY <2>1
<1> QED BY <1>1, <1>2, <1>3

(* Division by a positive number keeps order.                               *)
LEMMA QuotientGrows ==
    ASSUME NEW a \in Int, NEW b \in Int, NEW k \in Nat \ {0}, a <= b
    PROVE  a \div k <= b \div k /\ a \div k \in Int /\ b \div k \in Int
OBVIOUS

(* A quotient lies where the multiples of its divisor say.                  *)
LEMMA QuotientBetween ==
    ASSUME NEW a \in Int, NEW k \in Nat \ {0}, NEW l \in Int, NEW h \in Int,
           k * l <= a, a <= k * h
    PROVE  a \div k \in l..h
<1>1. l <= a \div k
    OBVIOUS
<1>2. a \div k <= h
    OBVIOUS
<1> QED BY <1>1, <1>2
-------------------------------------------------------------------------------
(* Repeating a function from a set to itself, n times.                      *)
Repeats(f, n, x, step) == \A k \in 0..n : f[k] = IF k = 0 THEN x ELSE step[f[k - 1]]

LEMMA Iterates ==
    ASSUME NEW D, NEW step \in [D -> D], NEW x \in D, NEW n \in Nat
    PROVE  \E f \in [0..n -> D] : Repeats(f, n, x, step)
<1> DEFINE T == {m \in Nat : \E f \in [0..m -> D] : Repeats(f, m, x, step)}
<1>1. 0 \in T
    <2> DEFINE f == [k \in 0..0 |-> x]
    <2>1. f \in [0..0 -> D] /\ Repeats(f, 0, x, step)
        BY DEF Repeats
    <2> QED BY <2>1
<1>2. ASSUME NEW m \in 0..n, m \in T, m < n PROVE m + 1 \in T
    <2>1. PICK f \in [0..m -> D] : \A k \in 0..m : f[k] = IF k = 0 THEN x ELSE step[f[k - 1]]
        BY <1>2 DEF Repeats
    <2> DEFINE h == [k \in 0..(m + 1) |-> IF k \in 0..m THEN f[k] ELSE step[f[m]]]
    <2>2. h \in [0..(m + 1) -> D]
        BY <2>1
    <2>3. ASSUME NEW k \in 0..(m + 1) PROVE h[k] = IF k = 0 THEN x ELSE step[h[k - 1]]
        <3>1. CASE k = 0
            BY <2>1, <3>1
        <3>2. CASE k # 0 /\ k \in 0..m
            <4>1. k - 1 \in 0..m /\ k - 1 \in 0..(m + 1)
                BY <3>2
            <4> QED BY <2>1, <3>2, <4>1
        <3>3. CASE k = m + 1
            <4>1. k - 1 = m /\ m \in 0..m /\ m \in 0..(m + 1) /\ k \notin 0..m /\ k # 0
                BY <3>3
            <4> QED BY <3>3, <4>1
        <3> QED BY <3>1, <3>2, <3>3
    <2>4. Repeats(h, m + 1, x, step)
        BY <2>3 DEF Repeats
    <2>5. m + 1 \in Nat
        OBVIOUS
    <2> QED BY <2>2, <2>4, <2>5
<1>3. \A m \in 0..n : m \in T
    <2> HIDE DEF T
    <2> QED BY <1>1, <1>2, Climb
<1>4. n \in 0..n
    OBVIOUS
<1> QED BY <1>3, <1>4

(* Folding: n steps, each of them with its number.                          *)
Folds(f, n, x, step) == \A k \in 0..n : f[k] = IF k = 0 THEN x ELSE step[k][f[k - 1]]

LEMMA Folding ==
    ASSUME NEW D, NEW n \in Nat, NEW step \in [1..n -> [D -> D]], NEW x \in D
    PROVE  \E f \in [0..n -> D] : Folds(f, n, x, step)
<1> DEFINE T == {m \in Nat : m <= n => \E f \in [0..m -> D] : Folds(f, m, x, step)}
<1>1. 0 \in T
    <2> DEFINE f == [k \in 0..0 |-> x]
    <2>1. f \in [0..0 -> D] /\ Folds(f, 0, x, step)
        BY DEF Folds
    <2> QED BY <2>1
<1>2. ASSUME NEW m \in 0..n, m \in T, m < n PROVE m + 1 \in T
    <2>1. PICK f \in [0..m -> D] : \A k \in 0..m : f[k] = IF k = 0 THEN x ELSE step[k][f[k - 1]]
        BY <1>2 DEF Folds
    <2> DEFINE h == [k \in 0..(m + 1) |-> IF k \in 0..m THEN f[k] ELSE step[m + 1][f[m]]]
    <2>2. h \in [0..(m + 1) -> D]
        <3>1. m \in 0..m /\ m + 1 \in 1..n
            BY <1>2
        <3>2. step[m + 1][f[m]] \in D
            BY <3>1
        <3> QED BY <2>1, <3>2
    <2>3. ASSUME NEW k \in 0..(m + 1) PROVE h[k] = IF k = 0 THEN x ELSE step[k][h[k - 1]]
        <3>1. CASE k = 0
            BY <2>1, <3>1
        <3>2. CASE k # 0 /\ k \in 0..m
            <4>1. k - 1 \in 0..m /\ k - 1 \in 0..(m + 1)
                BY <3>2
            <4> QED BY <2>1, <3>2, <4>1
        <3>3. CASE k = m + 1
            <4>1. k - 1 = m /\ m \in 0..m /\ m \in 0..(m + 1) /\ k \notin 0..m /\ k # 0
                BY <3>3
            <4> QED BY <3>3, <4>1
        <3> QED BY <3>1, <3>2, <3>3
    <2>4. Folds(h, m + 1, x, step)
        BY <2>3 DEF Folds
    <2>5. m + 1 \in Nat
        OBVIOUS
    <2> QED BY <2>2, <2>4, <2>5
<1>3. \A m \in 0..n : m \in T
    <2> HIDE DEF T
    <2> QED BY <1>1, <1>2, Climb
<1>4. n \in 0..n
    OBVIOUS
<1> QED BY <1>3, <1>4
-------------------------------------------------------------------------------
(* A strict order of a finite set, as a set of pairs.                       *)
IsStrictOrder(R, S) ==
    /\ \A a \in S : <<a, a>> \notin R
    /\ \A a, b, c \in S : <<a, b>> \in R /\ <<b, c>> \in R => <<a, c>> \in R

IsTotal(R, S) == \A a, b \in S : a # b => <<a, b>> \in R \/ <<b, a>> \in R

Predecessors(a, R, S) == {c \in S : <<c, a>> \in R}

(* The higher of two elements has more below it.                            *)
LEMMA PredecessorsGrow ==
    ASSUME NEW S, IsFiniteSet(S), NEW R, IsStrictOrder(R, S),
           NEW a \in S, NEW b \in S, <<a, b>> \in R
    PROVE  /\ Cardinality(Predecessors(a, R, S)) \in Nat
           /\ Cardinality(Predecessors(b, R, S)) \in Nat
           /\ Cardinality(Predecessors(a, R, S)) < Cardinality(Predecessors(b, R, S))
<1> DEFINE A == Predecessors(a, R, S)
           B == Predecessors(b, R, S)
<1>1. A \subseteq B /\ a \in B /\ a \notin A /\ B \subseteq S
    BY DEF IsStrictOrder, Predecessors
<1>2. IsFiniteSet(B) /\ IsFiniteSet(A)
    BY <1>1, FS_Subset
<1>3. Cardinality(A) \in Nat /\ Cardinality(B) \in Nat
    BY <1>2, FS_CardinalityType
<1>4. Cardinality(A) <= Cardinality(B) /\ (Cardinality(A) = Cardinality(B) => A = B)
    BY <1>1, <1>2, FS_Subset
<1>5. A # B
    BY <1>1
<1> HIDE DEF A, B
<1>6. Cardinality(A) < Cardinality(B)
    BY <1>3, <1>4, <1>5
<1> QED BY <1>3, <1>6 DEF A, B

(* A finite set that is totally ordered has a first element.                *)
LEMMA FirstExists ==
    ASSUME NEW S, IsFiniteSet(S), S # {}, NEW R, IsStrictOrder(R, S), IsTotal(R, S)
    PROVE  \E a \in S : \A b \in S \ {a} : <<a, b>> \in R
<1> DEFINE size(a) == Cardinality(Predecessors(a, R, S))
           T == {size(a) : a \in S}
<1>1. \A a \in S : size(a) \in Nat
    <2> SUFFICES ASSUME NEW a \in S PROVE size(a) \in Nat
        OBVIOUS
    <2>1. Predecessors(a, R, S) \subseteq S
        BY DEF Predecessors
    <2>2. IsFiniteSet(Predecessors(a, R, S))
        BY <2>1, FS_Subset
    <2> QED BY <2>2, FS_CardinalityType
<1>2. T \in SUBSET Nat /\ T # {}
    BY <1>1
<1>3. PICK m \in T : \A y \in T : m <= y
    <2> HIDE DEF T
    <2> QED BY <1>2, LeastNat, Zenon
<1>4. PICK a \in S : m = size(a)
    OBVIOUS
<1>5. ASSUME NEW b \in S, <<b, a>> \in R PROVE FALSE
    <2>1. size(b) < size(a) /\ size(b) \in Nat /\ size(a) \in Nat
        BY <1>5, PredecessorsGrow
    <2>2. size(a) <= size(b)
        BY <1>3, <1>4
    <2> HIDE DEF size
    <2> QED BY <2>1, <2>2
<1> QED BY <1>5 DEF IsTotal
-------------------------------------------------------------------------------
(* What a function makes of a finite set is finite.                         *)
LEMMA ImageIsFinite ==
    ASSUME NEW D, IsFiniteSet(D), NEW f, DOMAIN f = D
    PROVE  /\ IsFiniteSet({f[x] : x \in D})
           /\ Cardinality({f[x] : x \in D}) <= Cardinality(D)
<1> DEFINE T == {f[x] : x \in D}
           g == [x \in D |-> f[x]]
<1>1. g \in Surjection(D, T)
    BY DEF Surjection
<1> HIDE DEF g, T
<1>2. IsFiniteSet(T) /\ Cardinality(T) <= Cardinality(D)
    BY <1>1, FS_Surjection
<1> QED BY <1>2 DEF T

(* The extrema of a finite set of integers.                                 *)
LEMMA FiniteMin ==
    ASSUME NEW S \in SUBSET Int, IsFiniteSet(S), S # {}
    PROVE  Min(S) \in S /\ \A y \in S : Min(S) <= y
<1> DEFINE R == {p \in S \X S : p[1] < p[2]}
<1>1. IsStrictOrder(R, S)
    BY DEF IsStrictOrder
<1>2. IsTotal(R, S)
    BY DEF IsTotal
<1>3. PICK a \in S : \A b \in S \ {a} : <<a, b>> \in R
    <2> HIDE DEF R
    <2> QED BY <1>1, <1>2, FirstExists
<1>4. \A b \in S : a <= b
    <2> SUFFICES ASSUME NEW b \in S, b # a PROVE a <= b
        OBVIOUS
    <2>1. <<a, b>> \in R
        BY <1>3
    <2> QED BY <2>1
<1> QED BY <1>4 DEF Min

LEMMA FiniteMax ==
    ASSUME NEW S \in SUBSET Int, IsFiniteSet(S), S # {}
    PROVE  Max(S) \in S /\ \A y \in S : y <= Max(S)
<1> DEFINE R == {p \in S \X S : p[1] > p[2]}
<1>1. IsStrictOrder(R, S)
    BY DEF IsStrictOrder
<1>2. IsTotal(R, S)
    BY DEF IsTotal
<1>3. PICK a \in S : \A b \in S \ {a} : <<a, b>> \in R
    <2> HIDE DEF R
    <2> QED BY <1>1, <1>2, FirstExists
<1>4. \A b \in S : a >= b
    <2> SUFFICES ASSUME NEW b \in S, b # a PROVE a >= b
        OBVIOUS
    <2>1. <<a, b>> \in R
        BY <1>3
    <2> QED BY <2>1
<1>5. Max(S) \in S /\ \A b \in S : Max(S) >= b
    BY <1>4 DEF Max
<1> QED BY <1>5
===============================================================================
