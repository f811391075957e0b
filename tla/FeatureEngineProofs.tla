-------------------------- MODULE FeatureEngineProofs --------------------------
(***************************************************************************)
(* What the online features and the CUSUM guarantee whatever their         *)
(* windows, caps, warm-ups, fading factors and thresholds, for any number  *)
(* of streams and calls.                                                   *)
(***************************************************************************)
EXTENDS FeatureEngine, NumberLemmas

(* The greater and the lesser of two numbers.                               *)
LEMMA MaxOfTwo ==
    ASSUME NEW a \in Int, NEW b \in Int
    PROVE  Max({a, b}) = IF a > b THEN a ELSE b
<1> DEFINE m == IF a > b THEN a ELSE b
<1>1. m \in {a, b} /\ \A x \in {a, b} : m >= x
    OBVIOUS
<1>2. \A y \in {a, b} : (\A x \in {a, b} : y >= x) => y = m
    OBVIOUS
<1> HIDE DEF m
<1>3. Max({a, b}) = m
    BY <1>1, <1>2 DEF Max
<1> QED BY <1>3 DEF m

LEMMA MinOfTwo ==
    ASSUME NEW a \in Int, NEW b \in Int
    PROVE  Min({a, b}) = IF a < b THEN a ELSE b
<1> DEFINE m == IF a < b THEN a ELSE b
<1>1. m \in {a, b} /\ \A x \in {a, b} : m <= x
    OBVIOUS
<1>2. \A y \in {a, b} : (\A x \in {a, b} : y <= x) => y = m
    OBVIOUS
<1> HIDE DEF m
<1>3. Min({a, b}) = m
    BY <1>1, <1>2 DEF Min
<1> QED BY <1>3 DEF m
-------------------------------------------------------------------------------
(* A suffix sum, as the steps that make it.                                 *)
SumsFrom(sum, s, i, slack) ==
    /\ sum \in [(i - 1)..Len(s) -> Int]
    /\ sum[i - 1] = 0
    /\ \A k \in i..Len(s) : sum[k] = sum[k - 1] + s[k] + slack

LEMMA SuffixSumIs ==
    ASSUME NEW s \in Seq(Int), NEW i \in 1..(Len(s) + 1), NEW slack \in Int
    PROVE  \E sum : SumsFrom(sum, s, i, slack) /\ SuffixSum(s, i, slack) = sum[Len(s)]
<1> DEFINE N == Len(s)
           L == N - i + 1
           step == [j \in 1..L |-> [x \in Int |-> x + s[i - 1 + j] + slack]]
           B == CHOOSE sum : sum = [k \in (i - 1)..N |-> IF k = i - 1 THEN 0 ELSE sum[k - 1] + s[k] + slack]
<1>1. N \in Nat /\ 0 \in Int /\ i \in 1..(N + 1) /\ L \in Nat /\ \A k \in 1..N : s[k] \in Int
    OBVIOUS
<1>2. step \in [1..L -> [Int -> Int]]
    <2>1. \A j \in 1..L : s[i - 1 + j] \in Int
        BY <1>1
    <2> HIDE DEF L
    <2> QED BY <2>1
<1>3. PICK g \in [0..L -> Int] : \A j \in 0..L : g[j] = IF j = 0 THEN 0 ELSE step[j][g[j - 1]]
    <2> HIDE DEF step, L
    <2>1. \E g \in [0..L -> Int] : Folds(g, L, 0, step)
        BY <1>1, <1>2, Folding
    <2> QED BY <2>1 DEF Folds
<1> DEFINE f == [k \in (i - 1)..N |-> g[k - (i - 1)]]
<1>4. f = [k \in (i - 1)..N |-> IF k = i - 1 THEN 0 ELSE f[k - 1] + s[k] + slack]
    <2>1. ASSUME NEW k \in (i - 1)..N
          PROVE f[k] = IF k = i - 1 THEN 0 ELSE f[k - 1] + s[k] + slack
        <3>1. CASE k = i - 1
            <4>1. k - (i - 1) = 0 /\ 0 \in 0..L
                BY <1>1, <3>1
            <4> QED BY <1>3, <3>1, <4>1
        <3>2. CASE k # i - 1
            <4> DEFINE j == k - (i - 1)
            <4>1. /\ j \in 1..L /\ j \in 0..L /\ j - 1 \in 0..L /\ j # 0
                  /\ k - 1 \in (i - 1)..N /\ (k - 1) - (i - 1) = j - 1 /\ i - 1 + j = k
                BY <1>1, <3>2
            <4>2. g[j] = step[j][g[j - 1]]
                BY <1>3, <4>1
            <4>3. g[j - 1] \in Int
                BY <1>3, <4>1
            <4>4. step[j][g[j - 1]] = g[j - 1] + s[k] + slack
                BY <4>1, <4>3
            <4>5. f[k] = g[j] /\ f[k - 1] = g[j - 1]
                BY <4>1
            <4> HIDE DEF f, j, step
            <4> QED BY <3>2, <4>2, <4>4, <4>5
        <3> QED BY <3>1, <3>2
    <2> HIDE DEF N, step
    <2> QED BY <2>1
<1>5. B = [k \in (i - 1)..N |-> IF k = i - 1 THEN 0 ELSE B[k - 1] + s[k] + slack]
    <2> HIDE DEF f, N
    <2> QED BY <1>4, Zenon
<1>6. SuffixSum(s, i, slack) = B[N]
    BY Zenon DEF SuffixSum
<1> HIDE DEF B, f
<1>7. B[i - 1] = 0 /\ \A k \in i..N : B[k] = B[k - 1] + s[k] + slack
    <2>1. i - 1 \in (i - 1)..N /\ \A k \in i..N : k \in (i - 1)..N /\ k # i - 1
        BY <1>1
    <2> QED BY <1>5, <2>1
<1>8. \A k \in (i - 1)..N : B[k] \in Int
    <2> DEFINE T == {j \in 0..L : B[i - 1 + j] \in Int}
    <2>1. 0 \in T
        BY <1>1, <1>7
    <2>2. ASSUME NEW j \in 0..L, j \in T, j < L PROVE j + 1 \in T
        <3>1. i - 1 + (j + 1) \in i..N /\ j + 1 \in 0..L /\ (i - 1 + (j + 1)) - 1 = i - 1 + j
            BY <1>1, <2>2
        <3>2. B[i - 1 + (j + 1)] = B[i - 1 + j] + s[i - 1 + (j + 1)] + slack
            BY <1>7, <3>1
        <3>3. s[i - 1 + (j + 1)] \in Int
            BY <1>1, <3>1
        <3> QED BY <2>2, <3>1, <3>2, <3>3
    <2>3. \A j \in 0..L : j \in T
        <3> HIDE DEF T, L
        <3> QED BY <1>1, <2>1, <2>2, Climb
    <2>4. ASSUME NEW k \in (i - 1)..N PROVE B[k] \in Int
        <3>1. k - (i - 1) \in 0..L /\ i - 1 + (k - (i - 1)) = k
            BY <1>1
        <3> QED BY <2>3, <3>1
    <2> QED BY <2>4
<1>9. B \in [(i - 1)..N -> Int]
    <2> HIDE DEF N
    <2> QED BY <1>5, <1>8
<1> QED BY <1>6, <1>7, <1>9 DEF SumsFrom

(* One more number adds to every suffix, and is one.                        *)
LEMMA SuffixSumGrows ==
    ASSUME NEW s \in Seq(Int), NEW z \in Int, NEW slack \in Int, NEW i \in 1..(Len(s) + 1)
    PROVE  /\ SuffixSum(s, i, slack) \in Int
           /\ SuffixSum(Append(s, z), i, slack) = SuffixSum(s, i, slack) + z + slack
           /\ i = Len(s) + 1 => SuffixSum(s, i, slack) = 0
<1> DEFINE N == Len(s)
           t == Append(s, z)
<1>1. N \in Nat /\ t \in Seq(Int) /\ Len(t) = N + 1 /\ i \in 1..(N + 1) /\ i \in 1..(Len(t) + 1)
    OBVIOUS
<1>2. t[N + 1] = z /\ \A k \in 1..N : t[k] = s[k]
    OBVIOUS
<1>3. PICK a : SumsFrom(a, s, i, slack) /\ SuffixSum(s, i, slack) = a[N]
    BY SuffixSumIs
<1> HIDE DEF t
<1>4. PICK b : SumsFrom(b, t, i, slack) /\ SuffixSum(t, i, slack) = b[N + 1]
    BY <1>1, SuffixSumIs
<1>5. \A k \in (i - 1)..N : b[k] = a[k]
    <2> DEFINE L == N - i + 1
               T == {j \in 0..L : b[i - 1 + j] = a[i - 1 + j]}
    <2>1. 0 \in T /\ L \in Nat
        BY <1>1, <1>3, <1>4 DEF SumsFrom
    <2>2. ASSUME NEW j \in 0..L, j \in T, j < L PROVE j + 1 \in T
        <3> HIDE DEF N
        <3>0. j \in Nat /\ j + 1 <= N - i + 1 /\ i \in Nat /\ i >= 1
            BY <1>1, <2>2
        <3>1. /\ i - 1 + (j + 1) \in i..N /\ i - 1 + (j + 1) \in i..(N + 1)
              /\ i - 1 + (j + 1) \in 1..N
              /\ j + 1 \in 0..L /\ (i - 1 + (j + 1)) - 1 = i - 1 + j
            BY <1>1, <3>0
        <3>2. t[i - 1 + (j + 1)] = s[i - 1 + (j + 1)]
            BY <1>2, <3>1
        <3>3. a[i - 1 + (j + 1)] = a[i - 1 + j] + s[i - 1 + (j + 1)] + slack
            BY <1>3, <3>1 DEF SumsFrom, N
        <3>4. b[i - 1 + (j + 1)] = b[i - 1 + j] + t[i - 1 + (j + 1)] + slack
            BY <1>1, <1>4, <3>1 DEF SumsFrom
        <3> QED BY <2>2, <3>1, <3>2, <3>3, <3>4
    <2>3. \A j \in 0..L : j \in T
        <3> HIDE DEF T, L
        <3> QED BY <2>1, <2>2, Climb
    <2>4. ASSUME NEW k \in (i - 1)..N PROVE b[k] = a[k]
        <3>1. k - (i - 1) \in 0..L /\ i - 1 + (k - (i - 1)) = k
            BY <1>1
        <3> QED BY <2>3, <3>1
    <2> QED BY <2>4
<1>6. N \in (i - 1)..N /\ N + 1 \in i..Len(t) /\ (N + 1) - 1 = N
    BY <1>1
<1>7. b[N + 1] = a[N] + z + slack /\ a[N] \in Int
    BY <1>2, <1>3, <1>4, <1>5, <1>6 DEF SumsFrom
<1>8. i = N + 1 => a[N] = 0
    <2>1. i = N + 1 => i - 1 = N
        BY <1>1
    <2> QED BY <2>1, <1>3 DEF SumsFrom
<1> QED BY <1>3, <1>4, <1>7, <1>8 DEF t
-------------------------------------------------------------------------------
(* The sums of a CUSUM are the highest, and the lowest, of the sums of the  *)
(* suffixes of what counted since the last alarm.                           *)
IsPeak(up, s, slack) ==
    /\ up \in Nat
    /\ \A i \in 1..Len(s) : SuffixSum(s, i, slack) <= up
    /\ up = 0 \/ \E i \in 1..Len(s) : SuffixSum(s, i, slack) = up

IsTrough(down, s, slack) ==
    /\ down \in Int /\ down <= 0
    /\ \A i \in 1..Len(s) : SuffixSum(s, i, slack) >= down
    /\ down = 0 \/ \E i \in 1..Len(s) : SuffixSum(s, i, slack) = down

LEMMA PeakGrows ==
    ASSUME NEW s \in Seq(Int), NEW z \in Int, NEW slack \in Int, NEW up, IsPeak(up, s, slack)
    PROVE  IsPeak(Max({0, up + z + slack}), Append(s, z), slack)
<1> DEFINE N == Len(s)
           t == Append(s, z)
<1>1. N \in Nat /\ Len(t) = N + 1 /\ N + 1 \in 1..(N + 1) /\ up \in Nat
    BY DEF IsPeak
<1>2. \A i \in 1..(N + 1) : /\ SuffixSum(s, i, slack) \in Int
                            /\ SuffixSum(t, i, slack) = SuffixSum(s, i, slack) + z + slack
    BY SuffixSumGrows
<1>3. SuffixSum(s, N + 1, slack) = 0
    BY <1>1, SuffixSumGrows
<1> HIDE DEF t, N
<1>4. \A i \in 1..(N + 1) : SuffixSum(s, i, slack) <= up
    <2> SUFFICES ASSUME NEW i \in 1..(N + 1) PROVE SuffixSum(s, i, slack) <= up
        OBVIOUS
    <2>1. CASE i = N + 1
        BY <1>1, <1>3, <2>1
    <2>2. CASE i # N + 1
        <3>1. i \in 1..N
            BY <1>1, <2>2
        <3> QED BY <3>1 DEF IsPeak, N
    <2> QED BY <2>1, <2>2
<1>5. \E i \in 1..(N + 1) : SuffixSum(s, i, slack) = up
    <2>1. CASE up = 0
        BY <1>1, <1>3, <2>1
    <2>2. CASE up # 0
        <3>1. PICK i \in 1..N : SuffixSum(s, i, slack) = up
            BY <2>2 DEF IsPeak, N
        <3>2. i \in 1..(N + 1)
            BY <1>1
        <3> QED BY <3>1, <3>2
    <2> QED BY <2>1, <2>2
<1>6. \A i \in 1..(N + 1) : SuffixSum(t, i, slack) <= up + z + slack
    BY <1>1, <1>2, <1>4
<1>7. \E i \in 1..(N + 1) : SuffixSum(t, i, slack) = up + z + slack
    BY <1>2, <1>5
<1>8. up + z + slack \in Int
    BY <1>1
<1>9. Max({0, up + z + slack}) = IF 0 > up + z + slack THEN 0 ELSE up + z + slack
    BY <1>8, MaxOfTwo
<1>10. \A i \in 1..(N + 1) : SuffixSum(t, i, slack) \in Int
    BY <1>2
<1> DEFINE m == Max({0, up + z + slack})
<1>11. m \in Nat /\ up + z + slack <= m /\ (m = 0 \/ m = up + z + slack)
    BY <1>8, <1>9
<1> HIDE DEF m
<1>12. \A i \in 1..(N + 1) : SuffixSum(t, i, slack) <= m
    BY <1>6, <1>8, <1>10, <1>11
<1>13. m = 0 \/ \E i \in 1..(N + 1) : SuffixSum(t, i, slack) = m
    BY <1>7, <1>11
<1>14. IsPeak(m, t, slack)
    BY <1>1, <1>11, <1>12, <1>13 DEF IsPeak
<1> QED BY <1>14 DEF m, t

LEMMA TroughGrows ==
    ASSUME NEW s \in Seq(Int), NEW z \in Int, NEW slack \in Int, NEW down, IsTrough(down, s, slack)
    PROVE  IsTrough(Min({0, down + z + slack}), Append(s, z), slack)
<1> DEFINE N == Len(s)
           t == Append(s, z)
<1>1. N \in Nat /\ Len(t) = N + 1 /\ N + 1 \in 1..(N + 1) /\ down \in Int /\ down <= 0
    BY DEF IsTrough
<1>2. \A i \in 1..(N + 1) : /\ SuffixSum(s, i, slack) \in Int
                            /\ SuffixSum(t, i, slack) = SuffixSum(s, i, slack) + z + slack
    BY SuffixSumGrows
<1>3. SuffixSum(s, N + 1, slack) = 0
    BY <1>1, SuffixSumGrows
<1> HIDE DEF t, N
<1>4. \A i \in 1..(N + 1) : SuffixSum(s, i, slack) >= down
    <2> SUFFICES ASSUME NEW i \in 1..(N + 1) PROVE SuffixSum(s, i, slack) >= down
        OBVIOUS
    <2>1. CASE i = N + 1
        BY <1>1, <1>3, <2>1
    <2>2. CASE i # N + 1
        <3>1. i \in 1..N
            BY <1>1, <2>2
        <3> QED BY <3>1 DEF IsTrough, N
    <2> QED BY <2>1, <2>2
<1>5. \E i \in 1..(N + 1) : SuffixSum(s, i, slack) = down
    <2>1. CASE down = 0
        BY <1>1, <1>3, <2>1
    <2>2. CASE down # 0
        <3>1. PICK i \in 1..N : SuffixSum(s, i, slack) = down
            BY <2>2 DEF IsTrough, N
        <3>2. i \in 1..(N + 1)
            BY <1>1
        <3> QED BY <3>1, <3>2
    <2> QED BY <2>1, <2>2
<1>6. \A i \in 1..(N + 1) : SuffixSum(t, i, slack) >= down + z + slack
    BY <1>1, <1>2, <1>4
<1>7. \E i \in 1..(N + 1) : SuffixSum(t, i, slack) = down + z + slack
    BY <1>2, <1>5
<1>8. down + z + slack \in Int
    BY <1>1
<1>9. Min({0, down + z + slack}) = IF 0 < down + z + slack THEN 0 ELSE down + z + slack
    BY <1>8, MinOfTwo
<1>10. \A i \in 1..(N + 1) : SuffixSum(t, i, slack) \in Int
    BY <1>2
<1> DEFINE m == Min({0, down + z + slack})
<1>11. m \in Int /\ m <= 0 /\ m <= down + z + slack /\ (m = 0 \/ m = down + z + slack)
    BY <1>8, <1>9
<1> HIDE DEF m
<1>12. \A i \in 1..(N + 1) : SuffixSum(t, i, slack) >= m
    BY <1>6, <1>8, <1>10, <1>11
<1>13. m = 0 \/ \E i \in 1..(N + 1) : SuffixSum(t, i, slack) = m
    BY <1>7, <1>11
<1>14. IsTrough(m, t, slack)
    BY <1>1, <1>11, <1>12, <1>13 DEF IsTrough
<1> QED BY <1>14 DEF m, t
-------------------------------------------------------------------------------
(* The computer used on its own, as a record.                               *)
Shape == /\ tool = [kind |-> tool.kind, state |-> tool.state, hash |-> tool.hash]
         /\ tool.kind \in {"flap", "talkers", "cusum"}

Alarming(s) ==
    \E i \in 1..Len(s) : \/ SuffixSum(s, i, -CusumSlack) > CusumLimit
                         \/ SuffixSum(s, i, CusumSlack) < -CusumLimit

CusumInv ==
    tool.kind = "cusum" =>
        /\ tool.state = [n |-> tool.state.n, up |-> tool.state.up, down |-> tool.state.down,
                         fired |-> tool.state.fired]
        /\ calls.run \in Seq(Int) /\ calls.last \in Seq(Int)
        /\ IsPeak(tool.state.up, calls.run, -CusumSlack)
        /\ IsTrough(tool.state.down, calls.run, CusumSlack)
        /\ calls.last # <<>> => (tool.state.fired <=> Alarming(calls.last))

(* A peak beyond the limit is a suffix beyond it, and so is a trough.       *)
LEMMA PeakAlarms ==
    ASSUME NEW s \in Seq(Int), NEW up, IsPeak(up, s, -CusumSlack),
           NEW down, IsTrough(down, s, CusumSlack)
    PROVE  up > CusumLimit \/ down < -CusumLimit <=> Alarming(s)
<1>1. CusumLimit \in Nat /\ CusumSlack \in Nat /\ -CusumSlack \in Int
    BY FeatureAssumption
<1>2. \A i \in 1..Len(s) : i \in 1..(Len(s) + 1)
    OBVIOUS
<1>3. \A i \in 1..Len(s) : /\ SuffixSum(s, i, -CusumSlack) \in Int
                           /\ SuffixSum(s, i, CusumSlack) \in Int
    BY <1>1, <1>2, SuffixSumGrows
<1>4. up > CusumLimit <=> \E i \in 1..Len(s) : SuffixSum(s, i, -CusumSlack) > CusumLimit
    BY <1>1, <1>3 DEF IsPeak
<1>5. down < -CusumLimit <=> \E i \in 1..Len(s) : SuffixSum(s, i, CusumSlack) < -CusumLimit
    BY <1>1, <1>3 DEF IsTrough
<1> QED BY <1>4, <1>5 DEF Alarming

LEMMA NothingSummed == IsPeak(0, <<>>, -CusumSlack) /\ IsTrough(0, <<>>, CusumSlack)
<1>1. Len(<<>>) = 0
    OBVIOUS
<1> QED BY <1>1 DEF IsPeak, IsTrough

LEMMA ObserveCusum ==
    ASSUME Shape, CusumInv, Observe
    PROVE  CusumInv'
<1>1. tool.kind = "cusum" /\ UNCHANGED engineVars
    BY DEF Observe, Use
<1>2. PICK z \in Deviations \cup {None} :
         LET ignored == z = None \/ tool.state.n < CusumWarmup
             run     == IF ignored THEN calls.run ELSE Append(calls.run, z)
         IN /\ tool' = [tool EXCEPT !.state = CusumUpdate(@, z)]
            /\ calls' = [n |-> calls.n + 1, last |-> IF ignored THEN <<>> ELSE run,
                         run |-> IF tool'.state.fired THEN <<>> ELSE run]
    BY DEF Observe
<1>3. /\ tool' = [kind |-> "cusum", state |-> CusumUpdate(tool.state, z), hash |-> tool.hash]
      /\ tool'.state = CusumUpdate(tool.state, z)
    <2>1. tool' = [tool EXCEPT !.state = CusumUpdate(@, z)]
        BY <1>2
    <2> QED BY <1>1, <2>1 DEF Shape
<1> DEFINE c == tool.state
<1>4. /\ c = [n |-> c.n, up |-> c.up, down |-> c.down, fired |-> c.fired]
      /\ calls.run \in Seq(Int) /\ calls.last \in Seq(Int)
      /\ IsPeak(c.up, calls.run, -CusumSlack)
      /\ IsTrough(c.down, calls.run, CusumSlack)
    BY <1>1 DEF CusumInv
<1>5. CASE z = None \/ c.n < CusumWarmup
    <2> DEFINE n == Min({c.n + 1, CusumWarmup + 1})
    <2>1. tool'.state = [c EXCEPT !.n = n, !.fired = FALSE]
        BY <1>3, <1>5, Zenon DEF CusumUpdate
    <2> HIDE DEF n
    <2>2. tool'.state = [n |-> n, up |-> c.up, down |-> c.down, fired |-> FALSE]
        BY <1>4, <2>1
    <2>3. calls' = [n |-> calls.n + 1, last |-> <<>>, run |-> calls.run]
        <3>1. ~ tool'.state.fired
            BY <2>2
        <3> QED BY <1>2, <1>5, <3>1
    <2>4. /\ tool'.state = [n |-> tool'.state.n, up |-> tool'.state.up, down |-> tool'.state.down,
                            fired |-> tool'.state.fired]
          /\ tool'.state.up = c.up /\ tool'.state.down = c.down
        BY <2>2
    <2>5. calls'.run = calls.run /\ calls'.last = <<>> /\ <<>> \in Seq(Int)
        BY <2>3
    <2> QED BY <1>4, <2>4, <2>5 DEF CusumInv
<1>6. CASE ~(z = None \/ c.n < CusumWarmup)
    <2>1. z \in Int
        BY <1>6, EngineAssumption
    <2> DEFINE up == Max({0, c.up + z - CusumSlack})
               down == Min({0, c.down + z + CusumSlack})
               fired == up > CusumLimit \/ down < -CusumLimit
               n == Min({c.n + 1, CusumWarmup + 1})
               run == Append(calls.run, z)
    <2>2. tool'.state = [n |-> n, up |-> IF fired THEN 0 ELSE up, down |-> IF fired THEN 0 ELSE down,
                         fired |-> fired]
        BY <1>3, <1>6, Zenon DEF CusumUpdate
    <2>3. CusumSlack \in Nat /\ -CusumSlack \in Int /\ c.up \in Int
        BY <1>4, FeatureAssumption DEF IsPeak
    <2>4. IsPeak(up, run, -CusumSlack)
        <3>1. c.up + z - CusumSlack = c.up + z + (-CusumSlack)
            BY <2>1, <2>3
        <3>2. IsPeak(Max({0, c.up + z + (-CusumSlack)}), Append(calls.run, z), -CusumSlack)
            BY <1>4, <2>1, <2>3, PeakGrows
        <3> QED BY <3>1, <3>2, Zenon
    <2>5. IsTrough(down, run, CusumSlack)
        <3>1. IsTrough(Min({0, c.down + z + CusumSlack}), Append(calls.run, z), CusumSlack)
            <4>1. CusumSlack \in Int
                BY <2>3
            <4> QED BY <1>4, <2>1, <4>1, TroughGrows
        <3> QED BY <3>1
    <2>6. run \in Seq(Int) /\ run # <<>>
        BY <1>4, <2>1
    <2> HIDE DEF up, down, n, run
    <2>7. fired <=> Alarming(run)
        BY <2>4, <2>5, <2>6, PeakAlarms
    <2>8. calls' = [n |-> calls.n + 1, last |-> run, run |-> IF fired THEN <<>> ELSE run]
        <3>1. tool'.state.fired = fired
            BY <2>2
        <3> QED BY <1>2, <1>6, <3>1 DEF run
    <2> HIDE DEF fired
    <2>9. /\ tool'.state = [n |-> tool'.state.n, up |-> tool'.state.up, down |-> tool'.state.down,
                            fired |-> tool'.state.fired]
          /\ tool'.state.up = IF fired THEN 0 ELSE up
          /\ tool'.state.down = IF fired THEN 0 ELSE down
          /\ tool'.state.fired = fired
        BY <2>2
    <2>10. /\ calls'.last = run
           /\ calls'.run = IF fired THEN <<>> ELSE run
        BY <2>8
    <2>11. /\ IsPeak(tool'.state.up, calls'.run, -CusumSlack)
           /\ IsTrough(tool'.state.down, calls'.run, CusumSlack)
           /\ calls'.run \in Seq(Int)
        <3>1. CASE fired
            BY <2>9, <2>10, <3>1, NothingSummed
        <3>2. CASE ~fired
            BY <2>4, <2>5, <2>6, <2>9, <2>10, <3>2
        <3> QED BY <3>1, <3>2
    <2>12. tool'.state.fired <=> Alarming(calls'.last)
        BY <2>7, <2>9, <2>10, Zenon
    <2> QED BY <2>6, <2>9, <2>10, <2>11, <2>12 DEF CusumInv
<1> QED BY <1>5, <1>6
-------------------------------------------------------------------------------
(* A part of a sequence, and a sequence with more at its end.               *)
IsSlice(r, q, m, n) ==
    /\ r \in Seq(Nat)
    /\ Len(r) = IF m <= n THEN (n - m) + 1 ELSE 0
    /\ \A i \in 1..((n - m) + 1) : r[i] = q[(m + i) - 1]

LEMMA SliceIs ==
    ASSUME NEW q \in Seq(Nat), NEW m \in Nat \ {0}, NEW n \in Nat, n <= Len(q)
    PROVE  IsSlice(SubSeq(q, m, n), q, m, n)
BY DEF IsSlice

Repeated(n, now) == [i \in 1..n |-> now]

IsJoined(p, q, n, now) ==
    /\ p \in Seq(Nat)
    /\ Len(p) = Len(q) + n
    /\ \A i \in 1..Len(q) : p[i] = q[i]
    /\ \A i \in (Len(q) + 1)..(Len(q) + n) : p[i] = now

LEMMA ConcatIs ==
    ASSUME NEW q \in Seq(Nat), NEW r \in Seq(Nat)
    PROVE  /\ q \o r \in Seq(Nat)
           /\ Len(q \o r) = Len(q) + Len(r)
           /\ \A i \in 1..Len(q) : (q \o r)[i] = q[i]
           /\ \A i \in (Len(q) + 1)..(Len(q) + Len(r)) : (q \o r)[i] = r[i - Len(q)]
OBVIOUS

LEMMA JoinedIs ==
    ASSUME NEW q \in Seq(Nat), NEW now \in Nat, NEW n \in Nat
    PROVE  IsJoined(q \o Repeated(n, now), q, n, now)
<1>1. /\ Repeated(n, now) \in Seq(Nat) /\ Len(Repeated(n, now)) = n
      /\ \A i \in 1..n : Repeated(n, now)[i] = now
    BY DEF Repeated
<1>2. PICK p : p = q \o Repeated(n, now)
    OBVIOUS
<1>3. /\ p \in Seq(Nat)
      /\ Len(p) = Len(q) + Len(Repeated(n, now))
      /\ \A i \in 1..Len(q) : p[i] = q[i]
      /\ \A i \in (Len(q) + 1)..(Len(q) + Len(Repeated(n, now))) : p[i] = Repeated(n, now)[i - Len(q)]
    BY <1>1, <1>2, ConcatIs, Zenon
<1>5. \A i \in (Len(q) + 1)..(Len(q) + n) : i - Len(q) \in 1..n
    OBVIOUS
<1>6. IsJoined(p, q, n, now)
    BY <1>1, <1>3, <1>5 DEF IsJoined
<1> QED BY <1>2, <1>6

(* A ring q holds the end of all flaps, no more than fit, and nothing that  *)
(* fits and is of the window up to a time is missing.                       *)
Holds(q, flaps, clock) ==
    /\ Len(q) <= Len(flaps) /\ Len(q) <= FlapCap
    /\ \A j \in 1..Len(q) : q[j] = flaps[(Len(flaps) - Len(q)) + j]
    /\ \A i \in 1..(Len(flaps) - Len(q)) : i <= Len(flaps) - FlapCap \/ flaps[i] < clock - FlapWindow

(* Flaps that were told in order.                                           *)
InOrder(flaps, clock) ==
    /\ \A i, j \in 1..Len(flaps) : i <= j => flaps[i] <= flaps[j]
    /\ \A i \in 1..Len(flaps) : flaps[i] <= clock

LEMMA CapIs == FlapCap \in Nat /\ FlapCap >= 1 /\ FlapWindow \in Nat
BY FeatureAssumption

LEMMA RingHolds ==
    ASSUME NEW q \in Seq(Nat), NEW flaps \in Seq(Nat), NEW clock \in Nat, Holds(q, flaps, clock),
           NEW now \in Nat, NEW n \in Nat
    PROVE  /\ Ring(q \o Repeated(n, now)) \in Seq(Nat)
           /\ Holds(Ring(q \o Repeated(n, now)), flaps \o Repeated(n, now), clock)
<1>1. PICK p : p = q \o Repeated(n, now)
    OBVIOUS
<1>2. PICK fs : fs = flaps \o Repeated(n, now)
    OBVIOUS
<1>3. /\ p \in Seq(Nat) /\ Len(p) = Len(q) + n
      /\ \A i \in 1..Len(q) : p[i] = q[i]
      /\ \A i \in (Len(q) + 1)..(Len(q) + n) : p[i] = now
    <2>1. IsJoined(p, q, n, now)
        BY <1>1, JoinedIs, Zenon
    <2> QED BY <2>1, Zenon DEF IsJoined
<1>4. /\ fs \in Seq(Nat) /\ Len(fs) = Len(flaps) + n
      /\ \A i \in 1..Len(flaps) : fs[i] = flaps[i]
      /\ \A i \in (Len(flaps) + 1)..(Len(flaps) + n) : fs[i] = now
    <2>1. IsJoined(fs, flaps, n, now)
        BY <1>2, JoinedIs, Zenon
    <2> QED BY <2>1, Zenon DEF IsJoined
<1>5. Len(q) \in Nat /\ Len(flaps) \in Nat /\ Len(q) <= Len(flaps) /\ Len(q) <= FlapCap
    BY DEF Holds
<1>5a. Len(p) = Len(q) + n /\ Len(p) \in Nat /\ Len(fs) = Len(flaps) + n /\ Len(fs) \in Nat
    BY <1>3, <1>4, <1>5
<1>6. ASSUME NEW j \in 1..Len(p) PROVE p[j] = fs[(Len(fs) - Len(p)) + j]
    <2>1. CASE j <= Len(q)
        <3>1. j \in 1..Len(q) /\ (Len(flaps) - Len(q)) + j \in 1..Len(flaps)
            BY <1>3, <1>5, <2>1
        <3>2. q[j] = flaps[(Len(flaps) - Len(q)) + j]
            BY <3>1 DEF Holds
        <3>3. (Len(fs) - Len(p)) + j = (Len(flaps) - Len(q)) + j
            BY <1>3, <1>4, <1>5
        <3> QED BY <1>3, <1>4, <3>1, <3>2, <3>3
    <2>2. CASE ~(j <= Len(q))
        <3>1. /\ j \in (Len(q) + 1)..(Len(q) + n)
              /\ (Len(fs) - Len(p)) + j \in (Len(flaps) + 1)..(Len(flaps) + n)
            BY <1>3, <1>4, <1>5, <2>2
        <3> QED BY <1>3, <1>4, <3>1
    <2> QED BY <2>1, <2>2
<1>7. PICK m : m = Max({1, Len(p) - FlapCap + 1})
    OBVIOUS
<1>8. m = IF Len(p) > FlapCap THEN Len(p) - FlapCap + 1 ELSE 1
    <2>0. Len(p) - FlapCap + 1 \in Int
        BY <1>5a, CapIs
    <2>1. PICK k \in Int : k = Len(p) - FlapCap + 1
        BY <2>0
    <2>2. Max({1, k}) = IF 1 > k THEN 1 ELSE k
        BY MaxOfTwo
    <2> QED BY <1>5a, <1>7, <2>1, <2>2, CapIs
<1>9. PICK r : r = Ring(p)
    OBVIOUS
<1>10. r = SubSeq(p, m, Len(p))
    BY <1>7, <1>9 DEF Ring
<1>11. m \in Nat \ {0} /\ Len(p) \in Nat /\ m <= Len(p) + 1
    BY <1>5a, <1>8, CapIs
<1>12. /\ r \in Seq(Nat)
       /\ Len(r) = IF m <= Len(p) THEN (Len(p) - m) + 1 ELSE 0
       /\ \A i \in 1..((Len(p) - m) + 1) : r[i] = p[(m + i) - 1]
    <2>1. p \in Seq(Nat) /\ Len(p) <= Len(p)
        BY <1>3, <1>11
    <2>2. IsSlice(r, p, m, Len(p))
        BY <1>10, <1>11, <2>1, SliceIs, Zenon
    <2> QED BY <2>2, Zenon DEF IsSlice
<1>13. Len(r) = (Len(p) - m) + 1
    BY <1>11, <1>12
<1>14. Len(r) <= Len(fs) /\ Len(r) <= FlapCap /\ Len(r) = IF Len(p) > FlapCap THEN FlapCap ELSE Len(p)
    <2>1. CASE Len(p) > FlapCap
        <3>1. m = Len(p) - FlapCap + 1
            BY <1>8, <2>1
        <3>2. Len(r) = FlapCap
            BY <1>5a, <1>13, <3>1, CapIs
        <3> QED BY <1>5, <1>5a, <2>1, <3>2, CapIs
    <2>2. CASE ~(Len(p) > FlapCap)
        <3>1. m = 1
            BY <1>8, <2>2
        <3>2. Len(r) = Len(p)
            BY <1>5a, <1>13, <3>1
        <3> QED BY <1>5, <1>5a, <2>2, <3>2, CapIs
    <2> QED BY <2>1, <2>2
<1>15. ASSUME NEW j \in 1..Len(r) PROVE r[j] = fs[(Len(fs) - Len(r)) + j]
    <2>1. r[j] = p[(m + j) - 1]
        BY <1>12, <1>13
    <2>2. (m + j) - 1 \in 1..Len(p)
        BY <1>11, <1>13
    <2>3. (Len(fs) - Len(p)) + ((m + j) - 1) = (Len(fs) - Len(r)) + j
        BY <1>4, <1>5, <1>11, <1>13
    <2> QED BY <1>6, <2>1, <2>2, <2>3
<1>16. ASSUME NEW i \in 1..(Len(fs) - Len(r))
       PROVE i <= Len(fs) - FlapCap \/ fs[i] < clock - FlapWindow
    <2>1. CASE Len(p) > FlapCap
        BY <1>14, <2>1
    <2>2. CASE ~(Len(p) > FlapCap)
        <3>1. i \in 1..(Len(flaps) - Len(q)) /\ i \in 1..Len(flaps)
            BY <1>3, <1>4, <1>5, <1>14, <2>2
        <3>2. i <= Len(flaps) - FlapCap \/ flaps[i] < clock - FlapWindow
            BY <3>1 DEF Holds
        <3>3. fs[i] = flaps[i]
            BY <1>4, <3>1
        <3> QED BY <1>4, <1>5, <3>2, <3>3, CapIs
    <2> QED BY <2>1, <2>2
<1>17. Holds(r, fs, clock)
    BY <1>14, <1>15, <1>16 DEF Holds
<1> QED BY <1>1, <1>2, <1>9, <1>12, <1>17

LEMMA EvictHolds ==
    ASSUME NEW q \in Seq(Nat), NEW flaps \in Seq(Nat), NEW clock \in Nat, Holds(q, flaps, clock),
           NEW now \in Nat, NEW later \in Nat, clock <= later, now <= later
    PROVE  /\ Evict(q, now) \in Seq(Nat)
           /\ Holds(Evict(q, now), flaps, later)
           /\ InOrder(flaps, now) =>
                 \A j \in 1..Len(Evict(q, now)) : Evict(q, now)[j] >= now - FlapWindow
<1> DEFINE live == {i \in DOMAIN q : q[i] >= now - FlapWindow}
<1>1. PICK r : r = Evict(q, now)
    OBVIOUS
<1>2. Len(q) \in Nat /\ Len(flaps) \in Nat /\ Len(q) <= Len(flaps) /\ Len(q) <= FlapCap
    BY DEF Holds
<1>3. \A j \in 1..Len(q) : q[j] = flaps[(Len(flaps) - Len(q)) + j]
    BY DEF Holds
<1>4. ASSUME NEW i \in 1..(Len(flaps) - Len(q))
      PROVE i <= Len(flaps) - FlapCap \/ flaps[i] < later - FlapWindow
    <2>1. i <= Len(flaps) - FlapCap \/ flaps[i] < clock - FlapWindow
        BY DEF Holds
    <2>2. flaps[i] \in Nat
        BY <1>2
    <2> QED BY <2>1, <2>2, CapIs
<1>5. CASE live = {}
    <2>1. r = <<>>
        BY <1>1, <1>5, Zenon DEF Evict
    <2>2. r \in Seq(Nat) /\ Len(r) = 0
        BY <2>1
    <2>3. ASSUME NEW i \in 1..(Len(flaps) - Len(r))
          PROVE i <= Len(flaps) - FlapCap \/ flaps[i] < later - FlapWindow
        <3>1. CASE i <= Len(flaps) - Len(q)
            <4>1. i \in 1..(Len(flaps) - Len(q))
                BY <1>2, <2>2, <3>1
            <4> QED BY <1>4, <4>1
        <3>2. CASE ~(i <= Len(flaps) - Len(q))
            <4> DEFINE j == i - (Len(flaps) - Len(q))
            <4>1. j \in 1..Len(q) /\ (Len(flaps) - Len(q)) + j = i
                BY <1>2, <2>2, <3>2
            <4>2. ~(q[j] >= now - FlapWindow) /\ q[j] \in Nat
                BY <1>5, <4>1
            <4>3. q[j] = flaps[i]
                BY <1>3, <4>1
            <4> HIDE DEF j
            <4> QED BY <4>2, <4>3, CapIs
        <3> QED BY <3>1, <3>2
    <2>4. \A j \in 1..Len(r) : FALSE
        BY <2>2
    <2>5. Len(r) <= Len(flaps) /\ Len(r) <= FlapCap
        BY <1>2, <2>2, CapIs
    <2>6. Holds(r, flaps, later)
        BY <2>3, <2>4, <2>5, Zenon DEF Holds
    <2> QED BY <1>1, <2>2, <2>4, <2>6, Zenon
<1>6. CASE live # {}
    <2>1. live \in SUBSET Nat
        BY <1>2
    <2>2. PICK m : m = Min(live)
        OBVIOUS
    <2>3. m \in live /\ \A y \in live : m <= y
        <3> HIDE DEF live
        <3> QED BY <1>6, <2>1, <2>2, MinOf
    <2>4. r = SubSeq(q, m, Len(q))
        BY <1>1, <1>6, <2>2, Zenon DEF Evict
    <2>5. m \in 1..Len(q) /\ m \in Nat \ {0} /\ q[m] >= now - FlapWindow
        BY <1>2, <2>3
    <2>6. /\ r \in Seq(Nat)
          /\ Len(r) = IF m <= Len(q) THEN (Len(q) - m) + 1 ELSE 0
          /\ \A i \in 1..((Len(q) - m) + 1) : r[i] = q[(m + i) - 1]
        <3>1. Len(q) <= Len(q)
            BY <1>2
        <3>2. IsSlice(r, q, m, Len(q))
            BY <1>2, <2>4, <2>5, <3>1, SliceIs, Zenon
        <3> QED BY <3>2, Zenon DEF IsSlice
    <2>7. Len(r) = (Len(q) - m) + 1
        BY <2>5, <2>6
    <2>8. ASSUME NEW j \in 1..Len(r)
          PROVE /\ r[j] = flaps[(Len(flaps) - Len(r)) + j]
                /\ r[j] = q[(m + j) - 1] /\ (m + j) - 1 \in 1..Len(q)
        <3>1. r[j] = q[(m + j) - 1] /\ (m + j) - 1 \in 1..Len(q)
            BY <2>5, <2>6, <2>7
        <3>2. (Len(flaps) - Len(q)) + ((m + j) - 1) = (Len(flaps) - Len(r)) + j
            BY <1>2, <2>5, <2>7
        <3> QED BY <1>3, <3>1, <3>2
    <2>9. ASSUME NEW i \in 1..(Len(flaps) - Len(r))
          PROVE i <= Len(flaps) - FlapCap \/ flaps[i] < later - FlapWindow
        <3>1. CASE i <= Len(flaps) - Len(q)
            <4>1. i \in 1..(Len(flaps) - Len(q))
                BY <1>2, <3>1
            <4> QED BY <1>4, <4>1
        <3>2. CASE ~(i <= Len(flaps) - Len(q))
            <4> DEFINE j == i - (Len(flaps) - Len(q))
            <4>1. j \in 1..Len(q) /\ (Len(flaps) - Len(q)) + j = i /\ ~(m <= j)
                BY <1>2, <2>5, <2>7, <3>2
            <4>2. j \notin live /\ j \in DOMAIN q
                BY <2>3, <4>1
            <4>3. ~(q[j] >= now - FlapWindow) /\ q[j] \in Nat
                BY <4>2, <4>1
            <4>4. q[j] = flaps[i]
                BY <1>3, <4>1
            <4> HIDE DEF j
            <4> QED BY <4>3, <4>4, CapIs
        <3> QED BY <3>1, <3>2
    <2>10. Holds(r, flaps, later)
        <3>1. Len(r) <= Len(flaps) /\ Len(r) <= FlapCap
            BY <1>2, <2>5, <2>7, CapIs
        <3> QED BY <2>8, <2>9, <3>1, Zenon DEF Holds
    <2>11. ASSUME InOrder(flaps, now), NEW j \in 1..Len(r)
           PROVE r[j] >= now - FlapWindow
        <3>1. /\ q[m] = flaps[(Len(flaps) - Len(q)) + m]
              /\ (Len(flaps) - Len(q)) + m \in 1..Len(flaps)
              /\ (Len(flaps) - Len(r)) + j \in 1..Len(flaps)
              /\ (Len(flaps) - Len(q)) + m <= (Len(flaps) - Len(r)) + j
            BY <1>2, <1>3, <2>5, <2>7
        <3>2. flaps[(Len(flaps) - Len(q)) + m] <= flaps[(Len(flaps) - Len(r)) + j]
            BY <2>11, <3>1 DEF InOrder
        <3>3. r[j] >= q[m]
            BY <2>8, <3>1, <3>2
        <3>4. r[j] \in Nat /\ q[m] \in Nat
            <4>1. r \in Seq(Nat)
                BY <2>6, Zenon
            <4>2. r[j] \in Nat
                BY <4>1
            <4>3. q[m] \in Nat
                BY <2>5
            <4> QED BY <4>2, <4>3
        <3> QED BY <2>5, <3>3, <3>4, CapIs
    <2> QED BY <1>1, <2>6, <2>10, <2>11
<1> QED BY <1>5, <1>6

FlapInv ==
    tool.kind = "flap" =>
        /\ tool.state \in Seq(Nat) /\ calls.flaps \in Seq(Nat) /\ calls.clock \in Nat
        /\ Holds(tool.state, calls.flaps, calls.clock)
        /\ calls.ordered =>
              /\ InOrder(calls.flaps, calls.clock)
              /\ \A j \in 1..Len(tool.state) : tool.state[j] >= calls.clock - FlapWindow

LEMMA InOrderGrows ==
    ASSUME NEW flaps \in Seq(Nat), NEW clock \in Nat, InOrder(flaps, clock),
           NEW now \in Nat, clock <= now, NEW n \in Nat
    PROVE  InOrder(flaps \o Repeated(n, now), now)
<1>1. PICK fs : fs = flaps \o Repeated(n, now)
    OBVIOUS
<1>2. IsJoined(fs, flaps, n, now)
    BY <1>1, JoinedIs, Zenon
<1>3. /\ Len(fs) = Len(flaps) + n /\ Len(flaps) \in Nat
      /\ \A i \in 1..Len(flaps) : fs[i] = flaps[i] /\ flaps[i] \in Nat /\ flaps[i] <= clock
      /\ \A i \in (Len(flaps) + 1)..(Len(flaps) + n) : fs[i] = now
    <2>1. Len(flaps) \in Nat /\ \A i \in 1..Len(flaps) : flaps[i] \in Nat
        OBVIOUS
    <2> QED BY <1>2, <2>1, Zenon DEF IsJoined, InOrder
<1>4. ASSUME NEW i \in 1..Len(fs), NEW j \in 1..Len(fs), i <= j PROVE fs[i] <= fs[j]
    <2>1. CASE j <= Len(flaps)
        <3>1. i \in 1..Len(flaps) /\ j \in 1..Len(flaps)
            BY <1>3, <1>4, <2>1
        <3>2. flaps[i] <= flaps[j]
            BY <1>4, <3>1 DEF InOrder
        <3> QED BY <1>3, <3>1, <3>2
    <2>2. CASE ~(j <= Len(flaps))
        <3>1. j \in (Len(flaps) + 1)..(Len(flaps) + n)
            BY <1>3, <2>2
        <3>2. i \in 1..Len(flaps) \/ i \in (Len(flaps) + 1)..(Len(flaps) + n)
            BY <1>3
        <3> QED BY <1>3, <3>1, <3>2
    <2> QED BY <2>1, <2>2
<1>5. ASSUME NEW i \in 1..Len(fs) PROVE fs[i] <= now
    <2>1. i \in 1..Len(flaps) \/ i \in (Len(flaps) + 1)..(Len(flaps) + n)
        BY <1>3
    <2> QED BY <1>3, <2>1
<1>6. InOrder(fs, now)
    BY <1>4, <1>5 DEF InOrder
<1> QED BY <1>1, <1>6

(* Whatever number of flaps it is told, and if only a time.                 *)
LEMMA ToldFlaps ==
    ASSUME Shape, FlapInv, tool.kind = "flap", NEW now \in Nat, NEW n \in Nat,
           tool' = [tool EXCEPT !.state = Evict(Ring(tool.state \o Repeated(n, now)), now)],
           Told(now, Repeated(n, now))
    PROVE  FlapInv'
<1>1. PICK q : q = tool.state
    OBVIOUS
<1>2. PICK fs : fs = calls.flaps
    OBVIOUS
<1>3. PICK clock : clock = calls.clock
    OBVIOUS
<1>4. q \in Seq(Nat) /\ fs \in Seq(Nat) /\ clock \in Nat /\ Holds(q, fs, clock)
    BY <1>1, <1>2, <1>3, Zenon DEF FlapInv
<1>5. calls.ordered => InOrder(fs, clock)
    BY <1>2, <1>3, Zenon DEF FlapInv
<1>6. PICK later : later = Max({clock, now})
    OBVIOUS
<1>7. later = IF clock > now THEN clock ELSE now
    BY <1>4, <1>6, MaxOfTwo
<1>8. later \in Nat /\ clock <= later /\ now <= later
    BY <1>4, <1>7
<1>9. PICK fs2 : fs2 = fs \o Repeated(n, now)
    OBVIOUS
<1>10. fs2 \in Seq(Nat)
    <2>1. IsJoined(fs2, fs, n, now)
        BY <1>4, <1>9, JoinedIs, Zenon
    <2> QED BY <2>1, Zenon DEF IsJoined
<1>11. PICK p : p = Ring(q \o Repeated(n, now))
    OBVIOUS
<1>12. p \in Seq(Nat) /\ Holds(p, fs2, clock)
    BY <1>4, <1>9, <1>11, RingHolds, Zenon
<1>13. PICK r : r = Evict(p, now)
    OBVIOUS
<1>14. /\ r \in Seq(Nat)
       /\ Holds(r, fs2, later)
       /\ InOrder(fs2, now) => \A j \in 1..Len(r) : r[j] >= now - FlapWindow
    BY <1>4, <1>8, <1>10, <1>12, <1>13, EvictHolds, Zenon
<1>15. tool'.state = r
    BY <1>1, <1>11, <1>13 DEF Shape
<1>16. /\ calls'.flaps = fs2 /\ calls'.clock = later
       /\ calls'.ordered => calls.ordered /\ now >= clock
    BY <1>2, <1>3, <1>6, <1>9 DEF Told
<1>17. ASSUME calls'.ordered
       PROVE  /\ InOrder(fs2, later)
              /\ \A j \in 1..Len(r) : r[j] >= later - FlapWindow
    <2>1. clock <= now /\ later = now
        BY <1>4, <1>7, <1>16, <1>17
    <2>2. InOrder(fs2, now)
        BY <1>4, <1>5, <1>9, <1>16, <1>17, <2>1, InOrderGrows, Zenon
    <2> QED BY <1>14, <2>1, <2>2, Zenon
<1> QED BY <1>8, <1>10, <1>14, <1>15, <1>16, <1>17, Zenon DEF FlapInv

LEMMA NothingRepeated ==
    ASSUME NEW q \in Seq(Nat), NEW now \in Nat
    PROVE  q \o Repeated(0, now) = q
<1>1. PICK p : p = q \o Repeated(0, now)
    OBVIOUS
<1>2. 0 \in Nat
    OBVIOUS
<1>3. IsJoined(p, q, 0, now)
    BY <1>1, <1>2, JoinedIs, Zenon
<1>4. p \in Seq(Nat) /\ Len(p) = Len(q) + 0 /\ \A i \in 1..Len(q) : p[i] = q[i]
    BY <1>3, Zenon DEF IsJoined
<1>5. Len(p) = Len(q)
    BY <1>4
<1>6. p = q
    BY <1>4, <1>5
<1> QED BY <1>1, <1>6

LEMMA OneRepeated ==
    ASSUME NEW q \in Seq(Nat), NEW now \in Nat
    PROVE  Repeated(1, now) = <<now>> /\ q \o Repeated(1, now) = Append(q, now)
<1>1. Repeated(1, now) = <<now>>
    BY DEF Repeated
<1>2. PICK p : p = q \o Repeated(1, now)
    OBVIOUS
<1>3. 1 \in Nat
    OBVIOUS
<1>4. IsJoined(p, q, 1, now)
    BY <1>2, <1>3, JoinedIs, Zenon
<1>5. /\ p \in Seq(Nat) /\ Len(p) = Len(q) + 1
      /\ \A i \in 1..Len(q) : p[i] = q[i]
      /\ \A i \in (Len(q) + 1)..(Len(q) + 1) : p[i] = now
    BY <1>4, Zenon DEF IsJoined
<1>6. p = Append(q, now)
    BY <1>5
<1> QED BY <1>1, <1>2, <1>6

LEMMA RingOfFew ==
    ASSUME NEW q \in Seq(Nat), Len(q) <= FlapCap
    PROVE  Ring(q) = q
<1>1. Len(q) \in Nat /\ Len(q) - FlapCap + 1 \in Int /\ ~(1 < Len(q) - FlapCap + 1)
    BY CapIs
<1>2. PICK k \in Int : k = Len(q) - FlapCap + 1
    BY <1>1
<1>3. Max({1, k}) = 1
    BY <1>1, <1>2, MaxOfTwo
<1>4. Ring(q) = SubSeq(q, 1, Len(q))
    BY <1>2, <1>3, Zenon DEF Ring
<1> QED BY <1>4

LEMMA FlapActions ==
    ASSUME Shape, FlapInv, RegisterFlap \/ UpdateFlaps \/ CountFlaps
    PROVE  FlapInv'
<1>1. tool.kind = "flap"
    BY DEF RegisterFlap, UpdateFlaps, CountFlaps, Use
<1>2. tool.state \in Seq(Nat) /\ Len(tool.state) <= FlapCap
    BY <1>1, Zenon DEF FlapInv, Holds
<1>3. CASE RegisterFlap
    <2>1. PICK now \in FlapTimes : /\ tool' = [tool EXCEPT !.state = Flap(@, now)]
                                   /\ Told(now, <<now>>)
        BY <1>3 DEF RegisterFlap
    <2>2. now \in Nat
        BY EngineAssumption
    <2>3. Flap(tool.state, now) = Evict(Ring(tool.state \o Repeated(1, now)), now)
        BY <1>2, <2>2, OneRepeated, Zenon DEF Flap
    <2>4. Told(now, Repeated(1, now))
        BY <1>2, <2>1, <2>2, OneRepeated, Zenon
    <2>5. tool' = [tool EXCEPT !.state = Evict(Ring(tool.state \o Repeated(1, now)), now)]
        BY <2>1, <2>3
    <2>6. 1 \in Nat
        OBVIOUS
    <2> QED BY <1>1, <2>2, <2>4, <2>5, <2>6, ToldFlaps
<1>4. CASE UpdateFlaps
    <2>1. PICK now \in FlapTimes, n \in {0, 2} :
             /\ tool' = [tool EXCEPT !.state = FlapUpdate(@, n, now)]
             /\ Told(now, [i \in 1..n |-> now])
        BY <1>4 DEF UpdateFlaps
    <2>2. now \in Nat /\ n \in Nat
        BY EngineAssumption
    <2>3. FlapUpdate(tool.state, n, now) = Evict(Ring(tool.state \o Repeated(n, now)), now)
        BY Zenon DEF FlapUpdate, Repeated
    <2>4. Told(now, Repeated(n, now))
        BY <2>1, Zenon DEF Repeated
    <2>5. tool' = [tool EXCEPT !.state = Evict(Ring(tool.state \o Repeated(n, now)), now)]
        BY <2>1, <2>3
    <2> QED BY <1>1, <2>2, <2>4, <2>5, ToldFlaps
<1>5. CASE CountFlaps
    <2>1. PICK now \in FlapTimes : /\ tool' = [tool EXCEPT !.state = Evict(@, now)]
                                   /\ Told(now, <<>>)
        BY <1>5 DEF CountFlaps
    <2>2. now \in Nat
        BY EngineAssumption
    <2>3. Ring(tool.state \o Repeated(0, now)) = tool.state
        <3>1. tool.state \o Repeated(0, now) = tool.state
            BY <1>2, <2>2, NothingRepeated
        <3>2. Ring(tool.state) = tool.state
            BY <1>2, RingOfFew
        <3> QED BY <3>1, <3>2
    <2>4. Told(now, Repeated(0, now))
        <3>1. Repeated(0, now) = <<>>
            BY DEF Repeated
        <3> QED BY <2>1, <3>1
    <2>5. tool' = [tool EXCEPT !.state = Evict(Ring(tool.state \o Repeated(0, now)), now)]
        BY <2>1, <2>3
    <2>6. 0 \in Nat
        OBVIOUS
    <2> QED BY <1>1, <2>2, <2>4, <2>5, <2>6, ToldFlaps
<1> QED BY <1>3, <1>4, <1>5

LEMMA FlapCountIs == FlapInv => FlapCountHolds
<1> SUFFICES ASSUME FlapInv, tool.kind = "flap" PROVE FlapCountHolds
    BY DEF FlapCountHolds
<1>1. PICK q : q = tool.state
    OBVIOUS
<1>2. PICK fs : fs = calls.flaps
    OBVIOUS
<1>3. PICK clock : clock = calls.clock
    OBVIOUS
<1>4. /\ q \in Seq(Nat) /\ fs \in Seq(Nat) /\ clock \in Nat /\ Holds(q, fs, clock)
      /\ calls.ordered => \A j \in 1..Len(q) : q[j] >= clock - FlapWindow
    BY <1>1, <1>2, <1>3, Zenon DEF FlapInv
<1>5. Len(q) \in Nat /\ Len(fs) \in Nat
    BY <1>4
<1>6. Len(q) <= Len(fs) /\ Len(q) <= FlapCap
    BY <1>4 DEF Holds
<1> DEFINE n == Len(fs)
           kept == {i \in 1..n : i > n - FlapCap /\ fs[i] >= clock - FlapWindow}
           last == ((n - Len(q)) + 1)..n
<1>7. IsFiniteSet(last) /\ Cardinality(last) = Len(q)
    <2>1. (n - Len(q)) + 1 \in Int /\ n \in Int
        BY <1>5
    <2>2. Cardinality(last) = IF (n - Len(q)) + 1 > n THEN 0 ELSE n - ((n - Len(q)) + 1) + 1
        BY <2>1, FS_Interval
    <2>3. IsFiniteSet(last)
        BY <2>1, FS_Interval
    <2> QED BY <1>5, <2>2, <2>3
<1>8. kept \subseteq last
    <2> SUFFICES ASSUME NEW i \in kept, i \notin last PROVE FALSE
        OBVIOUS
    <2>1. i \in 1..(Len(fs) - Len(q))
        BY <1>5, <1>6
    <2>2. i <= Len(fs) - FlapCap \/ fs[i] < clock - FlapWindow
        BY <1>4, <2>1, Zenon DEF Holds
    <2>3. i \in Nat /\ fs[i] \in Nat
        BY <1>4
    <2> QED BY <1>4, <1>5, <2>2, <2>3, CapIs
<1>9. Cardinality(kept) <= Len(q)
    <2> HIDE DEF kept, last
    <2> QED BY <1>7, <1>8, FS_Subset
<1>10. ASSUME calls.ordered PROVE Cardinality(kept) = Len(q)
    <2>1. last \subseteq kept
        <3> SUFFICES ASSUME NEW i \in last PROVE i \in kept
            OBVIOUS
        <3> DEFINE j == i - (n - Len(q))
        <3>1. j \in 1..Len(q) /\ (Len(fs) - Len(q)) + j = i /\ i \in 1..n /\ i > n - FlapCap
            BY <1>5, <1>6, CapIs
        <3>2. q[j] = fs[i]
            BY <1>4, <3>1 DEF Holds
        <3>3. q[j] >= clock - FlapWindow
            BY <1>4, <1>10, <3>1
        <3> QED BY <3>1, <3>2, <3>3
    <2>2. last = kept
        BY <1>8, <2>1
    <2> HIDE DEF kept, last
    <2> QED BY <1>7, <2>2
<1> QED BY <1>1, <1>2, <1>3, <1>5, <1>9, <1>10 DEF FlapCountHolds

LEMMA CusumIs == CusumInv => CusumIsWindowed
BY Zenon DEF CusumInv, Alarming, CusumIsWindowed
-------------------------------------------------------------------------------
(* Every row of a sketch has counted at least what was sent of a key in the *)
(* key's own column.                                                        *)
Sketched(rows, hash, sent) ==
    /\ rows \in [0..(Depth - 1) -> [0..(Width - 1) -> Nat]]
    /\ \A row \in 0..(Depth - 1), key \in Flows : sent[key] <= rows[row][Column(hash, row, key)]

TalkersInv ==
    tool.kind = "talkers" =>
        /\ tool.hash \in Hashes
        /\ tool.state = [rows |-> tool.state.rows, seen |-> tool.state.seen,
                         prevTop |-> tool.state.prevTop, churn |-> tool.state.churn]
        /\ calls = [n |-> calls.n, sent |-> calls.sent, before |-> calls.before,
                    now |-> calls.now, exact |-> calls.exact]
        /\ calls.sent \in [Flows -> Nat]
        /\ Sketched(tool.state.rows, tool.hash, calls.sent)
        /\ tool.state.seen \subseteq Flows
        /\ calls.now \subseteq SUBSET Flows
        /\ calls.exact /\ calls.now # {} => tool.state.prevTop \in calls.now
        /\ calls.exact /\ calls.before # {} =>
              tool.state.churn \in {Churn(a, b) : a \in calls.now, b \in calls.before}

LEMMA ColumnIs ==
    ASSUME NEW hash \in Hashes, NEW row \in 0..(Depth - 1), NEW key \in Flows
    PROVE  Column(hash, row, key) \in 0..(Width - 1)
<1>1. hash[key][1] \in Nat /\ hash[key][2] \in Nat
    BY EngineAssumption
<1>2. row \in Nat /\ Width \in Nat /\ Width > 0
    BY FeatureAssumption
<1>3. PICK w \in Nat : w = row * hash[key][2]
    <2>1. row * hash[key][2] \in Nat
        BY <1>1, <1>2
    <2> QED BY <2>1
<1>4. PICK x \in Nat : x = hash[key][1] + w
    <2>1. hash[key][1] + w \in Nat
        BY <1>1
    <2> QED BY <2>1
<1>5. x % Width \in 0..(Width - 1)
    BY <1>2
<1> QED BY <1>3, <1>4, <1>5 DEF Column

(* What is added to a sketch is added in every row.                         *)
LEMMA SketchedGrows ==
    ASSUME NEW hash \in Hashes, NEW sent \in [Flows -> Nat], NEW rows, Sketched(rows, hash, sent),
           NEW key \in Flows, NEW n \in Nat
    PROVE  Sketched(SketchAdd(rows, hash, key, n), hash, [sent EXCEPT ![key] = @ + n])
<1> DEFINE more == SketchAdd(rows, hash, key, n)
           sent2 == [sent EXCEPT ![key] = @ + n]
<1>1. rows \in [0..(Depth - 1) -> [0..(Width - 1) -> Nat]] /\ DOMAIN rows = 0..(Depth - 1)
    BY DEF Sketched
<1>2. more = [row \in 0..(Depth - 1) |-> [rows[row] EXCEPT ![Column(hash, row, key)] = @ + n]]
    BY <1>1 DEF SketchAdd
<1> HIDE DEF more
<1>3. ASSUME NEW row \in 0..(Depth - 1)
      PROVE  /\ more[row] \in [0..(Width - 1) -> Nat]
             /\ \A k \in Flows : sent2[k] <= more[row][Column(hash, row, k)]
    <2>1. PICK r : r = rows[row]
        OBVIOUS
    <2>2. PICK c : c = Column(hash, row, key)
        OBVIOUS
    <2>3. r \in [0..(Width - 1) -> Nat] /\ c \in 0..(Width - 1)
        BY <1>1, <2>1, <2>2, ColumnIs
    <2>4. more[row] = [r EXCEPT ![c] = @ + n]
        BY <1>2, <2>1, <2>2
    <2>5. more[row] \in [0..(Width - 1) -> Nat]
        BY <2>3, <2>4
    <2>6. ASSUME NEW k \in Flows PROVE sent2[k] <= more[row][Column(hash, row, k)]
        <3>1. PICK d : d = Column(hash, row, k)
            OBVIOUS
        <3>2. d \in 0..(Width - 1) /\ sent[k] <= r[d]
            BY <2>1, <3>1, ColumnIs DEF Sketched
        <3>3. sent[k] \in Nat /\ r[d] \in Nat
            BY <2>3, <3>2
        <3>4. k = key => d = c
            BY <2>2, <3>1
        <3>5. sent2[k] = IF k = key THEN sent[k] + n ELSE sent[k]
            OBVIOUS
        <3>6. more[row][d] = IF d = c THEN r[d] + n ELSE r[d]
            BY <2>3, <2>4, <3>2
        <3> HIDE DEF sent2
        <3>7. sent2[k] <= more[row][d]
            BY <3>2, <3>3, <3>4, <3>5, <3>6
        <3> QED BY <3>1, <3>7
    <2> QED BY <2>5, <2>6
<1>4. more \in [0..(Depth - 1) -> [0..(Width - 1) -> Nat]]
    BY <1>2, <1>3
<1>5. Sketched(more, hash, sent2)
    BY <1>3, <1>4 DEF Sketched
<1> QED BY <1>5 DEF more

LEMMA NothingSketched ==
    ASSUME NEW hash \in Hashes
    PROVE  Sketched(EmptySketch, hash, [key \in Flows |-> 0])
<1>1. EmptySketch \in [0..(Depth - 1) -> [0..(Width - 1) -> Nat]]
    BY DEF EmptySketch
<1>2. ASSUME NEW row \in 0..(Depth - 1), NEW key \in Flows
      PROVE  EmptySketch[row][Column(hash, row, key)] = 0
    <2>1. PICK c : c = Column(hash, row, key)
        OBVIOUS
    <2>2. c \in 0..(Width - 1)
        BY <2>1, ColumnIs
    <2>3. EmptySketch[row][c] = 0
        BY <2>2 DEF EmptySketch
    <2> QED BY <2>1, <2>3
<1> QED BY <1>1, <1>2 DEF Sketched

LEMMA SendTalkers ==
    ASSUME Shape, TalkersInv, Send
    PROVE  TalkersInv'
<1>1. tool.kind = "talkers"
    BY DEF Send, Use
<1>2. PICK key \in Flows, weight \in {1, 2} :
         /\ tool' = [tool EXCEPT !.state = AddFlow(@, tool.hash, key, weight)]
         /\ calls' = [calls EXCEPT !.n = @ + 1, !.sent[key] = @ + weight]
    BY DEF Send
<1>3. /\ tool.hash \in Hashes
      /\ tool.state = [rows |-> tool.state.rows, seen |-> tool.state.seen,
                       prevTop |-> tool.state.prevTop, churn |-> tool.state.churn]
      /\ calls = [n |-> calls.n, sent |-> calls.sent, before |-> calls.before,
                  now |-> calls.now, exact |-> calls.exact]
      /\ calls.sent \in [Flows -> Nat]
      /\ Sketched(tool.state.rows, tool.hash, calls.sent)
      /\ tool.state.seen \subseteq Flows
      /\ calls.now \subseteq SUBSET Flows
    BY <1>1 DEF TalkersInv
<1>4. PICK seen : seen = IF Cardinality(tool.state.seen) < SeenCap THEN tool.state.seen \cup {key} ELSE tool.state.seen
    OBVIOUS
<1>5. PICK rows : rows = SketchAdd(tool.state.rows, tool.hash, key, weight)
    OBVIOUS
<1>6. PICK sent : sent = [calls.sent EXCEPT ![key] = @ + weight]
    OBVIOUS
<1>7. AddFlow(tool.state, tool.hash, key, weight) =
         [rows |-> rows, seen |-> seen, prevTop |-> tool.state.prevTop, churn |-> tool.state.churn]
    <2>1. PICK S : S = tool.state
        OBVIOUS
    <2>2. S = [rows |-> S.rows, seen |-> S.seen, prevTop |-> S.prevTop, churn |-> S.churn]
        BY <1>3, <2>1
    <2>3. AddFlow(S, tool.hash, key, weight) = [S EXCEPT !.rows = rows, !.seen = seen]
        BY <1>4, <1>5, <2>1, Zenon DEF AddFlow
    <2> QED BY <2>1, <2>2, <2>3
<1>8. tool' = [kind |-> "talkers", hash |-> tool.hash,
               state |-> [rows |-> rows, seen |-> seen, prevTop |-> tool.state.prevTop, churn |-> tool.state.churn]]
    BY <1>1, <1>2, <1>7 DEF Shape
<1>9. calls' = [n |-> calls.n + 1, sent |-> sent, before |-> calls.before,
                now |-> calls.now, exact |-> calls.exact]
    BY <1>2, <1>3, <1>6
<1>10. sent \in [Flows -> Nat] /\ seen \subseteq Flows
    BY <1>3, <1>4, <1>6
<1>11. Sketched(rows, tool.hash, sent)
    <2>1. weight \in Nat
        OBVIOUS
    <2> QED BY <1>3, <1>5, <1>6, <2>1, SketchedGrows, Zenon
<1>12. /\ tool'.hash = tool.hash /\ tool'.state.rows = rows /\ tool'.state.seen = seen
       /\ tool'.state.prevTop = tool.state.prevTop /\ tool'.state.churn = tool.state.churn
       /\ tool'.state = [rows |-> tool'.state.rows, seen |-> tool'.state.seen,
                         prevTop |-> tool'.state.prevTop, churn |-> tool'.state.churn]
    BY <1>8
<1>13. /\ calls'.sent = sent /\ calls'.before = calls.before /\ calls'.now = calls.now
       /\ calls'.exact = calls.exact
       /\ calls' = [n |-> calls'.n, sent |-> calls'.sent, before |-> calls'.before,
                    now |-> calls'.now, exact |-> calls'.exact]
    BY <1>9
<1>14. /\ calls.exact /\ calls.now # {} => tool.state.prevTop \in calls.now
       /\ calls.exact /\ calls.before # {} =>
             tool.state.churn \in {Churn(a, b) : a \in calls.now, b \in calls.before}
    BY <1>1 DEF TalkersInv
<1> QED BY <1>3, <1>10, <1>11, <1>12, <1>13, <1>14 DEF TalkersInv

LEMMA SnapshotTalkers ==
    ASSUME Shape, TalkersInv, Snapshot
    PROVE  TalkersInv'
<1>1. tool.kind = "talkers"
    BY DEF Snapshot, Use
<1> DEFINE S == tool.state
           Guessed == [key \in S.seen |-> Estimated(key)]
           Real == {k \in Flows : Sent(k) > 0}
           Truth == [key \in Real |-> Sent(key)]
           exact == /\ calls.exact
                    /\ \A key \in Flows : Estimated(key) = Sent(key)
                    /\ S.seen = Real
<1>2. PICK top \in Tops(Guessed) : tool' = [tool EXCEPT !.state = CloseWindow(@, top)]
    BY Zenon DEF Snapshot
<1>3. calls' = [n |-> calls.n + 1, sent |-> [key \in Flows |-> 0], before |-> calls.now,
                now |-> Tops(Truth), exact |-> exact]
    BY Zenon DEF Snapshot
<1>4. /\ tool.hash \in Hashes
      /\ S.seen \subseteq Flows
      /\ calls.now \subseteq SUBSET Flows
      /\ calls.exact /\ calls.now # {} => S.prevTop \in calls.now
    BY <1>1 DEF TalkersInv
<1>5. Tops(Truth) \subseteq SUBSET Flows
    BY Zenon DEF Tops
<1>6. exact => top \in Tops(Truth)
    <2>1. exact => Guessed = Truth
        BY Zenon
    <2> HIDE DEF Guessed, Truth, exact
    <2> QED BY <1>2, <2>1
<1>7. PICK churn : churn = IF S.prevTop = None THEN S.churn ELSE Churn(top, S.prevTop)
    OBVIOUS
<1> HIDE DEF Guessed, Truth
<1>8. tool' = [kind |-> "talkers", hash |-> tool.hash,
               state |-> [rows |-> EmptySketch, seen |-> {}, prevTop |-> top, churn |-> churn]]
    BY <1>1, <1>2, <1>7 DEF Shape, CloseWindow
<1>9. exact /\ calls.now # {} => churn \in {Churn(a, b) : a \in Tops(Truth), b \in calls.now}
    <2> SUFFICES ASSUME exact, calls.now # {}
                 PROVE churn \in {Churn(a, b) : a \in Tops(Truth), b \in calls.now}
        OBVIOUS
    <2>1. S.prevTop \in calls.now
        BY <1>4
    <2>2. S.prevTop # None
        BY <1>4, <2>1, EngineAssumption
    <2> QED BY <1>6, <1>7, <2>1, <2>2
<1> HIDE DEF exact
<1>10. /\ tool'.hash = tool.hash /\ tool'.state.rows = EmptySketch /\ tool'.state.seen = {}
       /\ tool'.state.prevTop = top /\ tool'.state.churn = churn
       /\ tool'.state = [rows |-> tool'.state.rows, seen |-> tool'.state.seen,
                         prevTop |-> tool'.state.prevTop, churn |-> tool'.state.churn]
    BY <1>8
<1>11. /\ calls'.sent = [key \in Flows |-> 0] /\ calls'.before = calls.now /\ calls'.now = Tops(Truth)
       /\ calls'.exact = exact
       /\ calls' = [n |-> calls'.n, sent |-> calls'.sent, before |-> calls'.before,
                    now |-> calls'.now, exact |-> calls'.exact]
    BY <1>3
<1>12. calls'.sent \in [Flows -> Nat]
    BY <1>11
<1>13. Sketched(tool'.state.rows, tool'.hash, calls'.sent)
    BY <1>4, <1>10, <1>11, NothingSketched
<1>14. tool'.state.seen \subseteq Flows
    BY <1>10
<1>15. calls'.exact /\ calls'.before # {} =>
          tool'.state.churn \in {Churn(a, b) : a \in calls'.now, b \in calls'.before}
    BY <1>9, <1>10, <1>11
<1>16. calls'.exact /\ calls'.now # {} => tool'.state.prevTop \in calls'.now
    BY <1>6, <1>10, <1>11
<1>17. tool'.hash \in Hashes /\ calls'.now \subseteq SUBSET Flows
    BY <1>4, <1>5, <1>10, <1>11
<1> QED BY <1>10, <1>11, <1>12, <1>13, <1>14, <1>15, <1>16, <1>17 DEF TalkersInv

LEMMA TalkersAre == TalkersInv => TalkersAreTrue
<1> SUFFICES ASSUME TalkersInv, tool.kind = "talkers" PROVE TalkersAreTrue
    BY DEF TalkersAreTrue
<1>1. /\ tool.hash \in Hashes /\ calls.sent \in [Flows -> Nat]
      /\ Sketched(tool.state.rows, tool.hash, calls.sent)
      /\ calls.exact /\ calls.before # {} =>
            tool.state.churn \in {Churn(a, b) : a \in calls.now, b \in calls.before}
    BY DEF TalkersInv
<1>2. ASSUME NEW key \in Flows PROVE Estimated(key) >= Sent(key)
    <2>1. PICK rows : rows = tool.state.rows
        OBVIOUS
    <2>2. PICK hash : hash = tool.hash
        OBVIOUS
    <2>3. /\ rows \in [0..(Depth - 1) -> [0..(Width - 1) -> Nat]] /\ DOMAIN rows = 0..(Depth - 1)
          /\ \A row \in 0..(Depth - 1) : calls.sent[key] <= rows[row][Column(hash, row, key)]
        BY <1>1, <2>1, <2>2 DEF Sketched
    <2> DEFINE cells == {rows[row][Column(hash, row, key)] : row \in DOMAIN rows}
    <2>4. cells \subseteq Nat
        <3>1. \A row \in 0..(Depth - 1) : Column(hash, row, key) \in 0..(Width - 1)
            BY <1>1, <2>2, ColumnIs
        <3>2. ASSUME NEW row \in 0..(Depth - 1) PROVE rows[row][Column(hash, row, key)] \in Nat
            <4>1. PICK c : c = Column(hash, row, key)
                OBVIOUS
            <4>2. c \in 0..(Width - 1) /\ rows[row] \in [0..(Width - 1) -> Nat]
                BY <2>3, <3>1, <4>1
            <4>3. rows[row][c] \in Nat
                BY <4>2
            <4> QED BY <4>1, <4>3
        <3> QED BY <2>3, <3>2, Zenon
    <2>5. cells # {}
        <3>1. 0 \in 0..(Depth - 1)
            BY FeatureAssumption
        <3> QED BY <2>3, <3>1
    <2>6. \A y \in cells : calls.sent[key] <= y
        BY <2>3
    <2>7. Min(cells) \in cells
        <3> HIDE DEF cells
        <3> QED BY <2>4, <2>5, MinOf
    <2>8. Estimated(key) = Min(cells)
        BY <2>1, <2>2, Zenon DEF Estimated, Estimate
    <2>9. Sent(key) = calls.sent[key] /\ calls.sent[key] \in Nat
        BY <1>1 DEF Sent
    <2>10. Min(cells) \in Nat
        BY <2>4, <2>7
    <2> HIDE DEF cells
    <2>11. calls.sent[key] <= Min(cells)
        BY <2>6, <2>7
    <2> QED BY <2>8, <2>9, <2>10, <2>11
<1> QED BY <1>1, <1>2 DEF TalkersAreTrue
-------------------------------------------------------------------------------
(* A steady climb, and what is said of the time that is left to it.         *)
Ramp(s) ==
    Len(s) >= 2 /\ s[2] - s[1] > 0 /\ \A i \in 2..Len(s) : s[i] - s[i - 1] = s[2] - s[1]

IsLate(eta, last, step, threshold) ==
    LET away == (threshold - last) * EtaUnit
    IN /\ (eta + 1) * step > Min({away, MaxEta * step})
       /\ eta * step <= Max({0, away + (FadeDen - 1) * step * EtaUnit})

(* The computer of a stream of samples: while they climb, its slope is      *)
(* theirs, and its level lags behind the last of them by 1/fading_factor - 1 *)
(* steps at most.                                                           *)
Climbing(c, s) ==
    /\ c.slope.value = s[Len(s)] /\ c.slope.ts = None /\ c.level \in Int
    /\ Len(s) = 1 => c.slope.slope = None /\ c.level = s[1]
    /\ Ramp(s) => /\ c.slope.slope = s[2] - s[1]
                  /\ s[Len(s)] - c.level \in 0..((FadeDen - 1) * (s[2] - s[1]))

LEMMA ConstantsAre ==
    /\ FadeDen \in Nat \ {0} /\ EtaUnit \in Nat \ {0} /\ MaxEta \in Nat \ {0}
    /\ None \notin Int
BY FeatureAssumption, EngineAssumption

(* The lag of a fading mean that was at most D - 1 steps behind a climb     *)
(* stays there.                                                             *)
LEMMA LagStays ==
    ASSUME NEW D \in Nat \ {0}, NEW step \in Nat \ {0}, NEW lag \in 0..((D - 1) * step)
    PROVE  /\ (lag + step) \div D \in Int
           /\ (lag + step) - (lag + step) \div D \in 0..((D - 1) * step)
<1>1. PICK a \in Nat : a = lag + step
    OBVIOUS
<1>2. PICK q \in Int : q = a \div D
    <2>1. a \div D \in Int
        OBVIOUS
    <2> QED BY <2>1
<1>3. PICK p \in Int : p = D * q
    <2>1. D * q \in Int
        OBVIOUS
    <2> QED BY <2>1
<1>4. p <= a /\ a < p + D
    BY <1>2, <1>3
<1>5. q >= 0
    BY <1>2
<1>6. PICK m \in Int : m = D * step
    <2>1. D * step \in Int
        OBVIOUS
    <2> QED BY <2>1
<1>7. (D - 1) * step = m - step
    BY <1>6
<1>8. a <= m
    BY <1>1, <1>7
<1>9. p >= q
    <2>1. (D - 1) * q >= 0
        BY <1>5
    <2>2. (D - 1) * q = D * q - q
        OBVIOUS
    <2> QED BY <1>3, <2>1, <2>2
<1>10. a - q <= m - step
    <2>1. CASE q >= step
        BY <1>8, <2>1
    <2>2. CASE q < step
        <3>1. (D - 1) * (step - 1 - q) >= 0
            <4>1. D - 1 >= 0 /\ step - 1 - q >= 0
                BY <1>5, <2>2
            <4> QED BY <4>1
        <3>2. (D - 1) * (step - 1 - q) = D * step - D - D * q - step + 1 + q
            OBVIOUS
        <3>3. m - D - p - step + 1 + q >= 0
            BY <1>3, <1>6, <3>1, <3>2
        <3> QED BY <1>4, <3>3
    <2> QED BY <2>1, <2>2
<1>11. 0 <= a - q
    BY <1>4, <1>9
<1>12. a - q \in 0..((D - 1) * step)
    BY <1>7, <1>10, <1>11
<1> QED BY <1>1, <1>2, <1>12

(* An extrapolation from a level that lags.                                 *)
LEMMA LagMakesLate ==
    ASSUME NEW last \in Int, NEW level \in Int, NEW step \in Nat \ {0}, NEW threshold \in Int,
           last - level \in 0..((FadeDen - 1) * step), level < threshold
    PROVE  IsLate(Min({((threshold - level) * EtaUnit) \div step, MaxEta}), last, step, threshold)
<1>1. PICK D \in Nat \ {0}, U \in Nat \ {0}, M \in Nat \ {0} : D = FadeDen /\ U = EtaUnit /\ M = MaxEta
    BY ConstantsAre
<1>2. PICK A \in Int : A = (threshold - level) * U
    <2>1. (threshold - level) * U \in Int
        OBVIOUS
    <2> QED BY <2>1
<1>3. PICK away \in Int : away = (threshold - last) * U
    <2>1. (threshold - last) * U \in Int
        OBVIOUS
    <2> QED BY <2>1
<1>4. PICK most \in Int : most = (D - 1) * step
    <2>1. (D - 1) * step \in Int
        OBVIOUS
    <2> QED BY <2>1
<1>5. PICK lag \in Int : lag = last - level
    OBVIOUS
<1>6. lag >= 0 /\ lag <= most
    BY <1>1, <1>4, <1>5
<1>7. A = away + lag * U
    <2>1. (threshold - level) * U = (threshold - last) * U + (last - level) * U
        OBVIOUS
    <2> QED BY <1>2, <1>3, <1>5, <2>1
<1>8. 0 <= lag * U /\ lag * U <= most * U /\ lag * U \in Int /\ most * U \in Int
    <2>1. lag \in Nat /\ most \in Nat /\ U \in Nat
        BY <1>6
    <2>2. lag * U <= most * U /\ lag * U \in Nat /\ most * U \in Nat
        BY <1>6, <2>1, ProductGrows
    <2> QED BY <2>2
<1>9. away <= A /\ A <= away + most * U
    BY <1>7, <1>8
<1>10. PICK q \in Int : q = A \div step
    <2>1. A \div step \in Int
        OBVIOUS
    <2> QED BY <2>1
<1>11. PICK w \in Int : w = q * step
    <2>1. q * step \in Int
        OBVIOUS
    <2> QED BY <2>1
<1>12. w <= A /\ A < w + step
    <2>1. step * q <= A /\ A < step * q + step
        BY <1>10
    <2>2. step * q = q * step
        OBVIOUS
    <2> QED BY <1>11, <2>1, <2>2
<1>13. PICK eta \in Int : eta = Min({q, M})
    <2>1. Min({q, M}) = IF q < M THEN q ELSE M
        BY MinOfTwo
    <2> QED BY <2>1
<1>14. eta = IF q < M THEN q ELSE M
    BY <1>13, MinOfTwo
<1>15. PICK v \in Int : v = M * step
    <2>1. M * step \in Int
        OBVIOUS
    <2> QED BY <2>1
<1>16. PICK low \in Int : low = Min({away, v})
    <2>1. Min({away, v}) = IF away < v THEN away ELSE v
        BY MinOfTwo
    <2> QED BY <2>1
<1>17. low = IF away < v THEN away ELSE v
    BY <1>16, MinOfTwo
<1>18. PICK top \in Int : top = away + most * U
    <2>1. away + most * U \in Int
        BY <1>8
    <2> QED BY <2>1
<1>19. PICK high \in Int : high = Max({0, top})
    <2>1. Max({0, top}) = IF 0 > top THEN 0 ELSE top
        BY MaxOfTwo
    <2> QED BY <2>1
<1>20. high >= top
    <2>1. high = IF 0 > top THEN 0 ELSE top
        BY <1>19, MaxOfTwo
    <2> QED BY <2>1
<1>21. PICK u \in Int : u = eta * step
    <2>1. eta * step \in Int
        OBVIOUS
    <2> QED BY <2>1
<1>22. u = IF q < M THEN w ELSE v
    BY <1>11, <1>14, <1>15, <1>21
<1>23. ~(q < M) => v <= w
    <2> SUFFICES ASSUME ~(q < M) PROVE v <= w
        OBVIOUS
    <2>1. M \in Nat /\ q \in Nat /\ step \in Nat /\ M <= q /\ step <= step
        OBVIOUS
    <2>2. M * step <= q * step
        BY <2>1, ProductGrows
    <2> QED BY <1>11, <1>15, <2>2
<1>24. u + step > low
    BY <1>9, <1>12, <1>17, <1>22
<1>25. u <= high
    BY <1>9, <1>12, <1>18, <1>20, <1>22, <1>23
<1>26. (eta + 1) * step = u + step
    BY <1>21
<1>27. /\ (eta + 1) * step > Min({(threshold - last) * U, M * step})
       /\ eta * step <= Max({0, (threshold - last) * U + (D - 1) * step * U})
    BY <1>3, <1>4, <1>15, <1>16, <1>18, <1>19, <1>21, <1>24, <1>25, <1>26
<1>28. IsLate(eta, last, step, threshold)
    BY <1>1, <1>27, Zenon DEF IsLate
<1> QED BY <1>1, <1>2, <1>10, <1>13, <1>28, Zenon

(* A threshold that the level, and so the last sample, has reached.         *)
LEMMA NoneLeft ==
    ASSUME NEW last \in Int, NEW level \in Int, NEW step \in Nat \ {0}, NEW threshold \in Int,
           last >= level, level >= threshold
    PROVE  IsLate(0, last, step, threshold)
<1>1. PICK U \in Nat \ {0} : U = EtaUnit
    BY ConstantsAre
<1>2. PICK away \in Int : away = (threshold - last) * U
    <2>1. (threshold - last) * U \in Int
        OBVIOUS
    <2> QED BY <2>1
<1>3. away <= 0
    <2>1. (last - threshold) * U >= 0
        OBVIOUS
    <2>2. (last - threshold) * U = -((threshold - last) * U)
        OBVIOUS
    <2> QED BY <1>2, <2>1, <2>2
<1>4. PICK v \in Int : v = MaxEta * step
    <2>1. MaxEta * step \in Int
        BY ConstantsAre
    <2> QED BY <2>1
<1>5. Min({away, v}) = IF away < v THEN away ELSE v
    BY MinOfTwo
<1>6. PICK top \in Int : top = away + (FadeDen - 1) * step * U
    <2>1. away + (FadeDen - 1) * step * U \in Int
        BY ConstantsAre
    <2> QED BY <2>1
<1>7. Max({0, top}) = IF 0 > top THEN 0 ELSE top
    BY MaxOfTwo
<1>8. (0 + 1) * step > Min({away, v}) /\ 0 * step <= Max({0, top})
    <2>1. (0 + 1) * step = step /\ 0 * step = 0
        OBVIOUS
    <2> QED BY <1>3, <1>5, <1>7, <2>1
<1> QED BY <1>1, <1>2, <1>4, <1>6, <1>8, Zenon DEF IsLate

LEMMA ClimbStarts ==
    ASSUME NEW x \in Int, NEW threshold \in Int
    PROVE  Climbing(EtaUpdate(Fresh["eta"], x, None, threshold), <<x>>)
<1> DEFINE c == Fresh["eta"]
<1>1. c.slope = NoSlope /\ c.level = None
    BY DEF Fresh
<1>2. PICK d : d = EtaUpdate(c, x, None, threshold)
    OBVIOUS
<1>3. d.slope = SlopeUpdate(NoSlope, x, None) /\ d.level = Fade(None, x)
    BY <1>1, <1>2 DEF EtaUpdate
<1>4. d.slope.value = x /\ d.slope.ts = None /\ d.slope.slope = None
    BY <1>3 DEF SlopeUpdate, NoSlope
<1>5. d.level = x
    BY <1>3 DEF Fade
<1>6. Len(<<x>>) = 1 /\ <<x>>[1] = x /\ ~Ramp(<<x>>)
    BY DEF Ramp
<1>7. Climbing(d, <<x>>)
    BY <1>4, <1>5, <1>6 DEF Climbing
<1> QED BY <1>2, <1>7

LEMMA ClimbGrows ==
    ASSUME NEW s \in Seq(Int), s # <<>>, NEW c, Climbing(c, s), NEW x \in Int, NEW threshold \in Int
    PROVE  LET d == EtaUpdate(c, x, None, threshold)
               t == Append(s, x)
           IN /\ Climbing(d, t)
              /\ Ramp(t) => d.eta # None /\ IsLate(d.eta, t[Len(t)], t[2] - t[1], threshold)
<1>1. PICK d : d = EtaUpdate(c, x, None, threshold)
    OBVIOUS
<1>2. PICK t : t = Append(s, x)
    OBVIOUS
<1>3. PICK n \in Nat \ {0} : n = Len(s)
    <2>1. Len(s) \in Nat \ {0}
        OBVIOUS
    <2> QED BY <2>1
<1>4. Len(t) = n + 1 /\ t[n + 1] = x /\ \A i \in 1..n : t[i] = s[i] /\ s[i] \in Int
    BY <1>2, <1>3
<1>5. c.slope.value = s[n] /\ c.slope.ts = None /\ c.level \in Int /\ s[n] \in Int
    BY <1>3, <1>4 DEF Climbing
<1>6. PICK last \in Int : last = s[n]
    BY <1>5
<1>7. c.slope.value # None /\ c.level # None
    BY <1>5, ConstantsAre
<1>8. PICK level \in Int : level = c.level
    BY <1>5
<1>9. PICK level2 \in Int : level2 = level + (x - level) \div FadeDen
    <2>1. level + (x - level) \div FadeDen \in Int
        BY ConstantsAre
    <2> QED BY <2>1
<1>10. d.level = level2
    <2>1. d.level = Fade(c.level, x)
        BY <1>1 DEF EtaUpdate
    <2> QED BY <1>7, <1>8, <1>9, <2>1 DEF Fade
<1>11. d.slope = SlopeUpdate(c.slope, x, None)
    BY <1>1 DEF EtaUpdate
<1>12. (x - c.slope.value) \div Elapsed(c.slope.ts, None) = x - last
    <2>1. Elapsed(c.slope.ts, None) = 1
        BY DEF Elapsed
    <2>2. (x - last) \div 1 = x - last
        OBVIOUS
    <2> QED BY <1>5, <1>6, <2>1, <2>2
<1>13. d.slope.value = x /\ d.slope.ts = None /\ d.slope.slope = Fade(c.slope.slope, x - last)
    BY <1>7, <1>11, <1>12 DEF SlopeUpdate
<1>14. ASSUME Ramp(t)
       PROVE  \E step \in Nat \ {0} : /\ t[2] - t[1] = step /\ d.slope.slope = step
                                      /\ x - level2 \in 0..((FadeDen - 1) * step)
    <2>1. PICK step \in Nat \ {0} : step = t[2] - t[1]
        <3>1. 1 \in 1..n /\ (2 \in 1..n \/ 2 = n + 1)
            OBVIOUS
        <3>2. t[2] - t[1] \in Int
            BY <1>4, <3>1
        <3> QED BY <1>14, <3>2 DEF Ramp
    <2>2. n + 1 \in 2..Len(t) /\ (n + 1) - 1 = n /\ n \in 1..n
        BY <1>4
    <2>3. x - last = step
        <3>1. t[n + 1] - t[n] = step
            BY <1>14, <2>1, <2>2 DEF Ramp
        <3> QED BY <1>4, <1>6, <2>2, <3>1
    <2>4. /\ d.slope.slope = step
          /\ last - level \in 0..((FadeDen - 1) * step)
        <3>1. CASE n = 1
            <4>1. c.slope.slope = None /\ level = last
                BY <1>3, <1>6, <1>8, <3>1 DEF Climbing
            <4>2. d.slope.slope = step
                BY <1>13, <2>3, <4>1 DEF Fade
            <4>3. (FadeDen - 1) * step >= 0
                BY ConstantsAre
            <4> QED BY <4>1, <4>2, <4>3, ConstantsAre
        <3>2. CASE n # 1
            <4>1. 1 \in 1..n /\ 2 \in 1..n
                BY <3>2
            <4>2. s[2] - s[1] = step
                BY <1>4, <2>1, <4>1
            <4>3. ASSUME NEW i \in 2..n PROVE s[i] - s[i - 1] = step
                <5>1. i \in 2..Len(t) /\ i \in 1..n /\ i - 1 \in 1..n
                    BY <1>4
                <5>2. t[i] - t[i - 1] = step
                    BY <1>14, <2>1, <5>1 DEF Ramp
                <5> QED BY <1>4, <5>1, <5>2
            <4>4. Ramp(s)
                <5>1. Len(s) >= 2 /\ step > 0
                    BY <1>3, <3>2
                <5> QED BY <1>3, <4>2, <4>3, <5>1 DEF Ramp
            <4>5. c.slope.slope = step /\ last - level \in 0..((FadeDen - 1) * step)
                BY <1>3, <1>6, <1>8, <4>2, <4>4 DEF Climbing
            <4>6. d.slope.slope = step + (step - step) \div FadeDen
                <5>1. step # None
                    BY ConstantsAre
                <5> QED BY <1>13, <2>3, <4>5, <5>1 DEF Fade
            <4>7. step + (step - step) \div FadeDen = step
                BY ConstantsAre
            <4> QED BY <4>5, <4>6, <4>7
        <3> QED BY <3>1, <3>2
    <2>5. x - level2 \in 0..((FadeDen - 1) * step)
        <3>1. PICK lag \in Int : lag = last - level
            OBVIOUS
        <3>2. x - level = lag + step
            BY <2>3, <3>1
        <3>3. (lag + step) - (lag + step) \div FadeDen \in 0..((FadeDen - 1) * step)
            BY <2>4, <3>1, ConstantsAre, LagStays
        <3>4. PICK q \in Int : q = (lag + step) \div FadeDen
            <4>1. (lag + step) \div FadeDen \in Int
                BY ConstantsAre
            <4> QED BY <4>1
        <3>5. x - level2 = (lag + step) - q
            BY <1>9, <3>2, <3>4
        <3> QED BY <3>3, <3>4, <3>5
    <2> QED BY <2>1, <2>4, <2>5
<1>15. Climbing(d, t)
    <2>1. Len(t) # 1
        BY <1>4
    <2>2. t[Len(t)] = x
        BY <1>4
    <2>3. Ramp(t) => d.slope.slope = t[2] - t[1] /\ t[Len(t)] - d.level \in 0..((FadeDen - 1) * (t[2] - t[1]))
        BY <1>10, <1>14, <2>2
    <2> QED BY <1>10, <1>13, <2>1, <2>2, <2>3 DEF Climbing
<1>16. ASSUME Ramp(t)
       PROVE  d.eta # None /\ IsLate(d.eta, t[Len(t)], t[2] - t[1], threshold)
    <2>1. PICK step \in Nat \ {0} : /\ t[2] - t[1] = step /\ d.slope.slope = step
                                    /\ x - level2 \in 0..((FadeDen - 1) * step)
        BY <1>14, <1>16
    <2>2. step \notin {None, 0} /\ step > 0
        BY ConstantsAre
    <2>3. t[Len(t)] = x
        BY <1>4
    <2>4. d.eta = IF level2 >= threshold THEN 0 ELSE Min({((threshold - level2) * EtaUnit) \div step, MaxEta})
        <3> DEFINE slope == SlopeUpdate(c.slope, x, None)
                   lev == Fade(c.level, x)
        <3>1. d.eta = IF slope.slope \in {None, 0} THEN None
                      ELSE IF lev >= threshold THEN 0
                      ELSE IF slope.slope > 0 THEN Min({((threshold - lev) * EtaUnit) \div slope.slope, MaxEta})
                      ELSE None
            BY <1>1 DEF EtaUpdate
        <3>2. slope.slope = step
            BY <1>11, <2>1
        <3>3. lev = level2
            BY <1>1, <1>10 DEF EtaUpdate
        <3> HIDE DEF slope, lev
        <3> QED BY <2>2, <3>1, <3>2, <3>3, Zenon
    <2>5. CASE level2 >= threshold
        <3>1. d.eta = 0 /\ 0 # None
            BY <2>4, <2>5, ConstantsAre
        <3>2. x >= level2
            BY <2>1
        <3>3. IsLate(0, x, step, threshold)
            BY <2>5, <3>2, NoneLeft
        <3> QED BY <2>1, <2>3, <3>1, <3>3
    <2>6. CASE ~(level2 >= threshold)
        <3>1. PICK eta : eta = Min({((threshold - level2) * EtaUnit) \div step, MaxEta})
            OBVIOUS
        <3>2. IsLate(eta, x, step, threshold)
            <4>1. level2 < threshold
                BY <2>6
            <4> QED BY <2>1, <3>1, <4>1, LagMakesLate
        <3>3. eta # None
            <4>1. ((threshold - level2) * EtaUnit) \div step \in Int
                <5>1. (threshold - level2) * EtaUnit \in Int
                    BY ConstantsAre
                <5> QED BY <5>1
            <4>2. PICK q \in Int : q = ((threshold - level2) * EtaUnit) \div step
                BY <4>1
            <4>3. eta \in Int
                <5>1. MaxEta \in Int
                    BY ConstantsAre
                <5>2. Min({q, MaxEta}) = IF q < MaxEta THEN q ELSE MaxEta
                    BY <5>1, MinOfTwo
                <5> QED BY <3>1, <4>2, <5>1, <5>2
            <4> QED BY <4>3, ConstantsAre
        <3>4. d.eta = eta
            BY <2>4, <2>6, <3>1
        <3> QED BY <2>1, <2>3, <3>2, <3>3, <3>4
    <2> QED BY <2>5, <2>6
<1> QED BY <1>1, <1>2, <1>15, <1>16
-------------------------------------------------------------------------------
(* What an entity keeps of one of its streams.                              *)
EtaKey(m)     == <<m, "eta">>
EtaReading(m) == <<m, "eta", "value">>
EtaMetrics    == DOMAIN Thresholds \cap Metrics

EtaStream(computers, latest, m, s) ==
    /\ EtaKey(m) \in DOMAIN computers <=> s # <<>>
    /\ s # <<>> => Climbing(computers[EtaKey(m)], s)
    /\ Ramp(s) => /\ EtaReading(m) \in DOMAIN latest
                  /\ IsLate(latest[EtaReading(m)], s[Len(s)], s[2] - s[1], Thresholds[m])

EtaInv ==
    /\ DOMAIN states \subseteq Entities
    /\ history \in [Entities -> [Metrics -> Seq(Int)]]
    /\ \A e \in Entities, m \in EtaMetrics :
          EtaStream(StateOf(e).computers, StateOf(e).latest, m, history[e][m])

LEMMA MetricsAre ==
    ASSUME NEW m \in EtaMetrics
    PROVE  m \in Metrics /\ m \in DOMAIN Registry /\ "eta" \in Registry[m] /\ Thresholds[m] \in Int
BY EngineAssumption DEF EtaMetrics

LEMMA EtaFolded ==
    ASSUME NEW computers, NEW m \in EtaMetrics, NEW x
    PROVE  Folded(computers, m, x)["eta"] =
              EtaUpdate(IF EtaKey(m) \in DOMAIN computers THEN computers[EtaKey(m)] ELSE Fresh["eta"],
                        x, None, Thresholds[m])
<1>1. PICK c : c = IF EtaKey(m) \in DOMAIN computers THEN computers[EtaKey(m)] ELSE Fresh["eta"]
    OBVIOUS
<1>2. Folded(computers, m, x)["eta"] = Updated("eta", m, c, x)
    BY <1>1, MetricsAre DEF Folded, EtaKey
<1>3. Updated("eta", m, c, x) = EtaUpdate(c, x, None, Thresholds[m])
    BY DEF Updated
<1> QED BY <1>1, <1>2, <1>3

(* A reading of the sample's own metric comes from its computer; of another *)
(* one it stays.                                                            *)
LEMMA EtaSurfaced ==
    ASSUME NEW latest, NEW metric \in Metrics, NEW folded, NEW m \in EtaMetrics,
           NEW S, S = Surfaced(latest, metric, folded), NEW f, f = EtaReading(m)
    PROVE  /\ m = metric /\ folded["eta"].eta # None => f \in DOMAIN S /\ S[f] = folded["eta"].eta
           /\ m # metric /\ f \in DOMAIN latest => f \in DOMAIN S /\ S[f] = latest[f]
<1> DEFINE said(class) == {r \in DOMAIN Readings(class, folded[class]) : Readings(class, folded[class])[r] # None}
           new == UNION {{<<metric, class, r>> : r \in said(class)} : class \in Registry[metric]}
<1>2. S = [g \in DOMAIN latest \cup new |-> IF g \in new THEN Readings(g[2], folded[g[2]])[g[3]] ELSE latest[g]]
    BY Zenon DEF Surfaced
<1>3. f[1] = m /\ f[2] = "eta" /\ f[3] = "value"
    BY DEF EtaReading
<1>4. ASSUME NEW g \in new PROVE g[1] = metric
    BY <1>4
<1>5. ASSUME m = metric, folded["eta"].eta # None
      PROVE  f \in DOMAIN S /\ S[f] = folded["eta"].eta
    <2>1. Readings("eta", folded["eta"]) = [value |-> folded["eta"].eta, level |-> folded["eta"].level]
        BY DEF Readings
    <2>2. "value" \in said("eta") /\ Readings("eta", folded["eta"])["value"] = folded["eta"].eta
        BY <1>5, <2>1
    <2>3. "eta" \in Registry[metric]
        BY <1>5, MetricsAre
    <2>4. f \in {<<metric, "eta", r>> : r \in said("eta")}
        BY <1>5, <2>2, Zenon DEF EtaReading
    <2> HIDE DEF said
    <2>5. f \in new
        BY <2>3, <2>4
    <2> HIDE DEF new
    <2> QED BY <1>2, <1>3, <2>2, <2>5
<1>6. ASSUME m # metric, f \in DOMAIN latest
      PROVE  f \in DOMAIN S /\ S[f] = latest[f]
    <2>1. f \notin new
        BY <1>3, <1>4, <1>6
    <2> HIDE DEF new
    <2> QED BY <1>2, <1>6, <2>1
<1> QED BY <1>5, <1>6, Zenon

(* One record: what the entity keeps of every stream of its own.            *)
Scored(surfaced, score) ==
    IF score = None THEN surfaced
    ELSE [f \in DOMAIN surfaced \cup {<<"hst_score">>} |-> IF f = <<"hst_score">> THEN score ELSE surfaced[f]]

Advanced(computers, metric, folded) ==
    [k \in DOMAIN computers \cup {<<metric, class>> : class \in Registry[metric]} |->
        IF k[1] = metric THEN folded[k[2]] ELSE computers[k]]

LEMMA EtaStreamGrows ==
    ASSUME NEW computers, NEW latest, NEW metric \in Metrics, NEW m \in EtaMetrics,
           NEW s \in Seq(Int), EtaStream(computers, latest, m, s), NEW x \in Int, NEW score,
           NEW folded, folded = Folded(computers, metric, x),
           NEW surfaced, surfaced = Surfaced(latest, metric, folded),
           NEW latest2, latest2 = Scored(surfaced, score),
           NEW computers2, computers2 = Advanced(computers, metric, folded)
    PROVE  EtaStream(computers2, latest2, m, IF m = metric THEN Append(s, x) ELSE s)
<1> DEFINE f == EtaReading(m)
           k == EtaKey(m)
<1>1. f # <<"hst_score">> /\ k[1] = m /\ k[2] = "eta"
    <2>1. Len(f) = 3 /\ Len(<<"hst_score">>) = 1
        BY DEF EtaReading
    <2> QED BY <2>1 DEF EtaKey
<1>2. f \in DOMAIN surfaced => f \in DOMAIN latest2 /\ latest2[f] = surfaced[f]
    <2> HIDE DEF f
    <2> QED BY <1>1 DEF Scored
<1>3. /\ m = metric /\ folded["eta"].eta # None => f \in DOMAIN surfaced /\ surfaced[f] = folded["eta"].eta
      /\ m # metric /\ f \in DOMAIN latest => f \in DOMAIN surfaced /\ surfaced[f] = latest[f]
    <2>1. PICK g : g = EtaReading(m)
        OBVIOUS
    <2>2. /\ m = metric /\ folded["eta"].eta # None => g \in DOMAIN surfaced /\ surfaced[g] = folded["eta"].eta
          /\ m # metric /\ g \in DOMAIN latest => g \in DOMAIN surfaced /\ surfaced[g] = latest[g]
        BY <2>1, EtaSurfaced
    <2> QED BY <2>1, <2>2
<1>4. CASE m = metric
    <2>1. PICK t : t = Append(s, x)
        OBVIOUS
    <2>2. t # <<>>
        BY <2>1
    <2>3. PICK d : d = folded["eta"]
        OBVIOUS
    <2>4. PICK c : c = IF k \in DOMAIN computers THEN computers[k] ELSE Fresh["eta"]
        OBVIOUS
    <2>5. d = EtaUpdate(c, x, None, Thresholds[m])
        BY <1>4, <2>3, <2>4, EtaFolded
    <2>6. Thresholds[m] \in Int
        BY MetricsAre
    <2>7. Climbing(d, t) /\ (Ramp(t) => d.eta # None /\ IsLate(d.eta, t[Len(t)], t[2] - t[1], Thresholds[m]))
        <3>1. CASE s = <<>>
            <4>1. c = Fresh["eta"]
                BY <2>4, <3>1 DEF EtaStream
            <4>2. t = <<x>> /\ Len(t) = 1
                BY <2>1, <3>1
            <4>3. Climbing(d, <<x>>)
                BY <2>5, <2>6, <4>1, ClimbStarts
            <4>4. ~Ramp(t)
                BY <4>2 DEF Ramp
            <4> QED BY <4>2, <4>3, <4>4
        <3>2. CASE s # <<>>
            <4>1. c = computers[k] /\ Climbing(c, s)
                BY <2>4, <3>2 DEF EtaStream
            <4> QED BY <2>1, <2>5, <2>6, <3>2, <4>1, ClimbGrows
        <3> QED BY <3>1, <3>2
    <2>8. k \in DOMAIN computers2 /\ computers2[k] = d
        <3>1. k \in {<<metric, class>> : class \in Registry[metric]}
            BY <1>4, MetricsAre DEF EtaKey
        <3> HIDE DEF k
        <3> QED BY <1>1, <1>4, <2>3, <3>1 DEF Advanced
    <2>9. Ramp(t) => f \in DOMAIN latest2 /\ latest2[f] = d.eta
        <3>1. folded["eta"].eta # None => f \in DOMAIN surfaced /\ surfaced[f] = folded["eta"].eta
            <4> HIDE DEF f
            <4> QED BY <1>4, <1>3
        <3> QED BY <1>2, <2>3, <2>7, <3>1
    <2>10. EtaStream(computers2, latest2, m, t)
        BY <2>2, <2>7, <2>8, <2>9 DEF EtaStream
    <2> QED BY <1>4, <2>1, <2>10
<1>5. CASE m # metric
    <2>1. k \in DOMAIN computers2 <=> k \in DOMAIN computers
        <3>1. k \notin {<<metric, class>> : class \in Registry[metric]}
            BY <1>5 DEF EtaKey
        <3> HIDE DEF k
        <3> QED BY <3>1 DEF Advanced
    <2>2. k \in DOMAIN computers => computers2[k] = computers[k]
        <3> HIDE DEF k
        <3> QED BY <1>1, <1>5 DEF Advanced
    <2>3. f \in DOMAIN latest => f \in DOMAIN latest2 /\ latest2[f] = latest[f]
        <3>1. f \in DOMAIN latest => f \in DOMAIN surfaced /\ surfaced[f] = latest[f]
            BY <1>5, <1>3
        <3> HIDE DEF f
        <3> QED BY <1>2, <3>1
    <2>4. EtaStream(computers2, latest2, m, s)
        BY <2>1, <2>2, <2>3 DEF EtaStream
    <2> QED BY <1>5, <2>4
<1> QED BY <1>4, <1>5

LEMMA ProcessEta ==
    ASSUME EtaInv, NEW e \in Entities, NEW metric \in Metrics, NEW x \in Int, NEW ts, NEW fired, NEW score,
           Process(e, metric, x, ts, fired, score)
    PROVE  EtaInv'
<1> DEFINE st        == StateOf(e)
           folded    == Folded(st.computers, metric, x)
           surfaced  == Surfaced(st.latest, metric, folded)
           latest    == Scored(surfaced, score)
           computers == Advanced(st.computers, metric, folded)
           silent    == Throttled(st, ts)
           st2       == [computers |-> computers, latest |-> latest, samples |-> st.samples + 1,
                         lastEmit |-> IF silent THEN st.lastEmit ELSE ts]
<1>1. states' = [d \in DOMAIN states \cup {e} |-> IF d # e THEN states[d] ELSE st2]
    BY Zenon DEF Process, Scored, Advanced
<1>2. history' = [history EXCEPT ![e][metric] = Append(@, x)]
    BY Zenon DEF Process
<1>3. st2.computers = computers /\ st2.latest = latest
    <2> HIDE DEF computers, latest
    <2> QED OBVIOUS
<1>4. PICK s2 : s2 = st2
    OBVIOUS
<1>5. StateOf(e)' = s2
    <2> HIDE DEF st2
    <2> QED BY <1>1, <1>4 DEF StateOf
<1>6. \A d \in Entities : d # e => StateOf(d)' = StateOf(d)
    <2> HIDE DEF st2
    <2> QED BY <1>1 DEF StateOf
<1>7. ASSUME NEW m \in EtaMetrics
      PROVE  EtaStream(s2.computers, s2.latest, m, IF m = metric THEN Append(history[e][m], x) ELSE history[e][m])
    <2>1. EtaStream(st.computers, st.latest, m, history[e][m])
        BY DEF EtaInv
    <2>2. history[e][m] \in Seq(Int)
        BY MetricsAre DEF EtaInv
    <2>3. PICK l2, c2 : l2 = latest /\ c2 = computers
        OBVIOUS
    <2> DEFINE old == history[e][m]
    <2>5. PICK sc, sl, fo, su : /\ sc = st.computers /\ sl = st.latest
                                /\ fo = folded /\ su = surfaced
        OBVIOUS
    <2>6. /\ fo = Folded(sc, metric, x) /\ su = Surfaced(sl, metric, fo)
          /\ l2 = Scored(su, score) /\ c2 = Advanced(sc, metric, fo)
        BY <2>3, <2>5, Zenon
    <2>7. EtaStream(sc, sl, m, old)
        BY <2>1, <2>5, Zenon
    <2>8. old \in Seq(Int)
        BY <2>2
    <2> HIDE DEF old
    <2>4. EtaStream(c2, l2, m, IF m = metric THEN Append(history[e][m], x) ELSE history[e][m])
        <3>1. EtaStream(c2, l2, m, IF m = metric THEN Append(old, x) ELSE old)
            BY <2>6, <2>7, <2>8, EtaStreamGrows, Zenon
        <3> QED BY <3>1, Zenon DEF old
    <2> HIDE DEF computers, latest, st2
    <2> QED BY <1>3, <1>4, <2>3, <2>4
<1>8. history' \in [Entities -> [Metrics -> Seq(Int)]]
    <2>1. Append(history[e][metric], x) \in Seq(Int)
        BY DEF EtaInv
    <2> QED BY <1>2, <2>1 DEF EtaInv
<1>9. DOMAIN states' \subseteq Entities
    <2> HIDE DEF st2
    <2> QED BY <1>1 DEF EtaInv
<1>10. ASSUME NEW d \in Entities, NEW m \in EtaMetrics
       PROVE  EtaStream(StateOf(d)'.computers, StateOf(d)'.latest, m, history'[d][m])
    <2>1. m \in Metrics
        BY MetricsAre
    <2>2. CASE d = e
        <3>1. history'[d][m] = IF m = metric THEN Append(history[e][m], x) ELSE history[e][m]
            BY <1>2, <2>1, <2>2 DEF EtaInv
        <3> QED BY <1>5, <1>7, <2>2, <3>1
    <2>3. CASE d # e
        <3>1. history'[d][m] = history[d][m]
            BY <1>2, <2>3 DEF EtaInv
        <3>2. EtaStream(StateOf(d).computers, StateOf(d).latest, m, history[d][m])
            BY DEF EtaInv
        <3> QED BY <1>6, <2>3, <3>1, <3>2
    <2> QED BY <2>2, <2>3
<1>11. \A m : (m \in EtaMetrics)' <=> m \in EtaMetrics
    BY DEF EtaMetrics
<1> QED BY <1>8, <1>9, <1>10 DEF EtaInv, EtaMetrics

LEMMA EtaIs == EtaInv => RampEtaIsLate
<1> SUFFICES ASSUME EtaInv, NEW e \in DOMAIN states, NEW metric \in DOMAIN Thresholds \cap Metrics,
                    NEW s, s = history[e][metric], NEW step, step = s[2] - s[1],
                    NEW away, away = (Thresholds[metric] - s[Len(s)]) * EtaUnit,
                    NEW eta, eta = states[e].latest[<<metric, "eta", "value">>],
                    Len(s) >= 2 /\ step > 0 /\ \A i \in 2..Len(s) : s[i] - s[i - 1] = step
             PROVE  /\ (eta + 1) * step > Min({away, MaxEta * step})
                    /\ eta * step <= Max({0, away + (FadeDen - 1) * step * EtaUnit})
    BY Zenon DEF RampEtaIsLate
<1>1. metric \in EtaMetrics /\ e \in Entities /\ StateOf(e) = states[e]
    BY DEF EtaMetrics, EtaInv, StateOf
<1>2. EtaStream(states[e].computers, states[e].latest, metric, s)
    BY <1>1 DEF EtaInv
<1>3. Ramp(s)
    BY Zenon DEF Ramp
<1>4. IsLate(eta, s[Len(s)], step, Thresholds[metric])
    BY <1>2, <1>3, Zenon DEF EtaStream, EtaReading
<1> QED BY <1>4, Zenon DEF IsLate
-------------------------------------------------------------------------------
(* The inductive invariant: what every computer keeps, in terms of what it  *)
(* was given.                                                               *)
IInv == Shape /\ CusumInv /\ FlapInv /\ TalkersInv /\ EtaInv

LEMMA Initially == Init => IInv
<1> SUFFICES ASSUME Init PROVE IInv
    OBVIOUS
<1>1. EtaInv
    <2>1. states = << >> /\ history = [e \in Entities |-> [m \in Metrics |-> <<>>]]
        BY DEF Init, EngineInit
    <2>2. DOMAIN states = {} /\ <<>> \in Seq(Int) /\ Len(<<>>) = 0
        BY <2>1
    <2>3. history \in [Entities -> [Metrics -> Seq(Int)]]
        BY <2>1, <2>2
    <2>4. ASSUME NEW e \in Entities, NEW m \in EtaMetrics
          PROVE  EtaStream(StateOf(e).computers, StateOf(e).latest, m, history[e][m])
        <3>1. history[e][m] = <<>>
            BY <2>1, MetricsAre
        <3>2. StateOf(e).computers = <<>>
            BY <2>2 DEF StateOf
        <3>3. ~Ramp(<<>>) /\ DOMAIN <<>> = {}
            BY <2>2 DEF Ramp
        <3> QED BY <3>1, <3>2, <3>3 DEF EtaStream
    <2> QED BY <2>2, <2>3, <2>4 DEF EtaInv
<1>2. CASE /\ tool = [kind |-> "flap", state |-> <<>>, hash |-> None]
           /\ calls = [n |-> 0, flaps |-> <<>>, clock |-> 0, ordered |-> TRUE]
    <2>1. tool.kind = "flap" /\ tool.state = <<>> /\ Shape
        BY <1>2 DEF Shape
    <2>2. calls.flaps = <<>> /\ calls.clock = 0
        BY <1>2
    <2>3. <<>> \in Seq(Nat) /\ Len(<<>>) = 0 /\ 0 \in Nat
        OBVIOUS
    <2>4. Holds(<<>>, <<>>, 0)
        BY <2>3, CapIs DEF Holds
    <2>5. InOrder(<<>>, 0)
        BY <2>3 DEF InOrder
    <2>6. FlapInv
        BY <2>1, <2>2, <2>3, <2>4, <2>5 DEF FlapInv
    <2> QED BY <1>1, <2>1, <2>6 DEF IInv, CusumInv, TalkersInv
<1>3. CASE /\ \E hash \in Hashes : tool = [kind |-> "talkers", state |-> NoTalkers, hash |-> hash]
           /\ calls = [n |-> 0, sent |-> [key \in Flows |-> 0], before |-> {}, now |-> {}, exact |-> TRUE]
    <2>1. PICK hash \in Hashes : tool = [kind |-> "talkers", state |-> NoTalkers, hash |-> hash]
        BY <1>3
    <2>2. tool.kind = "talkers" /\ tool.state = NoTalkers /\ tool.hash = hash /\ Shape
        BY <2>1 DEF Shape
    <2>3. /\ NoTalkers.rows = EmptySketch /\ NoTalkers.seen = {}
          /\ NoTalkers = [rows |-> NoTalkers.rows, seen |-> NoTalkers.seen,
                          prevTop |-> NoTalkers.prevTop, churn |-> NoTalkers.churn]
        BY DEF NoTalkers
    <2>4. /\ calls.sent = [key \in Flows |-> 0] /\ calls.before = {} /\ calls.now = {}
          /\ calls = [n |-> calls.n, sent |-> calls.sent, before |-> calls.before,
                      now |-> calls.now, exact |-> calls.exact]
        BY <1>3
    <2>5. Sketched(EmptySketch, hash, calls.sent) /\ calls.sent \in [Flows -> Nat]
        BY <2>4, NothingSketched
    <2>6. TalkersInv
        BY <2>2, <2>3, <2>4, <2>5 DEF TalkersInv
    <2> QED BY <1>1, <2>2, <2>6 DEF IInv, CusumInv, FlapInv
<1>4. CASE /\ tool = [kind |-> "cusum", state |-> NoCusum, hash |-> None]
           /\ calls = [n |-> 0, last |-> <<>>, run |-> <<>>]
    <2>1. tool.kind = "cusum" /\ tool.state = NoCusum /\ Shape
        BY <1>4 DEF Shape
    <2>2. /\ NoCusum.up = 0 /\ NoCusum.down = 0
          /\ NoCusum = [n |-> NoCusum.n, up |-> NoCusum.up, down |-> NoCusum.down, fired |-> NoCusum.fired]
        BY DEF NoCusum
    <2>3. calls.run = <<>> /\ calls.last = <<>> /\ <<>> \in Seq(Int)
        BY <1>4
    <2>4. CusumInv
        BY <2>1, <2>2, <2>3, NothingSummed DEF CusumInv
    <2> QED BY <1>1, <2>1, <2>4 DEF IInv, FlapInv, TalkersInv
<1> QED BY <1>2, <1>3, <1>4 DEF Init, ToolInit

LEMMA UnchangedEngine ==
    ASSUME EtaInv, UNCHANGED engineVars
    PROVE  EtaInv'
BY DEF EtaInv, engineVars, StateOf, EtaMetrics

LEMMA UnchangedTool ==
    ASSUME Shape, CusumInv, FlapInv, TalkersInv, UNCHANGED toolVars
    PROVE  Shape' /\ CusumInv' /\ FlapInv' /\ TalkersInv'
<1>1. tool' = tool /\ calls' = calls
    BY DEF toolVars
<1>2. Shape'
    BY <1>1 DEF Shape
<1>3. CusumInv'
    BY <1>1 DEF CusumInv
<1>4. FlapInv'
    BY <1>1 DEF FlapInv
<1>5. TalkersInv'
    BY <1>1 DEF TalkersInv
<1> QED BY <1>2, <1>3, <1>4, <1>5

(* A call of a computer is a call of no other.                              *)
LEMMA SameTool ==
    ASSUME Shape, NEW state, tool' = [tool EXCEPT !.state = state]
    PROVE  Shape' /\ tool'.kind = tool.kind
<1>1. tool' = [kind |-> tool.kind, state |-> state, hash |-> tool.hash]
    BY DEF Shape
<1>2. tool'.kind = tool.kind /\ tool'.state = state /\ tool'.hash = tool.hash
    BY <1>1
<1> QED BY <1>1, <1>2 DEF Shape

LEMMA RunKeeps ==
    ASSUME IInv, Run, UNCHANGED toolVars
    PROVE  IInv'
<1>1. PICK e \in Entities, metric \in Metrics, x \in Values, ts \in Times, score \in Scores \cup {None} :
         \E fired \in SUBSET Detectors[metric] : Process(e, metric, x, ts, fired, score)
    BY Zenon DEF Run
<1>2. PICK fired \in SUBSET Detectors[metric] : Process(e, metric, x, ts, fired, score)
    BY <1>1
<1>3. x \in Int
    BY EngineAssumption
<1>4. EtaInv'
    BY <1>2, <1>3, ProcessEta, Zenon DEF IInv
<1>5. Shape' /\ CusumInv' /\ FlapInv' /\ TalkersInv'
    BY UnchangedTool, Zenon DEF IInv
<1> QED BY <1>4, <1>5 DEF IInv

LEMMA StepKeeps == IInv /\ [Next]_vars => IInv'
<1> SUFFICES ASSUME IInv, [Next]_vars PROVE IInv'
    OBVIOUS
<1>1. Shape /\ CusumInv /\ FlapInv /\ TalkersInv /\ EtaInv
    BY DEF IInv
<1>2. CASE Run /\ UNCHANGED toolVars
    BY <1>2, RunKeeps
<1>3. CASE RegisterFlap \/ UpdateFlaps \/ CountFlaps
    <2>1. tool.kind = "flap" /\ UNCHANGED engineVars
        BY <1>3 DEF RegisterFlap, UpdateFlaps, CountFlaps, Use
    <2>2. \E state : tool' = [tool EXCEPT !.state = state]
        BY <1>3, Zenon DEF RegisterFlap, UpdateFlaps, CountFlaps
    <2>3. Shape' /\ tool'.kind = "flap"
        BY <1>1, <2>1, <2>2, SameTool
    <2>4. FlapInv'
        BY <1>1, <1>3, FlapActions
    <2>5. EtaInv'
        BY <1>1, <2>1, UnchangedEngine
    <2>6. CusumInv' /\ TalkersInv'
        BY <2>3 DEF CusumInv, TalkersInv
    <2> QED BY <2>3, <2>4, <2>5, <2>6 DEF IInv
<1>4. CASE Send \/ Snapshot
    <2>1. tool.kind = "talkers" /\ UNCHANGED engineVars
        BY <1>4 DEF Send, Snapshot, Use
    <2>2. \E state : tool' = [tool EXCEPT !.state = state]
        BY <1>4, Zenon DEF Send, Snapshot
    <2>3. Shape' /\ tool'.kind = "talkers"
        BY <1>1, <2>1, <2>2, SameTool
    <2>4. TalkersInv'
        BY <1>1, <1>4, SendTalkers, SnapshotTalkers
    <2>5. EtaInv'
        BY <1>1, <2>1, UnchangedEngine
    <2>6. CusumInv' /\ FlapInv'
        BY <2>3 DEF CusumInv, FlapInv
    <2> QED BY <2>3, <2>4, <2>5, <2>6 DEF IInv
<1>5. CASE Observe
    <2>1. tool.kind = "cusum" /\ UNCHANGED engineVars
        BY <1>5 DEF Observe, Use
    <2>2. \E state : tool' = [tool EXCEPT !.state = state]
        BY <1>5, Zenon DEF Observe
    <2>3. Shape' /\ tool'.kind = "cusum"
        BY <1>1, <2>1, <2>2, SameTool
    <2>4. CusumInv'
        BY <1>1, <1>5, ObserveCusum
    <2>5. EtaInv'
        BY <1>1, <2>1, UnchangedEngine
    <2>6. FlapInv' /\ TalkersInv'
        BY <2>3 DEF FlapInv, TalkersInv
    <2> QED BY <2>3, <2>4, <2>5, <2>6 DEF IInv
<1>6. CASE UNCHANGED vars
    <2>1. UNCHANGED engineVars /\ UNCHANGED toolVars
        BY <1>6 DEF vars, engineVars, toolVars
    <2> QED BY <1>1, <2>1, UnchangedEngine, UnchangedTool DEF IInv
<1> QED BY <1>2, <1>3, <1>4, <1>5, <1>6, Zenon DEF Next

THEOREM FeaturesInductive == Spec => []IInv
BY Initially, StepKeeps, PTL DEF Spec

(* Whatever deviations come in whatever order, a CUSUM fires exactly when   *)
(* some run of samples since its last alarm has drifted beyond slack and    *)
(* threshold: the sums that update resets and clips at zero forget nothing  *)
(* that matters (CUSUM.update).                                             *)
THEOREM CusumWindowed == Spec => []CusumIsWindowed
<1>1. IInv => CusumIsWindowed
    BY CusumIs DEF IInv
<1> QED BY <1>1, FeaturesInductive, PTL

(* For every window and cap of the ring, flaps and reads in whatever order  *)
(* of times: nothing of the window is forgotten but to the cap, and in      *)
(* order the count is exact (AdjacencyFlapCount).                           *)
THEOREM FlapsCounted == Spec => []FlapCountHolds
<1>1. IInv => FlapCountHolds
    BY FlapCountIs DEF IInv
<1> QED BY <1>1, FeaturesInductive, PTL

(* For every sketch size and every hash of the keys, collisions or not, an  *)
(* estimate is never below what was sent, and the churn is the true one     *)
(* while estimates are exact (TopTalkerChurn, CountMinSketch).              *)
THEOREM TalkersTrue == Spec => []TalkersAreTrue
<1>1. IInv => TalkersAreTrue
    BY TalkersAre DEF IInv
<1> QED BY <1>1, FeaturesInductive, PTL

(* For every fading factor, threshold and step, and however the records of  *)
(* other streams come in between, the time to threshold of a steady climb   *)
(* is never early and late by the lag of its level (TimeToThreshold).       *)
THEOREM RampEtaLate == Spec => []RampEtaIsLate
<1>1. IInv => RampEtaIsLate
    BY EtaIs DEF IInv
<1> QED BY <1>1, FeaturesInductive, PTL
===============================================================================
