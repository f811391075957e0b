----------------------------- MODULE RankingProofs -----------------------------
(* What FlapSuppressor and Ranking guarantee for every threshold, cap and   *)
(* decay curve, every twin, every set of incidents and every calibration    *)
(* their assumptions allow, and what the Providers that show the ranked     *)
(* incidents guarantee for every report that is ordered as Ranking orders   *)
(* its queue.                                                               *)
EXTENDS Ranking, Providers, NumberLemmas, SequenceTheorems

(* The inductive invariant: the type, the hysteresis band, and what lies    *)
(* between them: an entity with a penalty has a last update, which is no    *)
(* later than the newest time seen, and an entity without state has none.   *)
Clocked == \A e \in Entities : /\ lastUpdate[e] # None => lastUpdate[e] <= now
                               /\ penalty[e] > 0 => lastUpdate[e] # None
                               /\ lastUpdate[e] # None => e \in known

IInv == TypeOK /\ FlagMatchesBand /\ Clocked
-------------------------------------------------------------------------------
(* The decay of a penalty within the cap stays within what it was.          *)
LEMMA DecayRange ==
    ASSUME NEW p \in 0..MaxPenalty, NEW dt \in Time
    PROVE  Decay(p, dt) \in 0..p
<1>1. MaxPenalty \in Nat /\ MaxTime \in Nat
    BY ThresholdAssumption, BoundAssumption
<1>2. p \in 0..p /\ 0 \in 0..dt /\ 0 \in 0..MaxTime
    BY <1>1 DEF Time
<1>3. Decay(p, dt) \in Nat /\ Decay(p, 0) = p
    BY <1>2, DecayAssumption DEF Time
<1>4. Decay(p, dt) <= Decay(p, 0)
    BY <1>2, DecayAssumption DEF Time
<1> QED BY <1>1, <1>3, <1>4

(* More penalty, or less time, leaves more.                                 *)
LEMMA DecayMonotone ==
    ASSUME NEW p \in 0..MaxPenalty, NEW q \in 0..p,
           NEW dt \in Time, NEW ds \in 0..dt
    PROVE  Decay(q, dt) <= Decay(p, ds)
BY DecayAssumption DEF Time

(* Decaying in two steps is decaying once.                                  *)
LEMMA DecayComposes ==
    ASSUME NEW p \in 0..MaxPenalty, NEW dt \in Time, NEW ds \in 0..dt
    PROVE  Decay(Decay(p, ds), dt - ds) = Decay(p, dt)
BY DecayAssumption DEF Time

(* What _decay leaves is at most the penalty that was there.                *)
LEMMA DecayedRange ==
    ASSUME IInv, NEW e \in Entities, NEW t \in Time
    PROVE  Decayed(e, t) \in 0..penalty[e]
<1>1. penalty[e] \in 0..MaxPenalty /\ MaxPenalty \in Nat /\ MaxTime \in Nat
    BY ThresholdAssumption, BoundAssumption DEF IInv, TypeOK
<1>2. CASE lastUpdate[e] # None /\ penalty[e] > 0 /\ t > lastUpdate[e]
    <2>1. lastUpdate[e] \in Time
        BY <1>2 DEF IInv, TypeOK
    <2>2. t - lastUpdate[e] \in Time
        BY <1>1, <1>2, <2>1 DEF Time
    <2> QED BY <1>1, <1>2, <2>2, DecayRange DEF Decayed
<1>3. CASE ~(lastUpdate[e] # None /\ penalty[e] > 0 /\ t > lastUpdate[e])
    BY <1>1, <1>3 DEF Decayed
<1> QED BY <1>2, <1>3

(* The decayed penalty falls as time passes.                                *)
LEMMA DecayedFalls ==
    ASSUME IInv, NEW e \in Entities, NEW t \in Time, NEW u \in Time, t <= u
    PROVE  Decayed(e, u) <= Decayed(e, t)
<1>1. penalty[e] \in 0..MaxPenalty /\ MaxPenalty \in Nat /\ MaxTime \in Nat
    BY ThresholdAssumption, BoundAssumption DEF IInv, TypeOK
<1>2. CASE lastUpdate[e] # None /\ penalty[e] > 0 /\ t > lastUpdate[e]
    <2>1. lastUpdate[e] \in Time
        BY <1>2 DEF IInv, TypeOK
    <2>2. /\ t - lastUpdate[e] \in 0..(u - lastUpdate[e])
          /\ u - lastUpdate[e] \in Time
          /\ u > lastUpdate[e]
        BY <1>1, <1>2, <2>1 DEF Time
    <2>3. penalty[e] \in 0..penalty[e]
        BY <1>1
    <2>4. Decay(penalty[e], u - lastUpdate[e]) <= Decay(penalty[e], t - lastUpdate[e])
        BY <1>1, <2>2, <2>3, DecayMonotone
    <2> QED BY <1>2, <2>2, <2>4 DEF Decayed
<1>3. CASE ~(lastUpdate[e] # None /\ penalty[e] > 0 /\ t > lastUpdate[e])
    <2>1. Decayed(e, t) = penalty[e]
        BY <1>3 DEF Decayed
    <2>2. Decayed(e, u) \in 0..penalty[e]
        BY DecayedRange
    <2> QED BY <1>1, <2>1, <2>2
<1> QED BY <1>2, <1>3
-------------------------------------------------------------------------------
(* Init establishes the invariant.                                          *)
LEMMA InitIInv == Init => IInv
<1> SUFFICES ASSUME Init PROVE IInv
    OBVIOUS
<1>1. TypeOK
    <2>1. suppressed \in [Entities -> BOOLEAN]
        BY Zenon DEF Init
    <2>2. 0 \in 0..MaxPenalty /\ 0 \in Time
        BY ThresholdAssumption, BoundAssumption DEF Time
    <2>3. /\ known \in SUBSET Entities
          /\ penalty \in [Entities -> 0..MaxPenalty]
          /\ lastUpdate \in [Entities -> Time \cup {None}]
          /\ now \in Time
        BY <2>2 DEF Init
    <2> QED BY <2>1, <2>3 DEF TypeOK
<1>2. FlagMatchesBand
    <2>1. \A e \in Entities : suppressed[e] = FALSE
        BY Zenon DEF Init
    <2>2. \A e \in Entities : penalty[e] = 0
        BY DEF Init
    <2>3. ~(0 >= SuppressThreshold)
        BY ThresholdAssumption
    <2> QED BY <2>1, <2>2, <2>3, Zenon DEF FlagMatchesBand
<1>3. Clocked
    <2>1. \A e \in Entities : lastUpdate[e] = None /\ penalty[e] = 0
        BY DEF Init
    <2>2. ~(0 > 0)
        OBVIOUS
    <2> QED BY <2>1, <2>2, Zenon DEF Clocked
<1> QED BY <1>1, <1>2, <1>3 DEF IInv

(* Registering flaps preserves the invariant: the penalty stays under the   *)
(* cap and the flag follows it into the band it lands in.                   *)
LEMMA ObserveIInv ==
    ASSUME IInv, NEW e \in Entities, NEW t \in Time, NEW flaps \in 1..MaxFlaps,
           Observe(e, t, flaps)
    PROVE  IInv'
<1> DEFINE p == Lesser(MaxPenalty, Decayed(e, t) + Increment * flaps)
<1>1. p \in 0..MaxPenalty
    <2>1. Decayed(e, t) \in Nat
        BY DecayedRange DEF IInv, TypeOK
    <2>2. Increment * flaps \in Nat
        BY ThresholdAssumption, BoundAssumption
    <2>3. MaxPenalty \in Nat
        BY ThresholdAssumption
    <2> QED BY <2>1, <2>2, <2>3 DEF Lesser
<1>2. /\ penalty' = [penalty EXCEPT ![e] = p]
      /\ suppressed' = [suppressed EXCEPT
                           ![e] = p >= SuppressThreshold \/ (p >= ReuseThreshold /\ @)]
      /\ lastUpdate' = [lastUpdate EXCEPT ![e] = t]
      /\ known' = known \cup {e}
      /\ now' = IF t > now THEN t ELSE now
    BY DEF Observe
<1> HIDE DEF p
<1>3. TypeOK'
    <2>1. penalty' \in [Entities -> 0..MaxPenalty]
        BY <1>1, <1>2 DEF IInv, TypeOK
    <2>2. suppressed' \in [Entities -> BOOLEAN]
        BY <1>2, Zenon DEF IInv, TypeOK
    <2>3. lastUpdate' \in [Entities -> Time \cup {None}] /\ known' \in SUBSET Entities
        BY <1>2 DEF IInv, TypeOK
    <2>4. now' \in Time
        BY <1>2 DEF IInv, TypeOK
    <2> QED BY <2>1, <2>2, <2>3, <2>4 DEF TypeOK
<1>4. FlagMatchesBand'
    <2> SUFFICES ASSUME NEW d \in Entities
                 PROVE  /\ penalty'[d] >= SuppressThreshold => suppressed'[d]
                        /\ penalty'[d] < ReuseThreshold => ~suppressed'[d]
        BY DEF FlagMatchesBand
    <2>1. CASE d = e
        <3>1. penalty'[d] = p
            BY <1>2, <2>1 DEF IInv, TypeOK
        <3>2. suppressed'[d] <=> (p >= SuppressThreshold \/ (p >= ReuseThreshold /\ suppressed[e]))
            BY <1>2, <2>1, Zenon DEF IInv, TypeOK
        <3>3. p < ReuseThreshold => ~(p >= SuppressThreshold) /\ ~(p >= ReuseThreshold)
            BY <1>1, ThresholdAssumption
        <3> QED BY <3>1, <3>2, <3>3
    <2>2. CASE d # e
        <3>1. penalty'[d] = penalty[d] /\ suppressed'[d] = suppressed[d]
            BY <1>2, <2>2 DEF IInv, TypeOK
        <3> QED BY <3>1 DEF IInv, FlagMatchesBand
    <2> QED BY <2>1, <2>2
<1>5. Clocked'
    <2> SUFFICES ASSUME NEW d \in Entities
                 PROVE  /\ lastUpdate'[d] # None => lastUpdate'[d] <= now'
                        /\ penalty'[d] > 0 => lastUpdate'[d] # None
                        /\ lastUpdate'[d] # None => d \in known'
        BY DEF Clocked
    <2>1. t \in Int /\ now \in Int /\ now' >= t /\ now' >= now /\ t # None
        BY <1>2, BoundAssumption, NoneAssumption DEF IInv, TypeOK, Time
    <2>2. CASE d = e
        BY <1>2, <2>1, <2>2 DEF IInv, TypeOK
    <2>3. CASE d # e
        <3>1. penalty'[d] = penalty[d] /\ lastUpdate'[d] = lastUpdate[d]
            BY <1>2, <2>3 DEF IInv, TypeOK
        <3>2. lastUpdate[d] # None => lastUpdate[d] \in Int
            BY BoundAssumption DEF IInv, TypeOK, Time
        <3> QED BY <1>2, <2>1, <3>1, <3>2 DEF IInv, TypeOK, Clocked, Time
    <2> QED BY <2>2, <2>3
<1> QED BY <1>3, <1>4, <1>5 DEF IInv

(* Forgetting one entity, or all of them, preserves the invariant.          *)
LEMMA ResetIInv ==
    ASSUME IInv, (\E e \in Entities : Reset(e)) \/ ResetAll
    PROVE  IInv'
<1>1. CASE \E e \in Entities : Reset(e)
    <2>1. PICK e \in Entities : Reset(e)
        BY <1>1
    <2>2. TypeOK'
        BY <2>1, ThresholdAssumption, BoundAssumption DEF Reset, Fresh, IInv, TypeOK
    <2>3. FlagMatchesBand'
        BY <2>1, ThresholdAssumption DEF Reset, Fresh, IInv, TypeOK, FlagMatchesBand
    <2>4. Clocked'
        BY <2>1 DEF Reset, Fresh, IInv, TypeOK, Clocked
    <2> QED BY <2>2, <2>3, <2>4 DEF IInv
<1>2. CASE ResetAll
    <2>1. TypeOK'
        BY <1>2, ThresholdAssumption, BoundAssumption DEF ResetAll, IInv, TypeOK
    <2>2. FlagMatchesBand'
        BY <1>2, ThresholdAssumption DEF ResetAll, FlagMatchesBand
    <2>3. Clocked'
        BY <1>2 DEF ResetAll, Clocked
    <2> QED BY <2>1, <2>2, <2>3 DEF IInv
<1> QED BY <1>1, <1>2

(* The invariant of suppress.py's per-entity state: every step keeps it.    *)
THEOREM Inductive == Spec => []IInv
<1>1. IInv /\ [Next]_vars => IInv'
    <2> SUFFICES ASSUME IInv, [Next]_vars PROVE IInv'
        OBVIOUS
    <2>1. CASE \E e \in Entities, t \in Time, flaps \in 1..MaxFlaps : Observe(e, t, flaps)
        BY <2>1, ObserveIInv
    <2>2. CASE (\E e \in Entities : Reset(e)) \/ ResetAll
        BY <2>2, ResetIInv
    <2>3. CASE UNCHANGED vars
        BY <2>3 DEF IInv, TypeOK, FlagMatchesBand, Clocked, vars
    <2> QED BY <2>1, <2>2, <2>3 DEF Next
<1> QED BY InitIInv, <1>1, PTL DEF Spec

(* Every variable keeps its type; penalties, above all, never exceed        *)
(* max_penalty.                                                             *)
THEOREM TypeCorrect == Spec => []TypeOK
BY Inductive, PTL DEF IInv

(* However flaps, their times and resets interleave, the suppressed flag    *)
(* agrees with the band the stored penalty is in.                           *)
THEOREM Hysteresis == Spec => []FlagMatchesBand
BY Inductive, PTL DEF IInv

(* With no new flap, suppression can only end.                              *)
THEOREM CalmForever == Spec => []CalmStaysCalm
<1>1. IInv => CalmStaysCalm
    <2> SUFFICES ASSUME IInv, NEW e \in Entities, NEW t \in Time, NEW u \in Time,
                        t <= u, IsSuppressed(e, u)
                 PROVE  IsSuppressed(e, t)
        BY DEF CalmStaysCalm
    <2>1. e \in known
        BY DEF IsSuppressed
    <2>2. penalty[e] \in Nat
        BY ThresholdAssumption DEF IInv, TypeOK
    <2>3. Decayed(e, t) \in Nat /\ Decayed(e, u) \in Nat
        BY <2>2, DecayedRange
    <2>4. Decayed(e, u) <= Decayed(e, t)
        BY DecayedFalls
    <2>5. ReuseThreshold \in Nat /\ SuppressThreshold \in Nat
        BY ThresholdAssumption
    <2>6. CASE suppressed[e] /\ PenaltyOf(e, u) >= ReuseThreshold
        <3>1. Decayed(e, t) >= ReuseThreshold
            BY <2>1, <2>3, <2>4, <2>5, <2>6 DEF PenaltyOf
        <3> QED BY <2>1, <2>6, <3>1 DEF IsSuppressed, PenaltyOf
    <2>7. CASE PenaltyOf(e, u) >= SuppressThreshold
        BY <2>1, <2>3, <2>4, <2>5, <2>7 DEF IsSuppressed, PenaltyOf
    <2> QED BY <2>6, <2>7 DEF IsSuppressed
<1> QED BY Inductive, <1>1, PTL

LEMMA IInvReusable == IInv => ReusableInTime
<1> SUFFICES ASSUME IInv, NEW e \in Entities, NEW t \in Time,
                    lastUpdate[e] # None, t > lastUpdate[e],
                    Decay(MaxPenalty, t - lastUpdate[e]) < ReuseThreshold
             PROVE  ~IsSuppressed(e, t)
    BY DEF ReusableInTime
<1>1. /\ ReuseThreshold \in Nat /\ SuppressThreshold \in Nat /\ MaxPenalty \in Nat
      /\ 0 < ReuseThreshold /\ ReuseThreshold < SuppressThreshold
    BY ThresholdAssumption
<1>2. penalty[e] \in 0..MaxPenalty /\ MaxPenalty \in 0..MaxPenalty
    BY <1>1 DEF IInv, TypeOK
<1>3. t - lastUpdate[e] \in Time /\ t - lastUpdate[e] \in 0..(t - lastUpdate[e])
    BY BoundAssumption DEF IInv, TypeOK, Time
<1>4. Decay(penalty[e], t - lastUpdate[e]) <= Decay(MaxPenalty, t - lastUpdate[e])
    BY <1>2, <1>3, DecayMonotone
<1>5. /\ Decay(penalty[e], t - lastUpdate[e]) \in Nat
      /\ Decay(MaxPenalty, t - lastUpdate[e]) \in Nat
    BY <1>2, <1>3, DecayAssumption DEF Time
<1>6. Decayed(e, t) < ReuseThreshold /\ Decayed(e, t) \in Nat
    BY <1>1, <1>2, <1>4, <1>5 DEF Decayed
<1>7. e \in known
    BY DEF IInv, Clocked
<1> QED BY <1>1, <1>6, <1>7 DEF IsSuppressed, PenaltyOf

(* The cap bounds the outage: however hard an entity flapped, it is         *)
(* reusable once a penalty of max_penalty would be.                         *)
THEOREM OutageIsBounded == Spec => []ReusableInTime
BY Inductive, IInvReusable, PTL
-------------------------------------------------------------------------------
(* With times in order, the penalty after a flap decays to no less than the *)
(* penalty before it would have.                                            *)
LEMMA ObserveRaises ==
    ASSUME IInv, MaxLag = 0, NEW e \in Entities, NEW t \in Time,
           NEW flaps \in 1..MaxFlaps, Observe(e, t, flaps),
           NEW u \in Time, u >= now'
    PROVE  PenaltyOf(e, u)' >= PenaltyOf(e, u)
<1> DEFINE p  == penalty'[e]
           q  == Decayed(e, t)
           lu == lastUpdate[e]
<1>1. IInv'
    BY ObserveIInv
<1>2. /\ MaxPenalty \in Nat /\ MaxTime \in Nat /\ t \in Nat /\ u \in Nat /\ now \in Nat
      /\ penalty[e] \in 0..MaxPenalty /\ p \in 0..MaxPenalty
    BY <1>1, ThresholdAssumption, BoundAssumption DEF IInv, TypeOK, Time
<1>3. lastUpdate'[e] = t /\ e \in known' /\ t >= now /\ u >= t
    BY <1>2 DEF Observe, IInv, TypeOK
<1>4. q \in 0..p
    <2>1. q \in Nat /\ q <= MaxPenalty
        BY <1>2, DecayedRange
    <2>2. Increment * flaps \in Nat
        BY ThresholdAssumption, BoundAssumption
    <2>3. p = Lesser(MaxPenalty, q + Increment * flaps)
        BY DEF Observe, IInv, TypeOK
    <2> QED BY <1>2, <2>1, <2>2, <2>3 DEF Lesser
<1>5. Decayed(e, u)' \in Nat /\ Decayed(e, u) \in Nat
    <2>1. Decayed(e, u) \in 0..penalty[e]
        BY DecayedRange
    <2>2. Decayed(e, u)' = IF t # None /\ p > 0 /\ u > t THEN Decay(p, u - t) ELSE p
        BY <1>3 DEF Decayed
    <2>3. u > t => Decay(p, u - t) \in 0..p
        BY <1>2, <1>3, DecayRange DEF Time
    <2> QED BY <1>2, <2>1, <2>2, <2>3
<1>6. Decayed(e, u)' >= Decayed(e, u)
    <2>1. CASE u = t
        <3>1. Decayed(e, u)' = p
            BY <1>2, <1>3, <2>1 DEF Decayed
        <3> QED BY <1>2, <1>4, <2>1, <3>1
    <2>2. CASE u > t /\ (lu = None \/ penalty[e] = 0)
        <3>1. penalty[e] = 0
            BY <1>2, <2>2 DEF IInv, Clocked
        <3>2. Decayed(e, u) = 0
            BY <3>1 DEF Decayed
        <3> QED BY <1>5, <3>2
    <2>3. CASE u > t /\ lu # None /\ penalty[e] # 0
        <3>1. lu \in Time /\ lu \in Nat /\ lu <= t /\ penalty[e] > 0 /\ t # None
            BY <1>2, <1>3, <2>3, NoneAssumption DEF IInv, TypeOK, Clocked, Time
        <3>2. /\ u - lu \in Time /\ t - lu \in 0..(u - lu) /\ u - t \in Time
              /\ (u - lu) - (t - lu) = u - t /\ u - t \in 0..(u - t)
              /\ 0 \in Time
            BY <1>2, <2>3, <3>1 DEF Time
        <3>3. Decayed(e, u) = Decay(penalty[e], u - lu)
            BY <1>2, <2>3, <3>1 DEF Decayed
        <3>4. q = Decay(penalty[e], t - lu)
            <4>1. CASE t > lu
                BY <2>3, <3>1, <4>1 DEF Decayed
            <4>2. CASE t = lu
                <5>1. t - lu = 0 /\ ~(t > lu)
                    BY <1>2, <4>2
                <5>2. Decay(penalty[e], 0) = penalty[e]
                    BY <1>2, <3>2, DecayAssumption DEF Time
                <5> QED BY <5>1, <5>2 DEF Decayed
            <4> QED BY <1>2, <3>1, <4>1, <4>2
        <3>5. Decay(q, u - t) = Decayed(e, u)
            <4>1. penalty[e] \in 0..MaxPenalty
                BY <1>2 DEF IInv, TypeOK
            <4>2. Decay(Decay(penalty[e], t - lu), (u - lu) - (t - lu))
                    = Decay(penalty[e], u - lu)
                BY ONLY <3>2, <4>1, DecayComposes
            <4> QED BY <3>2, <3>3, <3>4, <4>2
        <3>6. Decay(q, u - t) <= Decay(p, u - t)
            BY <1>2, <1>4, <3>2, DecayMonotone
        <3>7. CASE p > 0
            <4>1. Decayed(e, u)' = Decay(p, u - t)
                BY <1>2, <1>3, <2>3, <3>1, <3>7 DEF Decayed
            <4> QED BY <1>5, <3>5, <3>6, <4>1
        <3>8. CASE p = 0
            <4>1. q = 0
                BY <1>4, <3>8
            <4>2. Decay(q, u - t) \in 0..0
                BY <1>2, <3>2, <3>8, <4>1, DecayRange
            <4> QED BY <1>5, <3>5, <4>2
        <3> QED BY <1>2, <3>7, <3>8
    <2> QED BY <1>2, <1>3, <2>1, <2>2, <2>3
<1>7. PenaltyOf(e, u)' = Decayed(e, u)'
    BY <1>3 DEF PenaltyOf
<1>8. PenaltyOf(e, u) = Decayed(e, u) \/ PenaltyOf(e, u) = 0
    BY DEF PenaltyOf
<1> QED BY <1>5, <1>6, <1>7, <1>8

(* "increments on each state change / re-fire": when observe() is called    *)
(* with times in order, no flap ever leaves an entity better off.           *)
THEOREM FlapsNeverPay == MaxLag = 0 => (Spec => FlapNeverLowersPenalty)
<1> SUFFICES ASSUME MaxLag = 0 PROVE Spec => FlapNeverLowersPenalty
    OBVIOUS
<1>1. IInv /\ [Next]_vars => [\A e \in Entities : FlapRaisesPenalty(e)]_vars
    <2> SUFFICES ASSUME IInv, Next, NEW e \in Entities PROVE FlapRaisesPenalty(e)
        OBVIOUS
    <2>1. CASE \E d \in Entities, t \in Time, flaps \in 1..MaxFlaps : Observe(d, t, flaps)
        <3>1. PICK d \in Entities, t \in Time, flaps \in 1..MaxFlaps : Observe(d, t, flaps)
            BY <2>1
        <3>2. CASE d = e
            BY <3>1, <3>2, ObserveRaises DEF FlapRaisesPenalty
        <3>3. CASE d # e
            <4>1. lastUpdate'[e] = lastUpdate[e]
                BY <3>1, <3>3 DEF Observe, IInv, TypeOK
            <4> QED BY <4>1 DEF FlapRaisesPenalty
        <3> QED BY <3>2, <3>3
    <2>2. CASE (\E d \in Entities : Reset(d)) \/ ResetAll
        <3>1. lastUpdate'[e] = None \/ lastUpdate'[e] = lastUpdate[e]
            BY <2>2 DEF Reset, Fresh, ResetAll, IInv, TypeOK
        <3> QED BY <3>1 DEF FlapRaisesPenalty
    <2> QED BY <2>1, <2>2 DEF Next
<1> QED BY Inductive, <1>1, PTL DEF Spec, FlapNeverLowersPenalty
-------------------------------------------------------------------------------
(* The powers the roots undo, and the largest score that has one.           *)
Square(r) == r * r
Fourth(r) == (r * r) * (r * r)
Cap       == Fourth(100)

(* Shares of 100, of 1000 and of 10000.                                     *)
Percent     == {x \in Nat : x <= 100}
Thousandths == {x \in Nat : x <= 1000}
Shares      == {x \in Nat : x <= 10000}

LEMMA PercentIs == 0..100 = Percent
BY SMT DEF Percent

LEMMA ThousandthsIs == 0..1000 = Thousandths
BY SMT DEF Thousandths

LEMMA SquareGrows ==
    ASSUME NEW a \in Nat, NEW b \in Nat, a <= b
    PROVE  Square(a) \in Nat /\ Square(b) \in Nat /\ Square(a) <= Square(b)
BY ProductGrows DEF Square

LEMMA FourthGrows ==
    ASSUME NEW a \in Nat, NEW b \in Nat, a <= b
    PROVE  Fourth(a) \in Nat /\ Fourth(b) \in Nat /\ Fourth(a) <= Fourth(b)
<1> DEFINE c == a * a
           d == b * b
<1>1. c \in Nat /\ d \in Nat /\ c <= d
    BY ProductGrows
<1> HIDE DEF c, d
<1>2. c * c <= d * d /\ c * c \in Nat /\ d * d \in Nat
    BY <1>1, ProductGrows
<1> QED BY <1>2 DEF Fourth, c, d

LEMMA CapIs == Cap \in Nat /\ Cap < Fourth(101)
<1>1. (100 * 100) * (100 * 100) \in Nat
    BY SMT
<1>2. (100 * 100) * (100 * 100) < (101 * 101) * (101 * 101)
    BY SMT
<1>3. Cap = (100 * 100) * (100 * 100) /\ Fourth(101) = (101 * 101) * (101 * 101)
    BY SMT DEF Cap, Fourth
<1> QED BY <1>1, <1>2, <1>3, SMT

(* The integer roots are what their names say.                              *)
LEMMA SqrtIs ==
    ASSUME NEW x \in 0..Square(100)
    PROVE  Sqrt(x) \in Percent /\ Square(Sqrt(x)) <= x /\ x < Square(Sqrt(x) + 1)
<1> DEFINE U == {r \in Nat : x < Square(r + 1)}
<1>0. Square(100) \in Nat /\ Square(101) \in Nat /\ Square(100) < Square(101)
    BY SMT DEF Square
<1>1. 100 \in U /\ U \in SUBSET Nat /\ U # {}
    <2>1. 100 + 1 = 101
        OBVIOUS
    <2>2. x < Square(101)
        BY <1>0
    <2> QED BY <2>1, <2>2
<1>2. PICK r \in U : \A y \in U : r <= y
    BY <1>1, LeastNat
<1>3. r \in Nat /\ r <= 100 /\ x < Square(r + 1) /\ x \in Nat
    BY <1>0, <1>1, <1>2
<1>4. Square(r) <= x
    <2>1. CASE r = 0
        BY <1>3, <2>1 DEF Square
    <2>2. CASE r # 0
        <3>1. r - 1 \in Nat /\ ~(r <= r - 1) /\ (r - 1) + 1 = r
            BY <1>3, <2>2
        <3>2. ~(x < Square((r - 1) + 1))
            BY <1>2, <3>1
        <3>3. Square(r) \in Nat
            BY <1>3, SquareGrows
        <3> QED BY <1>3, <3>1, <3>2, <3>3
    <2> QED BY <2>1, <2>2
<1>5. \E s \in Percent : Square(s) <= x /\ x < Square(s + 1)
    BY <1>3, <1>4 DEF Percent
<1>6. Sqrt(x) = CHOOSE s \in Percent : Square(s) <= x /\ x < Square(s + 1)
    BY PercentIs DEF Sqrt, Square
<1> QED BY <1>5, <1>6

LEMMA Root4Is ==
    ASSUME NEW x \in 0..Cap
    PROVE  Root4(x) \in Percent /\ Fourth(Root4(x)) <= x /\ x < Fourth(Root4(x) + 1)
<1> DEFINE U == {r \in Nat : x < Fourth(r + 1)}
<1>0. Cap \in Nat /\ Cap < Fourth(101) /\ 100 + 1 = 101
    BY CapIs
<1>1. 100 \in U /\ U \in SUBSET Nat /\ U # {}
    <2>1. Fourth(101) \in Nat
        BY FourthGrows
    <2>2. x < Fourth(101)
        BY <1>0, <2>1
    <2> QED BY <1>0, <2>2, ZenonT(60)
<1>2. PICK r \in U : \A y \in U : r <= y
    BY <1>1, LeastNat, Zenon
<1>3. r \in Nat /\ r <= 100 /\ x < Fourth(r + 1) /\ x \in Nat
    BY <1>0, <1>1, <1>2
<1>4. Fourth(r) <= x
    <2>1. CASE r = 0
        BY <1>3, <2>1 DEF Fourth
    <2>2. CASE r # 0
        <3>1. r - 1 \in Nat /\ ~(r <= r - 1) /\ (r - 1) + 1 = r
            BY <1>3, <2>2
        <3>2. ~(x < Fourth((r - 1) + 1))
            BY <1>2, <3>1
        <3>3. Fourth(r) \in Nat
            BY <1>3, FourthGrows
        <3> QED BY <1>3, <3>1, <3>2, <3>3
    <2> QED BY <2>1, <2>2
<1>5. \E s \in Percent : Fourth(s) <= x /\ x < Fourth(s + 1)
    BY <1>3, <1>4 DEF Percent
<1>6. Root4(x) = CHOOSE s \in Percent : Fourth(s) <= x /\ x < Fourth(s + 1)
    <2>1. \A s \in Percent : /\ s * s * s * s = Fourth(s)
                             /\ (s + 1) * (s + 1) * (s + 1) * (s + 1) = Fourth(s + 1)
        BY DEF Fourth, Percent
    <2> QED BY <2>1, PercentIs DEF Root4
<1> QED BY <1>5, <1>6

(* The roots keep order.                                                    *)
LEMMA SqrtGrows ==
    ASSUME NEW x \in 0..Square(100), NEW y \in 0..Square(100), x <= y
    PROVE  Sqrt(x) <= Sqrt(y)
<1>0. x \in Int /\ y \in Int
    OBVIOUS
<1>1. /\ Sqrt(x) \in Percent /\ Square(Sqrt(x)) <= x
      /\ Sqrt(y) \in Percent /\ y < Square(Sqrt(y) + 1)
    BY SqrtIs
<1>2. ASSUME Sqrt(y) < Sqrt(x) PROVE FALSE
    <2>1. Sqrt(y) + 1 \in Nat /\ Sqrt(x) \in Nat /\ Sqrt(y) + 1 <= Sqrt(x)
        BY <1>1, <1>2 DEF Percent
    <2>2. /\ Square(Sqrt(y) + 1) <= Square(Sqrt(x))
          /\ Square(Sqrt(y) + 1) \in Nat /\ Square(Sqrt(x)) \in Nat
        BY <2>1, SquareGrows
    <2> QED BY <1>0, <1>1, <2>2
<1> QED BY <1>1, <1>2 DEF Percent

LEMMA Root4Grows ==
    ASSUME NEW x \in 0..Cap, NEW y \in 0..Cap, x <= y
    PROVE  Root4(x) <= Root4(y)
<1>0. x \in Int /\ y \in Int
    OBVIOUS
<1>1. /\ Root4(x) \in Percent /\ Fourth(Root4(x)) <= x
      /\ Root4(y) \in Percent /\ y < Fourth(Root4(y) + 1)
    BY Root4Is
<1>2. ASSUME Root4(y) < Root4(x) PROVE FALSE
    <2>1. Root4(y) + 1 \in Nat /\ Root4(x) \in Nat /\ Root4(y) + 1 <= Root4(x)
        BY <1>1, <1>2 DEF Percent
    <2>2. /\ Fourth(Root4(y) + 1) <= Fourth(Root4(x))
          /\ Fourth(Root4(y) + 1) \in Nat /\ Fourth(Root4(x)) \in Nat
        BY <2>1, FourthGrows
    <2> QED BY <1>0, <1>1, <2>2
<1> QED BY <1>1, <1>2 DEF Percent

(* The floor of a factor keeps order, and a factor within 0..100.           *)
LEMMA FlooredIs ==
    ASSUME NEW x \in Int
    PROVE  Floored(x) = IF x >= 2 THEN x ELSE 2
<1> DEFINE m == IF x >= 2 THEN x ELSE 2
<1>1. m \in {x, 2} /\ \A y \in {x, 2} : m >= y
    OBVIOUS
<1>2. \A z \in {x, 2} : (\A y \in {x, 2} : z >= y) => z = m
    OBVIOUS
<1>3. Max({x, 2}) = m
    BY <1>1, <1>2, SMTT(30) DEF Max
<1> QED BY <1>3 DEF Floored, Floor
-------------------------------------------------------------------------------
(* What the twin's assumption says, one fact at a time.                     *)
LEMMA TwinIs ==
    /\ IsFiniteSet(Twin.nodes)
    /\ NoNode \notin Twin.nodes
    /\ Twin.edges \subseteq Twin.nodes \X Twin.nodes
BY TwinAssumption, ZenonT(30)

(* Within counts hops: the ball of 0 hops is the node, and each hop adds    *)
(* the successors; on the twin it never leaves the nodes.                   *)
LEMMA BallIs ==
    ASSUME NEW n \in Twin.nodes
    PROVE  LET N == Cardinality(Twin.nodes)
               B == Within(Twin, n)
           IN /\ N \in Nat
              /\ B \in [0..N -> SUBSET Twin.nodes]
              /\ B[0] = {n}
              /\ \A k \in 1..N : B[k] = B[k - 1] \cup Successors(Twin, B[k - 1])
<1> DEFINE N == Cardinality(Twin.nodes)
           D == SUBSET Twin.nodes
           B == Within(Twin, n)
           step == [S \in D |-> S \cup Successors(Twin, S)]
<1>1. N \in Nat
    BY TwinIs, FS_CardinalityType
<1>2. \A S \in D : Successors(Twin, S) \in D
    BY TwinIs DEF Successors
<1>3. step \in [D -> D] /\ {n} \in D
    BY <1>2
<1>4. PICK f \in [0..N -> D] : \A k \in 0..N : f[k] = IF k = 0 THEN {n} ELSE step[f[k - 1]]
    <2> HIDE DEF step, D, N
    <2>1. \E f \in [0..N -> D] : Repeats(f, N, {n}, step)
        BY <1>1, <1>3, Iterates
    <2> QED BY <2>1 DEF Repeats
<1>5. f = [k \in 0..N |-> IF k = 0 THEN {n} ELSE f[k - 1] \cup Successors(Twin, f[k - 1])]
    <2>1. ASSUME NEW k \in 0..N
          PROVE f[k] = IF k = 0 THEN {n} ELSE f[k - 1] \cup Successors(Twin, f[k - 1])
        <3>1. k # 0 => k - 1 \in 0..N
            BY <1>1
        <3> QED BY <1>4, <3>1
    <2> HIDE DEF N, D, step
    <2> QED BY <2>1, <1>4
<1>6. B = [k \in 0..N |-> IF k = 0 THEN {n} ELSE B[k - 1] \cup Successors(Twin, B[k - 1])]
    BY <1>5, Zenon DEF Within
<1> HIDE DEF B
<1>7. B[0] = {n}
    BY <1>1, <1>6
<1>8. \A k \in 1..N : B[k] = B[k - 1] \cup Successors(Twin, B[k - 1])
    <2> SUFFICES ASSUME NEW k \in 1..N PROVE B[k] = B[k - 1] \cup Successors(Twin, B[k - 1])
        OBVIOUS
    <2>1. k \in 0..N /\ k # 0
        BY <1>1
    <2> QED BY <1>6, <2>1
<1>9. \A k \in 0..N : B[k] \in D
    <2> DEFINE T == {k \in 0..N : B[k] \in D}
    <2>1. 0 \in T
        BY <1>1, <1>3, <1>7
    <2>2. ASSUME NEW k \in 0..N, k \in T, k < N PROVE k + 1 \in T
        <3>1. k + 1 \in 1..N /\ k + 1 \in 0..N /\ (k + 1) - 1 = k
            BY <1>1, <2>2
        <3>2. B[k + 1] = B[k] \cup Successors(Twin, B[k])
            BY <1>8, <3>1
        <3> QED BY <1>2, <2>2, <3>1, <3>2
    <2> HIDE DEF T, D, N
    <2>3. \A k \in 0..N : k \in T
        BY <1>1, <2>1, <2>2, Climb
    <2> QED BY <2>3 DEF T
<1>10. B \in [0..N -> D]
    <2> HIDE DEF D, N
    <2> QED BY <1>6, <1>9
<1> QED BY <1>1, <1>7, <1>8, <1>10 DEF B

(* A blast radius is at most the rest of the network.                       *)
LEMMA BlastSize ==
    ASSUME NEW n \in Twin.nodes
    PROVE  Blasts[n].size \in Shares
<1> DEFINE N == Cardinality(Twin.nodes)
           affected == Within(Twin, n)[N] \ {n}
           c == Cardinality(affected)
           m == Max({N - 1, 1})
<1>1. MapToNode(Twin, n) = n /\ n # NoNode
    BY TwinIs DEF MapToNode
<1>2. Blasts[n].size = (c * 10000) \div m
    BY <1>1, SMTT(30) DEF Blasts, BlastRadius
<1>3. N \in Nat /\ affected \subseteq Twin.nodes \ {n}
    <2>1. N \in Nat /\ N \in 0..N
        BY BallIs
    <2> QED BY <2>1, BallIs
<1>4. c \in 0..(N - 1)
    <2>1. /\ IsFiniteSet(Twin.nodes \ {n})
          /\ Cardinality(Twin.nodes \ {n}) = N - 1
        BY TwinIs, FS_RemoveElement
    <2>2. IsFiniteSet(affected) /\ c <= N - 1 /\ c \in Nat
        <3> HIDE DEF affected, N
        <3> QED BY <1>3, <2>1, FS_Subset, FS_CardinalityType
    <2> QED BY <1>3, <2>2
<1>5. m = IF N - 1 >= 1 THEN N - 1 ELSE 1
    <2> HIDE DEF N
    <2> DEFINE w == IF N - 1 >= 1 THEN N - 1 ELSE 1
    <2>1. w \in {N - 1, 1} /\ \A y \in {N - 1, 1} : w >= y
        BY <1>3
    <2>2. \A z \in {N - 1, 1} : (\A y \in {N - 1, 1} : z >= y) => z = w
        BY <1>3
    <2> QED BY <2>1, <2>2 DEF Max
<1> HIDE DEF c, m, N
<1>6. m \in Nat \ {0} /\ c <= m /\ c \in Nat
    BY <1>3, <1>4, <1>5
<1> DEFINE most == 10000
<1>7. m * 0 <= c * most /\ c * most <= m * most /\ c * most \in Int /\ most \in Nat
    BY <1>6
<1> HIDE DEF most
<1>8. (c * most) \div m \in 0..most
    BY <1>6, <1>7, QuotientBetween
<1>9. (c * most) \div m \in Shares
    <2>1. (c * most) \div m \in Nat /\ (c * most) \div m <= most
        BY <1>7, <1>8
    <2> QED BY <2>1 DEF most, Shares
<1> QED BY <1>2, <1>9 DEF most
-------------------------------------------------------------------------------
(* The product of four factors of at most 100 is within the cap, and grows  *)
(* with each of them.                                                       *)
Product(a, b, c, d) == a * b * c * d

LEMMA FourGrow ==
    ASSUME NEW k \in Nat, NEW l \in Nat, NEW m \in Nat, NEW n \in Nat,
           NEW o \in Nat, NEW p \in Nat, NEW q \in Nat, NEW r \in Nat,
           k <= o, l <= p, m <= q, n <= r
    PROVE  /\ Product(k, l, m, n) \in Nat
           /\ Product(o, p, q, r) \in Nat
           /\ Product(k, l, m, n) <= Product(o, p, q, r)
<1>1. k * l <= o * p /\ k * l \in Nat /\ o * p \in Nat
    BY ProductGrows
<1>2. (k * l) * m <= (o * p) * q /\ (k * l) * m \in Nat /\ (o * p) * q \in Nat
    BY <1>1, ProductGrows
<1>3. /\ ((k * l) * m) * n <= ((o * p) * q) * r
      /\ ((k * l) * m) * n \in Nat /\ ((o * p) * q) * r \in Nat
    BY <1>2, ProductGrows
<1> QED BY <1>3 DEF Product

LEMMA FullProduct == Product(100, 100, 100, 100) = Cap
<1>1. (100 * 100) * (100 * 100) = 100 * 100 * 100 * 100
    BY SMT
<1>2. Cap = (100 * 100) * (100 * 100)
    BY SMT DEF Cap, Fourth
<1>3. Product(100, 100, 100, 100) = 100 * 100 * 100 * 100
    BY SMT DEF Product
<1> QED BY <1>1, <1>2, <1>3, SMT

LEMMA FourFactors ==
    ASSUME NEW a \in Percent, NEW b \in Percent, NEW c \in Percent, NEW d \in Percent,
           NEW f \in Percent, NEW g \in Percent, NEW h \in Percent, NEW j \in Percent,
           a <= f, b <= g, c <= h, d <= j
    PROVE  /\ Product(a, b, c, d) \in 0..Cap
           /\ Product(f, g, h, j) \in 0..Cap
           /\ Product(a, b, c, d) <= Product(f, g, h, j)
<1>1. /\ a \in Nat /\ b \in Nat /\ c \in Nat /\ d \in Nat /\ 100 \in Nat
      /\ f \in Nat /\ g \in Nat /\ h \in Nat /\ j \in Nat
      /\ f <= 100 /\ g <= 100 /\ h <= 100 /\ j <= 100
    BY DEF Percent
<1>2. /\ Product(a, b, c, d) <= Product(f, g, h, j)
      /\ Product(a, b, c, d) \in Nat /\ Product(f, g, h, j) \in Nat
    BY <1>1, FourGrow
<1>3. Product(f, g, h, j) <= Product(100, 100, 100, 100)
    <2>1. ASSUME NEW e \in Nat, f <= e, g <= e, h <= e, j <= e
          PROVE  Product(f, g, h, j) <= Product(e, e, e, e)
        BY <1>1, <2>1, FourGrow
    <2> QED BY <1>1, <2>1
<1>4. Product(f, g, h, j) <= Cap /\ Cap \in Nat
    BY <1>3, FullProduct, CapIs
<1> QED BY <1>2, <1>4

(* What an incident of the queue is.                                        *)
Incident == [root : Twin.nodes, confidence : Percent, score : Percent,
             eta : Nat \cup {None}, severity : {"P1", "P2", "P3", "INFO"}]

(* One incident is at most as urgent as another in every factor of a score. *)
NoMoreUrgent(r, q) ==
    /\ r.confidence <= q.confidence
    /\ r.score <= q.score
    /\ Urgency(r.eta) <= Urgency(q.eta)
    /\ BlastFactor(r) <= BlastFactor(q)
    /\ AssetCriticality(r) <= AssetCriticality(q)

(* Criticality and its share of 100.                                        *)
LEMMA CriticalityIs == \A n \in Twin.nodes : Twin.attr[n].crit \in Shares
BY TwinAssumption DEF Shares

LEMMA ShareOf ==
    ASSUME NEW x \in Shares
    PROVE  x \div 100 \in Percent
BY SMT DEF Shares, Percent

LEMMA SharesGrow ==
    ASSUME NEW x \in Shares, NEW y \in Shares, x >= y
    PROVE  y \div 100 <= x \div 100
BY QuotientGrows DEF Shares

LEMMA SquareOfShares ==
    ASSUME NEW x \in Percent, NEW y \in Percent
    PROVE  x * y \in 0..Square(100)
<1>1. x \in Nat /\ y \in Nat /\ 100 \in Nat /\ x <= 100 /\ y <= 100
    BY DEF Percent
<1>2. x * y \in Nat /\ x * y <= 100 * 100 /\ 100 * 100 \in Nat
    BY <1>1, ProductGrows
<1>3. x * y \in Nat /\ x * y <= Square(100) /\ Square(100) \in Nat
    BY <1>2 DEF Square
<1> QED BY <1>3

(* Each factor is a share of 100.                                           *)
LEMMA FactorRanges ==
    ASSUME NEW r \in Incident
    PROVE  /\ Urgency(r.eta) \in Percent
           /\ BlastFactor(r) \in Percent
           /\ AssetCriticality(r) \in Percent
           /\ AnomalyConfidence(r) \in Percent
<1>0. /\ r.root \in Twin.nodes /\ r.confidence \in Percent /\ r.score \in Percent
      /\ r.eta \in Nat \cup {None}
    BY DEF Incident
<1>1. Urgency(r.eta) \in Percent
    <2>1. CASE r.eta = None
        BY <2>1 DEF Urgency, Percent
    <2>2. CASE r.eta # None
        <3>1. r.eta \in Nat /\ 1 + r.eta \in Nat \ {0}
            BY <1>0, <2>2
        <3> DEFINE k == 1 + r.eta
        <3>2. k * 0 <= 100 /\ 100 <= k * 100 /\ k \in Nat \ {0}
            BY <3>1
        <3> HIDE DEF k
        <3>3. 100 \div k \in Percent
            <4>1. 0 <= 100 \div k /\ 100 \div k <= 100 /\ 100 \div k \in Int
                BY <3>2, SMT
            <4> QED BY <4>1 DEF Percent
        <3> QED BY <2>2, <3>3 DEF Urgency, k
    <2> QED BY <2>1, <2>2
<1>2. BlastFactor(r) \in Percent
    <2>1. Blasts[r.root].size \in Shares
        BY <1>0, BlastSize
    <2> QED BY <2>1, ShareOf DEF BlastFactor
<1>3. AssetCriticality(r) \in Percent
    <2>1. Criticality(Twin, r.root) = Twin.attr[r.root].crit
        BY <1>0 DEF Criticality
    <2>2. Criticality(Twin, r.root) \in Shares
        BY <1>0, <2>1, CriticalityIs, Zenon
    <2> QED BY <2>2, ShareOf DEF AssetCriticality
<1>4. AnomalyConfidence(r) \in Percent
    <2>1. r.confidence * r.score \in 0..Square(100)
        BY <1>0, SquareOfShares
    <2>2. Sqrt(r.confidence * r.score) \in Percent
        BY <2>1, SqrtIs
    <2>3. (r.confidence + Sqrt(r.confidence * r.score)) \div 2 \in Percent
        BY <1>0, <2>2 DEF Percent
    <2> QED BY <2>3, FlooredIs DEF AnomalyConfidence, Percent
<1> QED BY <1>1, <1>2, <1>3, <1>4

(* The confidence factor grows with both of what it averages.               *)
LEMMA AnomalyGrows ==
    ASSUME NEW r \in Incident, NEW q \in Incident,
           r.confidence <= q.confidence, r.score <= q.score
    PROVE  AnomalyConfidence(r) <= AnomalyConfidence(q)
<1>0. /\ r.confidence \in Percent /\ r.score \in Percent
      /\ q.confidence \in Percent /\ q.score \in Percent
    BY DEF Incident
<1> DEFINE x == r.confidence * r.score
           y == q.confidence * q.score
<1>1. x \in 0..Square(100) /\ y \in 0..Square(100) /\ x <= y
    <2>1. x \in 0..Square(100) /\ y \in 0..Square(100)
        BY <1>0, SquareOfShares
    <2>2. /\ r.confidence \in Nat /\ r.score \in Nat
          /\ q.confidence \in Nat /\ q.score \in Nat
        BY <1>0 DEF Percent
    <2> QED BY <2>1, <2>2, ProductGrows
<1>2. Sqrt(x) <= Sqrt(y) /\ Sqrt(x) \in Percent /\ Sqrt(y) \in Percent
    <2> HIDE DEF x, y
    <2> QED BY <1>1, SqrtIs, SqrtGrows
<1>3. /\ (r.confidence + Sqrt(x)) \div 2 <= (q.confidence + Sqrt(y)) \div 2
      /\ (r.confidence + Sqrt(x)) \div 2 \in Int /\ (q.confidence + Sqrt(y)) \div 2 \in Int
    <2> HIDE DEF x, y
    <2>1. /\ r.confidence + Sqrt(x) \in Int /\ q.confidence + Sqrt(y) \in Int
          /\ r.confidence + Sqrt(x) <= q.confidence + Sqrt(y)
        BY <1>0, <1>2 DEF Percent
    <2> QED BY <2>1, QuotientGrows
<1> QED BY <1>3, FlooredIs DEF AnomalyConfidence

(* Rounding keeps order, and what is at most h multiples of the digit.      *)
LEMMA RoundedGrows ==
    ASSUME NEW x \in Nat, NEW y \in Nat, NEW d \in Nat \ {0}, NEW h \in Nat, x <= y, y <= d * h
    PROVE  /\ Rounded(x, d) \in 0..h
           /\ Rounded(y, d) \in 0..h
           /\ Rounded(x, d) <= Rounded(y, d)
<1> DEFINE m == d \div 2
<1>1. m \in Nat /\ m < d
    BY SMT
<1>2. Rounded(x, d) = (x + m) \div d /\ Rounded(y, d) = (y + m) \div d
    BY DEF Rounded
<1> HIDE DEF m
<1>3. x + m \in Int /\ y + m \in Int /\ x + m <= y + m
    BY <1>1
<1>4. (x + m) \div d <= (y + m) \div d /\ (x + m) \div d \in Int /\ (y + m) \div d \in Int
    BY <1>3, QuotientGrows
<1>5. 0 <= (x + m) \div d
    <2>1. 0 <= x + m
        BY <1>1
    <2> QED BY <1>3, <2>1, SMT
<1>6. (y + m) \div d <= h
    <2> DEFINE z == (y + m) \div d
    <2>1. z \in Int /\ d * z <= y + m
        BY <1>3, SMT
    <2> HIDE DEF z
    <2>2. ASSUME z > h PROVE FALSE
        <3>1. d * (h + 1) <= d * z
            <4>1. d * (z - (h + 1)) >= 0
                BY <2>1, <2>2
            <4> QED BY <2>1, <4>1
        <3>2. d * (h + 1) = d * h + d
            OBVIOUS
        <3>3. d * h \in Int /\ d * z \in Int
            BY <2>1
        <3> QED BY <1>1, <2>1, <3>1, <3>2, <3>3
    <2> QED BY <2>1, <2>2 DEF z
<1> QED BY <1>2, <1>4, <1>5, <1>6

(* The product, rounded, is at most a million, and keeps the order.         *)
Million == 100 * 100 * 100

LEMMA MillionIs == Cap = 100 * Million /\ Million \in Nat
<1>1. (100 * 100) * (100 * 100) = 100 * (100 * 100 * 100) /\ 100 * 100 * 100 \in Nat
    BY SMT
<1>2. Cap = (100 * 100) * (100 * 100)
    BY SMT DEF Cap, Fourth
<1>3. Million = 100 * 100 * 100
    BY SMT DEF Million
<1> QED BY <1>1, <1>2, <1>3, SMT

LEMMA RawGrows ==
    ASSUME NEW x \in 0..Cap, NEW y \in 0..Cap, x <= y
    PROVE  /\ 100 * Rounded(x, 100) \in 0..Cap
           /\ 100 * Rounded(y, 100) \in 0..Cap
           /\ 100 * Rounded(x, 100) <= 100 * Rounded(y, 100)
<1>1. Cap = 100 * Million /\ Million \in Nat
    BY MillionIs
<1>2. x \in Nat /\ y \in Nat /\ 100 \in Nat \ {0} /\ y <= 100 * Million
    BY <1>1
<1> DEFINE p == Rounded(x, 100)
           q == Rounded(y, 100)
<1>3. p \in 0..Million /\ q \in 0..Million /\ p <= q
    BY <1>1, <1>2, RoundedGrows
<1> HIDE DEF p, q
<1>4. 100 * p \in 0..Cap /\ 100 * q \in 0..Cap /\ 100 * p <= 100 * q
    BY <1>1, <1>3
<1> QED BY <1>4 DEF p, q

(* The score of an incident is a share of 100 and keeps the order of its    *)
(* factors, floors, rounding and roots included.                            *)
LEMMA GeometricMeanGrows ==
    ASSUME NEW r \in Incident, NEW q \in Incident, NoMoreUrgent(r, q)
    PROVE  /\ GeometricMean(r) \in Percent
           /\ GeometricMean(q) \in Percent
           /\ GeometricMean(r) <= GeometricMean(q)
<1> DEFINE a == AnomalyConfidence(r)
           b == Floored(Urgency(r.eta))
           c == Floored(BlastFactor(r))
           d == Floored(AssetCriticality(r))
           f == AnomalyConfidence(q)
           g == Floored(Urgency(q.eta))
           h == Floored(BlastFactor(q))
           j == Floored(AssetCriticality(q))
<1>1. a \in Percent /\ f \in Percent /\ a <= f
    BY FactorRanges, AnomalyGrows DEF NoMoreUrgent
<1>2. b \in Percent /\ g \in Percent /\ b <= g
    BY FactorRanges, FlooredIs DEF NoMoreUrgent, Percent
<1>3. c \in Percent /\ h \in Percent /\ c <= h
    BY FactorRanges, FlooredIs DEF NoMoreUrgent, Percent
<1>4. d \in Percent /\ j \in Percent /\ d <= j
    BY FactorRanges, FlooredIs DEF NoMoreUrgent, Percent
<1>5. /\ GeometricMean(r) = Root4(100 * Rounded(Product(a, b, c, d), 100))
      /\ GeometricMean(q) = Root4(100 * Rounded(Product(f, g, h, j), 100))
    BY Zenon DEF GeometricMean, RawScore, Product
<1> HIDE DEF a, b, c, d, f, g, h, j
<1> DEFINE x == Product(a, b, c, d)
           y == Product(f, g, h, j)
<1>6. x \in 0..Cap /\ y \in 0..Cap /\ x <= y
    BY <1>1, <1>2, <1>3, <1>4, FourFactors
<1> HIDE DEF x, y
<1> DEFINE p == 100 * Rounded(x, 100)
           m == 100 * Rounded(y, 100)
<1>7. p \in 0..Cap /\ m \in 0..Cap /\ p <= m
    BY <1>6, RawGrows
<1> HIDE DEF p, m
<1>8. Root4(p) \in Percent /\ Root4(m) \in Percent /\ Root4(p) <= Root4(m)
    BY <1>7, Root4Is, Root4Grows
<1> QED BY <1>5, <1>8 DEF x, y, p, m

LEMMA GeometricMeanRange ==
    ASSUME NEW r \in Incident
    PROVE  GeometricMean(r) \in Percent
<1>1. r.confidence \in Int /\ r.score \in Int
    BY DEF Incident, Percent
<1>2. NoMoreUrgent(r, r)
    BY <1>1, FactorRanges DEF NoMoreUrgent, Percent
<1> QED BY <1>2, GeometricMeanGrows
-------------------------------------------------------------------------------
(* A block of pooled samples, whose mean is a share of 1, and the indices   *)
(* whose block has a greater mean than the next.                            *)
Block == {b \in [sum : Nat, n : Nat \ {0}, x : Int] : b.sum <= b.n}

Falls(blocks, i) == blocks[i].sum * blocks[i + 1].n > blocks[i + 1].sum * blocks[i].n

Bad(blocks) == {i \in 1..(Len(blocks) - 1) : Falls(blocks, i)}

(* What an isotonic fit looks like.                                         *)
Calibrated(blocks) == blocks \in Seq(Block) /\ Bad(blocks) = {}

(* Two blocks pool into one.                                                *)
LEMMA PoolIs ==
    ASSUME NEW b \in Block, NEW c \in Block
    PROVE  [sum |-> b.sum + c.sum, n |-> b.n + c.n, x |-> b.x] \in Block
<1>1. /\ b.sum \in Nat /\ b.n \in Nat \ {0} /\ b.x \in Int /\ b.sum <= b.n
      /\ c.sum \in Nat /\ c.n \in Nat \ {0} /\ c.sum <= c.n
    BY DEF Block
<1> DEFINE p == b.sum + c.sum
           q == b.n + c.n
           m == [sum |-> p, n |-> q, x |-> b.x]
<1>2. p \in Nat /\ q \in Nat \ {0} /\ p <= q
    BY <1>1
<1> HIDE DEF p, q
<1>3. m \in [sum : Nat, n : Nat \ {0}, x : Int] /\ m.sum <= m.n
    BY <1>1, <1>2
<1> HIDE DEF m
<1>4. m \in Block
    BY <1>3 DEF Block
<1> QED BY <1>4 DEF m, p, q

(* One merge pools two blocks into one, or there is none to make.           *)
LEMMA PooledOnceIs ==
    ASSUME NEW blocks \in Seq(Block)
    PROVE  /\ PooledOnce(blocks) \in Seq(Block)
           /\ Bad(blocks) = {} => PooledOnce(blocks) = blocks
           /\ Bad(blocks) # {} => /\ Len(PooledOnce(blocks)) = Len(blocks) - 1
                                  /\ Len(blocks) >= 2
<1>1. CASE Bad(blocks) = {}
    BY <1>1, Zenon DEF PooledOnce, Bad, Falls
<1>2. CASE Bad(blocks) # {}
    <2> DEFINE i == Min(Bad(blocks))
               m == [sum |-> blocks[i].sum + blocks[i + 1].sum,
                     n   |-> blocks[i].n + blocks[i + 1].n, x |-> blocks[i].x]
    <2>1. PooledOnce(blocks) = SubSeq(blocks, 1, i - 1) \o <<m>> \o SubSeq(blocks, i + 2, Len(blocks))
        BY <1>2, Zenon DEF PooledOnce, Bad, Falls
    <2>2. i \in 1..(Len(blocks) - 1) /\ Len(blocks) \in Nat
        <3>1. Bad(blocks) \in SUBSET Nat /\ Bad(blocks) \subseteq 1..(Len(blocks) - 1)
            BY DEF Bad
        <3>2. i \in Bad(blocks)
            BY <1>2, <3>1, MinOf
        <3> QED BY <3>1, <3>2
    <2> HIDE DEF i
    <2>3. blocks[i] \in Block /\ blocks[i + 1] \in Block
        BY <2>2
    <2>4. m \in Block
        BY <2>3, PoolIs
    <2> HIDE DEF m
    <2>5. /\ SubSeq(blocks, 1, i - 1) \in Seq(Block)
          /\ Len(SubSeq(blocks, 1, i - 1)) = i - 1
        BY <2>2
    <2>6. /\ SubSeq(blocks, i + 2, Len(blocks)) \in Seq(Block)
          /\ Len(SubSeq(blocks, i + 2, Len(blocks))) = Len(blocks) - (i + 1)
        BY <2>2
    <2>7. PooledOnce(blocks) \in Seq(Block) /\ Len(PooledOnce(blocks)) = Len(blocks) - 1
        <3> DEFINE left  == SubSeq(blocks, 1, i - 1)
                   right == SubSeq(blocks, i + 2, Len(blocks))
        <3> HIDE DEF left, right
        <3>1. left \in Seq(Block) /\ Len(left) = i - 1
            BY <2>5 DEF left
        <3>2. right \in Seq(Block) /\ Len(right) = Len(blocks) - (i + 1)
            BY <2>6 DEF right
        <3>3. <<m>> \in Seq(Block) /\ Len(<<m>>) = 1
            BY <2>4
        <3>4. left \o <<m>> \in Seq(Block) /\ Len(left \o <<m>>) = i
            BY <2>2, <3>1, <3>3
        <3>5. /\ left \o <<m>> \o right \in Seq(Block)
              /\ Len(left \o <<m>> \o right) = Len(blocks) - 1
            <4> DEFINE most == left \o <<m>>
            <4> HIDE DEF most
            <4>1. most \in Seq(Block) /\ Len(most) = i
                BY <3>4 DEF most
            <4>2. most \o right \in Seq(Block) /\ Len(most \o right) = Len(most) + Len(right)
                BY <3>2, <4>1
            <4>3. Len(most \o right) = Len(blocks) - 1
                BY <2>2, <3>2, <4>1, <4>2
            <4> QED BY <4>2, <4>3 DEF most
        <3> QED BY <2>1, <3>5 DEF left, right
    <2>8. Len(blocks) >= 2
        BY <2>2
    <2> QED BY <1>2, <2>7, <2>8
<1> QED BY <1>1, <1>2

LEMMA SampleIs ==
    ASSUME NEW R, NEW s \in Seq(R), NEW i \in DOMAIN s
    PROVE  s[i] \in R
OBVIOUS

(* As many merges as there are samples leave no block above the next, and   *)
(* some block.                                                              *)
LEMMA FitIsCalibrated ==
    ASSUME NEW s \in Samples, DOMAIN s # {}
    PROVE  Calibrated(IsotonicFit(s)) /\ Len(IsotonicFit(s)) > 0
<1> DEFINE N     == Len(s)
           start == [i \in DOMAIN s |-> [sum |-> s[i].label, n |-> 1, x |-> s[i].score]]
           D     == Seq(Block)
           step  == [b \in D |-> PooledOnce(b)]
           F     == CHOOSE f : f = [k \in 0..N |-> IF k = 0 THEN start ELSE PooledOnce(f[k - 1])]
<1>1. s \in Seq([score : Int, label : {0, 1}]) /\ N \in Nat /\ N > 0
    BY SampleAssumption
<1>2. start \in D /\ Len(start) = N
    <2>1. ASSUME NEW i \in DOMAIN s PROVE start[i] \in Block
        <3>1. s[i].label \in {0, 1} /\ s[i].score \in Int
            <4>1. s[i] \in [score : Int, label : {0, 1}]
                BY <1>1, SampleIs
            <4> QED BY <4>1
        <3> DEFINE b == [sum |-> s[i].label, n |-> 1, x |-> s[i].score]
        <3>2. b \in [sum : Nat, n : Nat \ {0}, x : Int] /\ b.sum <= b.n
            BY <3>1
        <3>3. start[i] = b
            OBVIOUS
        <3> HIDE DEF b, start
        <3> QED BY <3>2, <3>3 DEF Block
    <2>2. DOMAIN s = 1..N
        BY <1>1
    <2> QED BY <1>1, <2>1, <2>2
<1>3. IsotonicFit(s) = F[N]
    BY Zenon DEF IsotonicFit
<1>4. step \in [D -> D]
    BY PooledOnceIs
<1> HIDE DEF N, start
<1>5. PICK f \in [0..N -> D] : \A k \in 0..N : f[k] = IF k = 0 THEN start ELSE step[f[k - 1]]
    <2> HIDE DEF step, D
    <2>1. \E f \in [0..N -> D] : Repeats(f, N, start, step)
        BY <1>1, <1>2, <1>4, Iterates
    <2> QED BY <2>1 DEF Repeats
<1>6. f = [k \in 0..N |-> IF k = 0 THEN start ELSE PooledOnce(f[k - 1])]
    <2>1. ASSUME NEW k \in 0..N
          PROVE f[k] = IF k = 0 THEN start ELSE PooledOnce(f[k - 1])
        <3>1. k # 0 => k - 1 \in 0..N
            BY <1>1
        <3>2. k # 0 => f[k - 1] \in D
            BY <1>5, <3>1
        <3> QED BY <1>5, <3>2
    <2> HIDE DEF D, step
    <2> QED BY <2>1, <1>5
<1>7. F = [k \in 0..N |-> IF k = 0 THEN start ELSE PooledOnce(F[k - 1])]
    BY <1>6, Zenon
<1> HIDE DEF F
<1> DEFINE T == {k \in 0..N : /\ F[k] \in D
                              /\ Len(F[k]) > 0
                              /\ Bad(F[k]) = {} \/ Len(F[k]) = N - k}
<1>8. 0 \in T
    BY <1>1, <1>2, <1>7
<1>9. ASSUME NEW k \in 0..N, k \in T, k < N PROVE k + 1 \in T
    <2>1. k + 1 \in 0..N /\ k + 1 # 0 /\ (k + 1) - 1 = k
        BY <1>1, <1>9
    <2>2. F[k + 1] = PooledOnce(F[k])
        BY <1>7, <2>1
    <2>3. F[k] \in Seq(Block) /\ Len(F[k]) > 0
        BY <1>9
    <2>4. /\ F[k + 1] \in Seq(Block)
          /\ Bad(F[k]) = {} => F[k + 1] = F[k]
          /\ Bad(F[k]) # {} => Len(F[k + 1]) = Len(F[k]) - 1 /\ Len(F[k]) >= 2
        BY <2>2, <2>3, PooledOnceIs
    <2>5. CASE Bad(F[k]) = {}
        BY <2>1, <2>3, <2>4, <2>5
    <2>6. CASE Bad(F[k]) # {}
        <3>1. Len(F[k]) = N - k
            BY <1>9, <2>6
        <3>2. Len(F[k + 1]) = N - (k + 1)
            BY <1>1, <2>4, <2>6, <3>1
        <3>3. Len(F[k + 1]) > 0
            BY <2>3, <2>4, <2>6
        <3> QED BY <2>1, <2>4, <3>2, <3>3
    <2> QED BY <2>5, <2>6
<1>10. N \in T
    <2>1. \A k \in 0..N : k \in T
        <3> HIDE DEF T
        <3> QED BY <1>1, <1>8, <1>9, Climb
    <2>2. N \in 0..N
        BY <1>1
    <2> HIDE DEF T
    <2> QED BY <2>1, <2>2
<1>11. F[N] \in Seq(Block) /\ Len(F[N]) > 0 /\ (Bad(F[N]) = {} \/ Len(F[N]) = N - N)
    BY <1>1, <1>10
<1>12. Bad(F[N]) = {}
    BY <1>1, <1>11
<1> QED BY <1>3, <1>11, <1>12 DEF Calibrated

(* A mean is a share of 1000, and it does not fall from block to block.     *)
LEMMA MeanRange ==
    ASSUME NEW b \in Block
    PROVE  MeanOf(b) \in Thousandths
<1>1. b.sum \in Nat /\ b.n \in Nat \ {0} /\ b.sum <= b.n
    BY DEF Block
<1> DEFINE a == b.sum
           k == b.n
<1> HIDE DEF a, k
<1>2. a \in Nat /\ k \in Nat \ {0} /\ a <= k
    BY <1>1 DEF a, k
<1> DEFINE most == 1000
<1>3. most \in Nat
    OBVIOUS
<1>4. MeanOf(b) = (most * a) \div k /\ Thousandths = {x \in Nat : x <= most}
    BY SMT DEF MeanOf, Thousandths, a, k
<1> HIDE DEF most
<1>5. most \in Int /\ k * 0 <= most * a /\ most * a <= k * most /\ most * a \in Int
    BY <1>2, <1>3
<1>6. (most * a) \div k \in 0..most
    BY <1>2, <1>5, QuotientBetween
<1> QED BY <1>3, <1>4, <1>6

LEMMA MeanGrows ==
    ASSUME NEW b \in Block, NEW c \in Block, ~(b.sum * c.n > c.sum * b.n)
    PROVE  MeanOf(b) <= MeanOf(c)
<1>1. /\ b.sum \in Nat /\ b.n \in Nat \ {0} /\ c.sum \in Nat /\ c.n \in Nat \ {0}
      /\ b.sum * c.n <= c.sum * b.n
    BY DEF Block
<1>2. ASSUME NEW p \in Nat, NEW q \in Nat \ {0}, NEW r \in Nat, NEW s \in Nat \ {0}, NEW m \in Nat,
             p * s <= r * q
      PROVE  (m * p) \div q <= (m * r) \div s
    <2> DEFINE z == (m * p) \div q
    <2>1. z \in Int /\ z * q <= m * p
        BY SMT
    <2> HIDE DEF z
    <2>2. z * q * s <= m * p * s
        <3>1. (m * p - z * q) * s >= 0
            BY <2>1
        <3> QED BY <2>1, <3>1
    <2>3. m * p * s <= m * r * q
        BY <1>2
    <2>4. (z * s) * q <= (m * r) * q
        BY <2>1, <2>2, <2>3
    <2>5. z * s <= m * r
        <3>1. ASSUME z * s > m * r PROVE FALSE
            <4>1. (z * s - m * r) * q > 0
                BY <2>1, <3>1
            <4> QED BY <2>1, <2>4, <4>1
        <3> QED BY <2>1, <3>1
    <2>6. s * z <= m * r
        BY <2>1, <2>5
    <2> QED BY <2>1, <2>6 DEF z
<1> DEFINE most == 1000
<1>3. most \in Nat
    OBVIOUS
<1>4. MeanOf(b) = (most * b.sum) \div b.n /\ MeanOf(c) = (most * c.sum) \div c.n
    BY Zenon DEF MeanOf
<1> HIDE DEF most
<1> QED BY <1>1, <1>2, <1>3, <1>4

LEMMA MeansGrow ==
    ASSUME NEW c, Calibrated(c), NEW i \in 1..Len(c), NEW j \in 1..Len(c), i <= j
    PROVE  MeanOf(c[i]) <= MeanOf(c[j])
<1>0. c \in Seq(Block) /\ Len(c) \in Nat /\ Bad(c) = {}
    BY DEF Calibrated
<1>1. \A k \in 1..Len(c) : c[k] \in Block /\ MeanOf(c[k]) \in Nat
    <2> SUFFICES ASSUME NEW k \in 1..Len(c) PROVE c[k] \in Block /\ MeanOf(c[k]) \in Nat
        OBVIOUS
    <2>1. c[k] \in Block
        BY <1>0
    <2> QED BY <2>1, MeanRange, SMT DEF Thousandths
<1>2. \A k \in 1..(Len(c) - 1) : MeanOf(c[k]) <= MeanOf(c[k + 1])
    <2> SUFFICES ASSUME NEW k \in 1..(Len(c) - 1) PROVE MeanOf(c[k]) <= MeanOf(c[k + 1])
        OBVIOUS
    <2>1. k \in 1..Len(c) /\ k + 1 \in 1..Len(c)
        BY <1>0
    <2>2. ~Falls(c, k)
        BY <1>0 DEF Bad
    <2>3. ~(c[k].sum * c[k + 1].n > c[k + 1].sum * c[k].n)
        BY <2>2 DEF Falls
    <2> QED BY <1>1, <2>1, <2>3, MeanGrows
<1> DEFINE N == j - i
           T == {k \in 0..N : MeanOf(c[i]) <= MeanOf(c[i + k])}
<1>3. N \in Nat /\ i + N = j
    BY <1>0
<1>4. 0 \in T
    <2>1. i + 0 = i /\ MeanOf(c[i]) \in Nat
        BY <1>0, <1>1
    <2> QED BY <1>3, <2>1
<1>5. ASSUME NEW k \in 0..N, k \in T, k < N PROVE k + 1 \in T
    <2>1. /\ i + k \in 1..(Len(c) - 1) /\ i + k \in 1..Len(c)
          /\ i + (k + 1) = (i + k) + 1 /\ (i + k) + 1 \in 1..Len(c)
          /\ k + 1 \in 0..N
        BY <1>0, <1>5
    <2>2. MeanOf(c[i]) <= MeanOf(c[i + k])
        BY <1>5
    <2>3. MeanOf(c[i + k]) <= MeanOf(c[(i + k) + 1])
        BY <1>2, <2>1
    <2>4. /\ MeanOf(c[i]) \in Nat /\ MeanOf(c[i + k]) \in Nat
          /\ MeanOf(c[(i + k) + 1]) \in Nat
        BY <1>1, <2>1
    <2> QED BY <2>1, <2>2, <2>3, <2>4
<1>6. N \in T
    <2>1. \A k \in 0..N : k \in T
        <3> HIDE DEF T, N
        <3> QED BY <1>3, <1>4, <1>5, Climb
    <2> QED BY <1>3, <2>1
<1> QED BY <1>3, <1>6
-------------------------------------------------------------------------------
(* Between two blocks np.interp stays between their means and rises.        *)
Between(low, high, at, from, to) == low + ((high - low) * (at - from)) \div (to - from)

LEMMA BetweenIs ==
    ASSUME NEW low \in Int, NEW high \in Int, NEW from \in Int, NEW to \in Int,
           NEW at \in Int, NEW later \in Int,
           low <= high, from <= at, at <= later, later < to
    PROVE  /\ Between(low, high, at, from, to) \in low..high
           /\ Between(low, high, later, from, to) \in low..high
           /\ Between(low, high, at, from, to) <= Between(low, high, later, from, to)
<1> DEFINE k == to - from
           m == high - low
           a == at - from
           b == later - from
<1>1. k \in Nat \ {0} /\ m \in Nat /\ a \in Nat /\ b \in Nat /\ a <= b /\ b <= k
    OBVIOUS
<1> HIDE DEF k, m, a, b
<1>2. m * a \in Nat /\ m * b \in Nat /\ m * k \in Nat /\ m * a <= m * b /\ m * b <= m * k
    <2>1. m <= m /\ a <= k /\ k \in Nat
        BY <1>1
    <2> QED BY <1>1, <2>1, ProductGrows
<1>3. /\ k * 0 <= m * a /\ m * a <= k * m /\ m * a \in Int
      /\ k * 0 <= m * b /\ m * b <= k * m /\ m * b \in Int
    BY <1>1, <1>2
<1>4. (m * a) \div k \in 0..m /\ (m * b) \div k \in 0..m
    BY <1>1, <1>3, QuotientBetween
<1>5. (m * a) \div k <= (m * b) \div k
    BY <1>1, <1>2, QuotientGrows
<1> DEFINE p == (m * a) \div k
           q == (m * b) \div k
<1>6. /\ Between(low, high, at, from, to) = low + p
      /\ Between(low, high, later, from, to) = low + q
    BY DEF Between, k, m, a, b
<1>7. p \in 0..m /\ q \in 0..m /\ p <= q
    BY <1>4, <1>5
<1> HIDE DEF p, q
<1>8. m = high - low
    BY DEF m
<1> QED BY <1>1, <1>6, <1>7, <1>8

(* The blocks at or below a score, and the last of them.                    *)
Left(c, s) == {i \in 1..Len(c) : c[i].x <= s}
At(c, s)   == Max(Left(c, s))

LEMMA AtIs ==
    ASSUME NEW c, Calibrated(c), Len(c) > 0, NEW s \in Int, Left(c, s) # {}
    PROVE  /\ At(c, s) \in 1..Len(c)
           /\ c[At(c, s)].x <= s
           /\ At(c, s) # Len(c) => /\ At(c, s) + 1 \in 1..Len(c)
                                   /\ s < c[At(c, s) + 1].x
           /\ \A j \in Left(c, s) : j <= At(c, s)
<1>0. c \in Seq(Block) /\ Len(c) \in Nat
    BY DEF Calibrated
<1>1. Left(c, s) \in SUBSET (0..Len(c))
    BY <1>0 DEF Left
<1>2. At(c, s) \in Left(c, s) /\ \A j \in Left(c, s) : j <= At(c, s)
    BY <1>0, <1>1, MaxOf DEF At
<1>3. At(c, s) \in 1..Len(c) /\ c[At(c, s)].x <= s
    BY <1>2 DEF Left
<1>4. ASSUME At(c, s) # Len(c)
      PROVE  At(c, s) + 1 \in 1..Len(c) /\ s < c[At(c, s) + 1].x
    <2>1. At(c, s) + 1 \in 1..Len(c) /\ ~(At(c, s) + 1 <= At(c, s))
        BY <1>0, <1>3, <1>4
    <2>2. At(c, s) + 1 \notin Left(c, s)
        BY <1>2, <2>1
    <2>3. c[At(c, s) + 1] \in Block
        BY <1>0, <2>1
    <2>4. c[At(c, s) + 1].x \in Int
        BY <2>3 DEF Block
    <2> QED BY <2>1, <2>2, <2>4 DEF Left
<1> QED BY <1>2, <1>3, <1>4

(* The three cases of np.interp, with the blocks they look at.               *)
LEMMA InterpolatedIs ==
    ASSUME NEW c, NEW s
    PROVE  /\ Left(c, s) = {} => Interpolated(c, s) = MeanOf(c[1])
           /\ Left(c, s) # {} /\ At(c, s) = Len(c) => Interpolated(c, s) = MeanOf(c[At(c, s)])
           /\ Left(c, s) # {} /\ At(c, s) # Len(c)
                => Interpolated(c, s) = Between(MeanOf(c[At(c, s)]), MeanOf(c[At(c, s) + 1]),
                                                s, c[At(c, s)].x, c[At(c, s) + 1].x)
<1>1. Interpolated(c, s) =
        CASE Left(c, s) = {} -> MeanOf(c[1])
          [] Left(c, s) # {} /\ At(c, s) = Len(c) -> MeanOf(c[At(c, s)])
          [] OTHER -> Between(MeanOf(c[At(c, s)]), MeanOf(c[At(c, s) + 1]),
                              s, c[At(c, s)].x, c[At(c, s) + 1].x)
    BY Zenon DEF Interpolated, Left, At, Between
<1> QED BY <1>1, Zenon

(* Where a score falls, its calibrated value lies between the block at or   *)
(* below it and the next.                                                   *)
LEMMA InterpolatedBetween ==
    ASSUME NEW c, Calibrated(c), Len(c) > 0, NEW s \in Int, Left(c, s) # {}
    PROVE  /\ Interpolated(c, s) \in Thousandths
           /\ MeanOf(c[At(c, s)]) \in Thousandths
           /\ MeanOf(c[At(c, s)]) <= Interpolated(c, s)
           /\ \A j \in 1..Len(c) : At(c, s) < j => Interpolated(c, s) <= MeanOf(c[j])
<1>0. c \in Seq(Block) /\ Len(c) \in Nat
    BY DEF Calibrated
<1>1. At(c, s) \in 1..Len(c)
    BY <1>0, AtIs
<1>2. \A j \in 1..Len(c) : /\ MeanOf(c[j]) \in Thousandths
                           /\ c[j].x \in Int
    <2> SUFFICES ASSUME NEW j \in 1..Len(c)
                 PROVE  MeanOf(c[j]) \in Thousandths /\ c[j].x \in Int
        OBVIOUS
    <2>1. c[j] \in Block
        BY <1>0
    <2> QED BY <2>1, MeanRange DEF Block
<1>3. CASE At(c, s) = Len(c)
    <2>1. Interpolated(c, s) = MeanOf(c[At(c, s)])
        BY <1>1, <1>3, InterpolatedIs
    <2> QED BY <1>0, <1>1, <1>2, <1>3, <2>1 DEF Thousandths
<1>4. CASE At(c, s) # Len(c)
    <2> DEFINE low  == MeanOf(c[At(c, s)])
               high == MeanOf(c[At(c, s) + 1])
               from == c[At(c, s)].x
               to   == c[At(c, s) + 1].x
    <2>1. Interpolated(c, s) = Between(low, high, s, from, to)
        BY <1>1, <1>4, InterpolatedIs
    <2>2. /\ At(c, s) + 1 \in 1..Len(c) /\ At(c, s) <= At(c, s) + 1
          /\ from <= s /\ s < to
        BY <1>1, <1>4, AtIs
    <2>3. /\ low \in Thousandths /\ high \in Thousandths /\ from \in Int /\ to \in Int
        BY <1>1, <1>2, <2>2
    <2>4. low <= high
        BY <1>1, <2>2, MeansGrow
    <2>5. \A j \in 1..Len(c) : At(c, s) < j => high <= MeanOf(c[j])
        <3> SUFFICES ASSUME NEW j \in 1..Len(c), At(c, s) < j
                     PROVE  high <= MeanOf(c[j])
            OBVIOUS
        <3>1. At(c, s) + 1 <= j
            BY <1>1
        <3> QED BY <2>2, <3>1, MeansGrow
    <2> HIDE DEF low, high, from, to
    <2>6. low \in Int /\ high \in Int /\ s <= s
        BY <2>3 DEF Thousandths
    <2>7. Between(low, high, s, from, to) \in low..high
        BY <2>2, <2>3, <2>4, <2>6, BetweenIs
    <2>8. Interpolated(c, s) \in Thousandths /\ low <= Interpolated(c, s) /\ Interpolated(c, s) <= high
        BY <2>1, <2>3, <2>7 DEF Thousandths
    <2>9. ASSUME NEW j \in 1..Len(c), At(c, s) < j
          PROVE  Interpolated(c, s) <= MeanOf(c[j])
        <3>1. high <= MeanOf(c[j]) /\ MeanOf(c[j]) \in Thousandths
            BY <1>2, <2>5, <2>9
        <3> QED BY <2>3, <2>8, <3>1 DEF Thousandths
    <2> QED BY <1>1, <2>3, <2>8, <2>9 DEF low
<1> QED BY <1>3, <1>4

(* An interpolated score is a share of 1000, and interpolation keeps order. *)
LEMMA InterpolatedGrows ==
    ASSUME NEW c, Calibrated(c), Len(c) > 0, NEW s \in Percent, NEW u \in Percent, s <= u
    PROVE  /\ Interpolated(c, s) \in Thousandths
           /\ Interpolated(c, u) \in Thousandths
           /\ Interpolated(c, s) <= Interpolated(c, u)
<1>0. /\ c \in Seq(Block) /\ Len(c) \in Nat
      /\ s \in Int /\ u \in Int
    BY DEF Calibrated, Percent
<1>1. \A j \in 1..Len(c) : /\ MeanOf(c[j]) \in Thousandths
                           /\ c[j].x \in Int
    <2> SUFFICES ASSUME NEW j \in 1..Len(c)
                 PROVE  MeanOf(c[j]) \in Thousandths /\ c[j].x \in Int
        OBVIOUS
    <2>1. c[j] \in Block
        BY <1>0
    <2> QED BY <2>1, MeanRange DEF Block
<1>2. 1 \in 1..Len(c)
    BY <1>0
<1>3. Left(c, s) \subseteq Left(c, u)
    BY <1>0, <1>1 DEF Left
<1>4. CASE Left(c, u) = {}
    <2>1. Interpolated(c, s) = MeanOf(c[1]) /\ Interpolated(c, u) = MeanOf(c[1])
        BY <1>0, <1>3, <1>4, InterpolatedIs
    <2> QED BY <1>1, <1>2, <2>1 DEF Thousandths
<1>5. CASE Left(c, u) # {} /\ Left(c, s) = {}
    <2>1. Interpolated(c, s) = MeanOf(c[1])
        BY <1>0, <1>5, InterpolatedIs
    <2>2. /\ Interpolated(c, u) \in Thousandths /\ MeanOf(c[At(c, u)]) \in Thousandths
          /\ MeanOf(c[At(c, u)]) <= Interpolated(c, u)
        BY <1>0, <1>5, InterpolatedBetween
    <2>3. At(c, u) \in 1..Len(c) /\ 1 <= At(c, u)
        BY <1>0, <1>5, AtIs
    <2>4. MeanOf(c[1]) <= MeanOf(c[At(c, u)])
        BY <1>2, <2>3, MeansGrow
    <2> QED BY <1>1, <1>2, <2>1, <2>2, <2>4 DEF Thousandths
<1>6. CASE Left(c, u) # {} /\ Left(c, s) # {}
    <2>1. /\ Interpolated(c, u) \in Thousandths /\ MeanOf(c[At(c, u)]) \in Thousandths
          /\ MeanOf(c[At(c, u)]) <= Interpolated(c, u)
        BY <1>0, <1>6, InterpolatedBetween
    <2>2. /\ Interpolated(c, s) \in Thousandths
          /\ \A j \in 1..Len(c) : At(c, s) < j => Interpolated(c, s) <= MeanOf(c[j])
        BY <1>0, <1>6, InterpolatedBetween
    <2>3. At(c, s) \in 1..Len(c) /\ At(c, u) \in 1..Len(c) /\ At(c, s) <= At(c, u)
        <3>1. At(c, s) \in Left(c, s)
            BY <1>0, <1>6, AtIs DEF Left
        <3> QED BY <1>0, <1>3, <1>6, <3>1, AtIs
    <2>4. CASE At(c, s) < At(c, u)
        BY <2>1, <2>2, <2>3, <2>4 DEF Thousandths
    <2>5. CASE At(c, s) = At(c, u) /\ At(c, s) = Len(c)
        <3>1. Interpolated(c, s) = MeanOf(c[At(c, s)])
            BY <1>0, <1>6, <2>5, InterpolatedIs
        <3> QED BY <2>1, <2>2, <2>5, <3>1
    <2>6. CASE At(c, s) = At(c, u) /\ At(c, s) # Len(c)
        <3> DEFINE i    == At(c, s)
                   low  == MeanOf(c[i])
                   high == MeanOf(c[i + 1])
                   from == c[i].x
                   to   == c[i + 1].x
        <3>1. Interpolated(c, s) = Between(low, high, s, from, to)
            BY <1>0, <1>6, <2>6, InterpolatedIs
        <3>2. Interpolated(c, u) = Between(low, high, u, from, to)
            BY <1>0, <1>6, <2>6, InterpolatedIs
        <3>3. /\ i \in 1..Len(c) /\ i + 1 \in 1..Len(c) /\ i <= i + 1
              /\ from <= s /\ u < to
            BY <1>0, <1>6, <2>6, AtIs
        <3>4. low \in Int /\ high \in Int /\ from \in Int /\ to \in Int
            BY <1>1, <3>3 DEF Thousandths
        <3>5. low <= high
            BY <3>3, MeansGrow
        <3> HIDE DEF low, high, from, to
        <3>6. from <= s /\ s <= u /\ u < to
            BY <3>3
        <3>7. Between(low, high, s, from, to) <= Between(low, high, u, from, to)
            BY <1>0, <3>4, <3>5, <3>6, BetweenIs
        <3> QED BY <2>1, <2>2, <3>1, <3>2, <3>7
    <2> QED BY <2>3, <2>4, <2>5, <2>6
<1> QED BY <1>4, <1>5, <1>6

(* What fitting an isotonic calibrator comes to is a rising curve, whatever *)
(* the samples, if there are any.                                           *)
LEMMA IsotonicRises ==
    ASSUME NEW m \in Samples, DOMAIN m # {}
    PROVE  Isotonic[m] \in [Percents -> 0..1000] /\ Rising(Isotonic[m])
<1> DEFINE c == IsotonicFit(m)
           curve == Isotonic[m]
<1>1. Calibrated(c) /\ Len(c) > 0
    BY FitIsCalibrated
<1>2. curve = [s \in Percents |-> Interpolated(c, s)]
    BY Zenon DEF Isotonic
<1> HIDE DEF c, curve
<1>3. Percents = Percent
    BY PercentIs DEF Percents
<1>4. \A s, u \in Percent : s <= u => /\ Interpolated(c, s) \in Thousandths
                                        /\ Interpolated(c, s) <= Interpolated(c, u)
    BY <1>1, InterpolatedGrows
<1>5. \A s \in Percent : s <= s
    BY DEF Percent
<1>6. \A s \in Percent : Interpolated(c, s) \in Thousandths
    BY <1>4, <1>5, Zenon
<1>7. curve \in [Percents -> Thousandths]
    BY <1>2, <1>3, <1>6, Zenon
<1>8. Rising(curve)
    BY <1>2, <1>3, <1>4, Zenon DEF Rising
<1> QED BY <1>7, <1>8, ThousandthsIs, Zenon DEF curve

-------------------------------------------------------------------------------
(* A demotion is in thousandths and never rises with the penalty.           *)
LEMMA DemotionFalls ==
    ASSUME NEW p \in 0..MaxPenalty, NEW q \in 0..MaxPenalty, p <= q
    PROVE  /\ DemotionAt(p) \in Thousandths
           /\ DemotionAt(q) \in Thousandths
           /\ DemotionAt(q) <= DemotionAt(p)
<1> DEFINE R == ReuseThreshold
           S == SuppressThreshold
           M == MaxPenalty
           f == 700 - DemoteFloor
           Middle(x) == (300 * (x - R)) \div (S - R)
           Top(x)    == (f * (x - S)) \div (M - S)
<1>1. /\ R \in Nat /\ S \in Nat /\ M \in Nat /\ R < S /\ S < M
      /\ DemoteFloor \in Nat /\ DemoteFloor <= 700
    BY ThresholdAssumption
<1>2. f \in Nat /\ f <= 700 /\ S - R \in Nat \ {0} /\ M - S \in Nat \ {0}
    BY <1>1
<1>3. ASSUME NEW c \in Nat, NEW k \in Nat \ {0}, NEW x \in 0..k, NEW y \in 0..k, x <= y
      PROVE  /\ (c * x) \div k \in 0..c /\ (c * y) \div k \in 0..c
             /\ (c * x) \div k <= (c * y) \div k
    <2>1. c <= c /\ y <= k /\ x \in Nat /\ y \in Nat /\ k \in Nat
        BY <1>3
    <2>2. c * x <= c * y /\ c * x \in Nat /\ c * y \in Nat /\ c * y <= c * k
        BY <1>3, <2>1, ProductGrows
    <2>3. /\ k * 0 <= c * x /\ c * x <= k * c /\ k * 0 <= c * y /\ c * y <= k * c
          /\ c * x \in Int /\ c * y \in Int
        BY <1>3, <2>2
    <2> QED BY <1>3, <2>2, <2>3, QuotientBetween, QuotientGrows, SMTT(30)
<1>4. ASSUME NEW x \in R..S, NEW y \in R..S, x <= y
      PROVE  Middle(x) \in 0..300 /\ Middle(y) \in 0..300 /\ Middle(x) <= Middle(y)
    <2>1. x - R \in 0..(S - R) /\ y - R \in 0..(S - R) /\ x - R <= y - R /\ 300 \in Nat
        BY <1>1, <1>4
    <2> QED BY <1>2, <1>3, <2>1, ZenonT(60)
<1>5. ASSUME NEW x \in S..M, NEW y \in S..M, x <= y
      PROVE  Top(x) \in 0..f /\ Top(y) \in 0..f /\ Top(x) <= Top(y)
    <2>1. x - S \in 0..(M - S) /\ y - S \in 0..(M - S) /\ x - S <= y - S
        BY <1>1, <1>5
    <2> HIDE DEF f
    <2> QED BY <1>2, <1>3, <2>1
<1>6. \A x \in 0..M : DemotionAt(x) = IF x < R THEN 1000
                                       ELSE IF x < S THEN 1000 - Middle(x) ELSE 700 - Top(x)
    BY DEF DemotionAt
<1> HIDE DEF f, Middle, Top
<1>7. ASSUME NEW x \in 0..M
      PROVE  /\ x < R => DemotionAt(x) = 1000
             /\ x >= R /\ x < S => /\ DemotionAt(x) = 1000 - Middle(x)
                                   /\ Middle(x) \in Nat /\ Middle(x) <= 300
             /\ x >= S => /\ DemotionAt(x) = 700 - Top(x)
                          /\ Top(x) \in Nat /\ Top(x) <= 700
    <2>1. CASE x < R
        BY <1>1, <1>6, <2>1
    <2>2. CASE x >= R /\ x < S
        <3>1. x \in R..S /\ x <= x
            BY <1>1, <2>2
        <3>2. Middle(x) \in 0..300
            BY <1>4, <3>1
        <3>3. ~(x < R)
            BY <1>1, <2>2
        <3>4. DemotionAt(x) = 1000 - Middle(x)
            BY <1>6, <2>2, <3>3
        <3> QED BY <1>1, <2>2, <3>2, <3>4
    <2>3. CASE x >= S
        <3>1. x \in S..M /\ x <= x
            BY <1>1, <2>3
        <3>2. Top(x) \in 0..f
            BY <1>5, <3>1
        <3>3. ~(x < R) /\ ~(x < S)
            BY <1>1, <2>3
        <3>4. DemotionAt(x) = 700 - Top(x)
            BY <1>6, <3>3
        <3> QED BY <1>1, <1>2, <2>3, <3>2, <3>4
    <2> QED BY <1>1, <2>1, <2>2, <2>3
<1>8. DemotionAt(p) \in Thousandths /\ DemotionAt(q) \in Thousandths
    BY <1>1, <1>7 DEF Thousandths
<1>9. CASE p >= R /\ q < S
    <2>1. p \in R..S /\ q \in R..S
        BY <1>1, <1>9
    <2>2. Middle(p) <= Middle(q)
        BY <1>4, <2>1
    <2> QED BY <1>1, <1>7, <1>8, <1>9, <2>2
<1>10. CASE p >= S
    <2>1. p \in S..M /\ q \in S..M
        BY <1>1, <1>10
    <2>2. Top(p) <= Top(q)
        BY <1>5, <2>1
    <2> QED BY <1>1, <1>7, <1>8, <1>10, <2>2
<1>11. CASE p < R \/ (p < S /\ q >= S)
    BY <1>1, <1>7, <1>8, <1>11
<1> QED BY <1>1, <1>8, <1>9, <1>10, <1>11

(* The demotion of any root cause, known to the suppressor or not.          *)
LEMMA PenaltyRange ==
    ASSUME IInv, NEW e, NEW t \in Time
    PROVE  PenaltyOf(e, t) \in 0..MaxPenalty
<1>1. MaxPenalty \in Nat
    BY ThresholdAssumption
<1>2. CASE e \in known
    <2>1. e \in Entities /\ penalty[e] \in 0..MaxPenalty
        BY <1>2 DEF IInv, TypeOK
    <2>2. Decayed(e, t) \in 0..penalty[e]
        BY <2>1, DecayedRange
    <2> QED BY <1>1, <1>2, <2>1, <2>2 DEF PenaltyOf
<1>3. CASE e \notin known
    BY <1>1, <1>3 DEF PenaltyOf
<1> QED BY <1>2, <1>3

LEMMA DemotionRange ==
    ASSUME IInv, NEW e, NEW t \in Time
    PROVE  DemotionFactor(e, t) \in Thousandths
<1>1. PenaltyOf(e, t) \in 0..MaxPenalty /\ PenaltyOf(e, t) <= PenaltyOf(e, t)
    BY PenaltyRange, ThresholdAssumption
<1> QED BY <1>1, DemotionFalls DEF DemotionFactor

(* A demoted score is a share of 1000 that grows with score and factor.     *)
LEMMA DemotedGrows ==
    ASSUME NEW p \in Thousandths, NEW q \in Thousandths, NEW f \in Thousandths, NEW g \in Thousandths,
           p <= q, f <= g
    PROVE  /\ Demoted(p, f) \in Thousandths
           /\ Demoted(q, g) \in Thousandths
           /\ Demoted(p, f) <= Demoted(q, g)
<1> DEFINE k == 1000
<1>1. /\ p \in Nat /\ q \in Nat /\ f \in Nat /\ g \in Nat /\ k \in Nat \ {0}
      /\ p <= k /\ q <= k /\ f <= k /\ g <= k
    BY DEF Thousandths
<1>2. Demoted(p, f) = Rounded(p * f, k) /\ Demoted(q, g) = Rounded(q * g, k)
    BY DEF Demoted
<1>3. Thousandths = {x \in Nat : x <= k}
    BY DEF Thousandths
<1> HIDE DEF k
<1>4. /\ p * f <= q * g /\ p * f \in Nat /\ q * g \in Nat
      /\ q * g <= k * k
    BY <1>1, ProductGrows
<1> DEFINE x == p * f
           y == q * g
<1> HIDE DEF x, y
<1>5. x \in Nat /\ y \in Nat /\ x <= y /\ y <= k * k
    BY <1>4 DEF x, y
<1>6. Rounded(x, k) \in 0..k /\ Rounded(y, k) \in 0..k /\ Rounded(x, k) <= Rounded(y, k)
    BY <1>1, <1>5, RoundedGrows
<1> QED BY <1>1, <1>2, <1>3, <1>6 DEF x, y

(* A confidence as written back is a share of 100 that grows with the       *)
(* priority, and only a priority above 0 is written as one above 0.         *)
LEMMA WrittenGrows ==
    ASSUME NEW p \in Thousandths, NEW q \in Thousandths, p <= q
    PROVE  /\ Written(p) \in Percent
           /\ Written(q) \in Percent
           /\ Written(p) <= Written(q)
           /\ Written(p) > 0 => p > 0
<1>1. p \in Nat /\ q \in Nat /\ q <= 10 * 100
    BY SMT DEF Thousandths
<1>2. /\ Rounded(p, 10) \in 0..100 /\ Rounded(q, 10) \in 0..100
      /\ Rounded(p, 10) <= Rounded(q, 10)
    <2> DEFINE d == 10
               h == 100
    <2>1. d \in Nat \ {0} /\ h \in Nat /\ q <= d * h
        BY <1>1
    <2> HIDE DEF d, h
    <2>2. Rounded(p, d) \in 0..h /\ Rounded(q, d) \in 0..h /\ Rounded(p, d) <= Rounded(q, d)
        BY <1>1, <2>1, RoundedGrows
    <2> QED BY <2>2 DEF d, h
<1>3. p = 0 => Rounded(p, 10) = 0
    BY SMT DEF Rounded
<1> QED BY <1>1, <1>2, <1>3, PercentIs DEF Written, Percent
-------------------------------------------------------------------------------
(* The priority a calibration gives an incident with a given demotion.      *)
Placed(curve, r, factor) == Demoted(curve[GeometricMean(r)], factor)

LEMMA CurveIs ==
    ASSUME NEW curve \in [Percents -> 0..1000], NEW r \in Incident
    PROVE  curve[GeometricMean(r)] \in Thousandths
<1>1. curve \in [Percents -> Thousandths]
    BY ThousandthsIs, SMT
<1>2. GeometricMean(r) \in Percents
    BY GeometricMeanRange, PercentIs, Zenon DEF Percents
<1> QED BY <1>1, <1>2

LEMMA PlacedRange ==
    ASSUME NEW curve \in [Percents -> 0..1000], NEW r \in Incident, NEW f \in Thousandths
    PROVE  Placed(curve, r, f) \in Thousandths
<1>2. curve[GeometricMean(r)] \in Thousandths
    BY CurveIs
<1>3. /\ curve[GeometricMean(r)] <= curve[GeometricMean(r)]
      /\ f <= f
    BY <1>2 DEF Thousandths
<1> QED BY <1>2, <1>3, DemotedGrows DEF Placed

(* Under a calibration that rises, the order of the factors and of the      *)
(* demotion is the order of the priorities.                                 *)
LEMMA PlacedGrows ==
    ASSUME NEW curve \in [Percents -> 0..1000], Rising(curve),
           NEW r \in Incident, NEW q \in Incident,
           NEW f \in Thousandths, NEW g \in Thousandths, NoMoreUrgent(r, q), f <= g
    PROVE  Placed(curve, r, f) <= Placed(curve, q, g)
<1>1. /\ GeometricMean(r) \in Percents /\ GeometricMean(q) \in Percents
      /\ GeometricMean(r) <= GeometricMean(q)
    BY GeometricMeanGrows, PercentIs, Zenon DEF Percents
<1>2. /\ curve[GeometricMean(r)] \in Thousandths /\ curve[GeometricMean(q)] \in Thousandths
      /\ curve[GeometricMean(r)] <= curve[GeometricMean(q)]
    <2>1. curve[GeometricMean(r)] <= curve[GeometricMean(q)]
        BY <1>1, Zenon DEF Rising
    <2>2. curve[GeometricMean(r)] \in Thousandths /\ curve[GeometricMean(q)] \in Thousandths
        BY CurveIs
    <2> QED BY <2>1, <2>2
<1> QED BY <1>2, DemotedGrows DEF Placed

(* Without a prediction the urgency is that of 19 minutes, and more than    *)
(* that of 20.                                                              *)
LEMMA UrgencyGrows ==
    ASSUME NEW x \in Nat \cup {None}, NEW y \in Nat \cup {None},
           AsImminent(x, y)
    PROVE  Urgency(y) <= Urgency(x)
<1>1. CASE x = None
    <2>1. y = None \/ (y \in Nat /\ y >= 20)
        BY <1>1 DEF AsImminent
    <2>2. ASSUME y # None, y \in Nat, y >= 20 PROVE 100 \div (1 + y) <= 5
        <3> DEFINE k == 1 + y
        <3>1. k \in Nat \ {0} /\ 100 < k * 6
            BY <2>2
        <3> HIDE DEF k
        <3>2. 100 \div k <= 5
            BY <3>1, SMT
        <3> QED BY <3>2 DEF k
    <2> QED BY <1>1, <2>1, <2>2 DEF Urgency
<1>2. CASE x # None /\ y = None
    <2>1. x \in Nat /\ x <= 19
        BY <1>2 DEF AsImminent
    <2>2. 5 <= 100 \div (1 + x)
        <3>1. 1 + x \in Nat \ {0} /\ (1 + x) * 5 <= 100
            BY <2>1
        <3> QED BY <3>1, SMT
    <2> QED BY <1>2, <2>1, <2>2 DEF Urgency
<1>3. CASE x # None /\ y # None
    <2>1. x \in Nat /\ y \in Nat /\ x <= y
        BY <1>3 DEF AsImminent
    <2>2. 100 \div (1 + y) <= 100 \div (1 + x)
        <3> DEFINE k == 1 + x
                   l == 1 + y
        <3>1. k \in Nat \ {0} /\ l \in Nat \ {0} /\ k <= l
            BY <2>1
        <3> HIDE DEF k, l
        <3>2. 100 \div l <= 100 \div k
            BY <3>1, SMT
        <3> QED BY <3>2 DEF k, l
    <2> QED BY <1>3, <2>2 DEF Urgency
<1> QED BY <1>1, <1>2, <1>3
-------------------------------------------------------------------------------
(* A sort of n entries has n entries, each of them one it was given, none   *)
(* of them strictly after one it comes before.                              *)
Sorted(q) == \A x, y \in DOMAIN q : x < y => \/ SortsBefore(q[x], q[y])
                                             \/ ~SortsBefore(q[y], q[x])

LEMMA SortingIs ==
    ASSUME NEW n \in Nat, NEW entries, DOMAIN entries = 1..n,
           NEW q \in Sortings(entries, SortsBefore)
    PROVE  /\ DOMAIN q = 1..n
           /\ \A k \in 1..n : \E j \in 1..n : q[k] = entries[j]
           /\ Sorted(q)
<1>1. PICK p \in SetToSeqs(1..n) :
          /\ q = [k \in 1..n |-> entries[p[k]]]
          /\ \A j, k \in 1..n : j < k => \/ SortsBefore(entries[p[j]], entries[p[k]])
                                         \/ ~SortsBefore(entries[p[k]], entries[p[j]]) /\ p[j] < p[k]
    BY DEF Sortings
<1>2. Cardinality(1..n) = n
    BY FS_Interval
<1>3. p \in [1..n -> 1..n]
    BY <1>1, <1>2 DEF SetToSeqs
<1>4. DOMAIN q = 1..n /\ \A k \in 1..n : q[k] = entries[p[k]]
    BY <1>1
<1>5. \A k \in 1..n : \E j \in 1..n : q[k] = entries[j]
    BY <1>3, <1>4
<1>6. Sorted(q)
    BY <1>1, <1>4 DEF Sorted
<1> QED BY <1>4, <1>5, <1>6

(* What comes before another in the queue has no lower a priority.          *)
LEMMA SortedFalls ==
    ASSUME NEW q, Sorted(q), NEW x \in DOMAIN q, NEW y \in DOMAIN q, x < y,
           q[x].priority \in Thousandths, q[y].priority \in Thousandths
    PROVE  q[y].priority <= q[x].priority
<1>1. SortsBefore(q[x], q[y]) \/ ~SortsBefore(q[y], q[x])
    BY DEF Sorted
<1>2. q[y].priority > q[x].priority => SortsBefore(q[y], q[x])
    BY SMT DEF SortsBefore
<1>3. SortsBefore(q[x], q[y]) => q[y].priority <= q[x].priority
    BY SMT DEF SortsBefore, Thousandths
<1> QED BY <1>1, <1>2, <1>3 DEF Thousandths

(* No two entries each come before the other.                               *)
LEMMA SortsOneWay ==
    ASSUME NEW a, NEW b, a.priority \in Thousandths, b.priority \in Thousandths,
           a.before \in Incident, b.before \in Incident,
           SortsBefore(a, b)
    PROVE  ~SortsBefore(b, a)
<1> DEFINE late(e) == IF e.before.eta = None THEN 1000000 ELSE e.before.eta
           blast(e) == BlastFactor(e.before)
<1>1. late(a) \in Int /\ late(b) \in Int
    BY SMT DEF Incident
<1>2. blast(a) \in Int /\ blast(b) \in Int
    BY FactorRanges, SMT DEF Percent
<1>3. /\ SortsBefore(a, b) <=> \/ a.priority > b.priority
                               \/ a.priority = b.priority /\ late(a) < late(b)
                               \/ a.priority = b.priority /\ late(a) = late(b) /\ blast(a) > blast(b)
      /\ SortsBefore(b, a) <=> \/ b.priority > a.priority
                               \/ b.priority = a.priority /\ late(b) < late(a)
                               \/ b.priority = a.priority /\ late(b) = late(a) /\ blast(b) > blast(a)
    BY SMT DEF SortsBefore
<1> HIDE DEF late, blast
<1> QED BY <1>1, <1>2, <1>3, SMT DEF Thousandths
-------------------------------------------------------------------------------
(* Who dominates is no less urgent in any factor of its score.              *)
LEMMA DominatesIs ==
    ASSUME NEW r \in Incident, NEW q \in Incident, Dominates(r, q)
    PROVE  NoMoreUrgent(q, r)
<1>1. /\ r.confidence >= q.confidence /\ r.score >= q.score
      /\ Blasts[r.root].size >= Blasts[q.root].size
      /\ Criticality(Twin, r.root) >= Criticality(Twin, q.root)
      /\ AsImminent(r.eta, q.eta)
    BY Zenon DEF Dominates
<1>2. /\ r.root \in Twin.nodes /\ q.root \in Twin.nodes
      /\ r.eta \in Nat \cup {None} /\ q.eta \in Nat \cup {None}
      /\ r.confidence \in Percent /\ q.confidence \in Percent
      /\ r.score \in Percent /\ q.score \in Percent
    BY DEF Incident
<1>3. Urgency(q.eta) <= Urgency(r.eta)
    BY <1>1, <1>2, UrgencyGrows
<1>4. BlastFactor(q) <= BlastFactor(r)
    BY <1>1, <1>2, SharesGrow, BlastSize DEF BlastFactor
<1>5. AssetCriticality(q) <= AssetCriticality(r)
    <2>1. Criticality(Twin, r.root) \in Shares /\ Criticality(Twin, q.root) \in Shares
        BY <1>2, CriticalityIs DEF Criticality
    <2> QED BY <1>1, <2>1, SharesGrow DEF AssetCriticality
<1>6. q.confidence <= r.confidence /\ q.score <= r.score
    BY <1>1, <1>2 DEF Percent
<1> QED BY <1>3, <1>4, <1>5, <1>6, Zenon DEF NoMoreUrgent
-------------------------------------------------------------------------------
(* The priorities of a queue keep the order of what was ranked, and its     *)
(* entries are one per incident.                                            *)
Ordered(q) == \A x, y \in DOMAIN q :
                 /\ NoMoreUrgent(q[x].before, q[y].before)
                 /\ q[x].demotion <= q[y].demotion
                 => q[x].priority <= q[y].priority

OneEach(q) == \A x, y \in DOMAIN q : q[x].id = q[y].id => q[x] = q[y]

(* An entry of the queue says what was ranked, and its incident shows the   *)
(* outcome and is otherwise as it was.                                      *)
Ranked(e) == /\ e.id \in Incidents
             /\ e.before \in Incident
             /\ e.demotion \in Thousandths
             /\ e.priority \in Thousandths

Shows(i, e) == /\ i.confidence = Written(e.priority)
               /\ i.severity = SeverityFor(e.priority)
               /\ i.root = e.before.root
               /\ i.score = e.before.score
               /\ i.eta = e.before.eta

Settled(e) == Ranked(e) /\ Shows(incident[e.id], e)

(* The inductive invariant of the triage: the suppressor's, the types, a    *)
(* calibrator that rises unless it is a Platt sigmoid, and a sorted queue   *)
(* of settled entries that keeps the order of its factors, even when the    *)
(* calibrator was fitted after the ranking.                                 *)
QueueInv == /\ DOMAIN queue \subseteq Nat
            /\ Sorted(queue)
            /\ OrderPreserving => Ordered(queue)
            /\ OneEach(queue)
            /\ \A k \in DOMAIN queue : Settled(queue[k])

CurveInv == /\ calibrator \in [Percents -> 0..1000]
            /\ method # "platt" => Rising(calibrator)

RInv == /\ IInv
        /\ incident \in [Incidents -> Incident]
        /\ CurveInv
        /\ QueueInv

LEMMA EmptyQueueInv == queue = <<>> => QueueInv
<1>1. DOMAIN <<>> = {}
    OBVIOUS
<1> QED BY <1>1 DEF QueueInv, Sorted, Ordered, OneEach

(* The calibrator of a ranking that keeps order rises.                      *)
LEMMA CurveRises ==
    ASSUME CurveInv, OrderPreserving
    PROVE  Rising(calibrator)
BY Zenon DEF CurveInv, OrderPreserving

LEMMA RankingInitRInv == RankingInit => RInv
<1> SUFFICES ASSUME RankingInit PROVE RInv
    OBVIOUS
<1>1. IInv
    BY InitIInv DEF RankingInit
<1>2. incident \in [Incidents -> Incident]
    <2>1. \A i \in Incidents : FreshIncidents(i) \subseteq Incident
        <3> SUFFICES ASSUME NEW i \in Incidents, NEW r \in FreshIncidents(i)
                     PROVE  r \in Incident
            OBVIOUS
        <3>1. Confidences \subseteq Percent /\ Scores \subseteq Percent
            BY RankingAssumption, PercentIs
        <3>2. Roots[i] \subseteq Twin.nodes /\ Etas \subseteq Nat \cup {None}
            BY RankingAssumption
        <3> QED BY <3>1, <3>2 DEF FreshIncidents, Incident
    <2>2. /\ incident \in [Incidents -> UNION {FreshIncidents(i) : i \in Incidents}]
          /\ \A i \in Incidents : incident[i] \in FreshIncidents(i)
        BY DEF RankingInit
    <2> QED BY <2>1, <2>2
<1>3. CurveInv
    <2>1. calibrator = [s \in Percents |-> 10 * s]
        BY Zenon DEF RankingInit, Identity
    <2>2. \A s \in Percents : 10 * s \in 0..1000
        BY SMT DEF Percents
    <2>3. calibrator \in [Percents -> 0..1000]
        BY <2>1, <2>2, ZenonT(60)
    <2>4. \A s, u \in Percents : s <= u => 10 * s <= 10 * u
        BY SMT DEF Percents
    <2>5. Rising(calibrator)
        BY <2>1, <2>4, Zenon DEF Rising
    <2> QED BY <2>3, <2>5, Zenon DEF CurveInv
<1>4. queue = <<>>
    BY DEF RankingInit
<1> QED BY <1>1, <1>2, <1>3, <1>4, EmptyQueueInv DEF RInv

(* What an incident's entry in the next queue says.                         *)
LEMMA PriorityIs ==
    ASSUME RInv, NEW t \in Time, NEW i \in Incidents
    PROVE  /\ incident[i] \in Incident
           /\ DemotionFactor(incident[i].root, t) \in Thousandths
           /\ Priority(incident[i], t)
                = Placed(calibrator, incident[i], DemotionFactor(incident[i].root, t))
           /\ Priority(incident[i], t) \in Thousandths
<1>1. incident[i] \in Incident /\ calibrator \in [Percents -> 0..1000]
    BY DEF RInv, CurveInv
<1>2. DemotionFactor(incident[i].root, t) \in Thousandths
    BY DemotionRange DEF RInv
<1>3. Priority(incident[i], t) = Placed(calibrator, incident[i], DemotionFactor(incident[i].root, t))
    BY Zenon DEF Priority, Placed
<1>4. Placed(calibrator, incident[i], DemotionFactor(incident[i].root, t)) \in Thousandths
    BY <1>1, <1>2, PlacedRange
<1> QED BY <1>1, <1>2, <1>3, <1>4

(* The next queue is sorted, and its entries are the incidents as they were *)
(* found, ranked.                                                           *)
LEMMA PrioritizedIs ==
    ASSUME RInv, NEW t \in Time, Prioritize(t)
    PROVE  /\ DOMAIN queue' \subseteq Nat
           /\ Sorted(queue')
           /\ \A k \in DOMAIN queue' :
                 /\ Ranked(queue'[k])
                 /\ queue'[k] = Scored(queue'[k].id, t)
                 /\ queue'[k].before = incident[queue'[k].id]
                 /\ queue'[k].priority = Priority(incident[queue'[k].id], t)
                 /\ queue'[k].priority
                      = Placed(calibrator, queue'[k].before, queue'[k].demotion)
<1> DEFINE entries == [k \in DOMAIN Queue |-> Scored(Queue[k], t)]
           n == Len(Queue)
<1>1. n \in Nat /\ DOMAIN Queue = 1..n /\ \A k \in 1..n : Queue[k] \in Incidents
    BY RankingAssumption
<1>2. DOMAIN entries = 1..n /\ queue' \in Sortings(entries, SortsBefore)
    BY <1>1 DEF Prioritize
<1>3. /\ DOMAIN queue' = 1..n
      /\ \A k \in 1..n : \E j \in 1..n : queue'[k] = entries[j]
      /\ Sorted(queue')
    <2> HIDE DEF entries, n
    <2> QED BY <1>1, <1>2, SortingIs
<1>4. ASSUME NEW k \in 1..n
      PROVE  /\ Ranked(queue'[k])
             /\ queue'[k] = Scored(queue'[k].id, t)
             /\ queue'[k].before = incident[queue'[k].id]
             /\ queue'[k].priority = Priority(incident[queue'[k].id], t)
             /\ queue'[k].priority = Placed(calibrator, queue'[k].before, queue'[k].demotion)
    <2>1. PICK j \in 1..n : queue'[k] = entries[j]
        BY <1>3
    <2> DEFINE i == Queue[j]
               e == queue'[k]
               f == DemotionFactor(incident[i].root, t)
    <2>2. i \in Incidents /\ e = Scored(i, t)
        BY <1>1, <2>1
    <2>3. /\ e.id = i /\ e.before = incident[i]
          /\ e.priority = Priority(incident[i], t)
          /\ e.demotion = f
        BY <2>2 DEF Scored
    <2>4. /\ incident[i] \in Incident /\ f \in Thousandths
          /\ e.priority = Placed(calibrator, incident[i], f)
          /\ e.priority \in Thousandths
        BY <2>2, <2>3, PriorityIs
    <2> HIDE DEF i, f, e
    <2>5. /\ Ranked(e) /\ e = Scored(e.id, t) /\ e.before = incident[e.id]
          /\ e.priority = Priority(incident[e.id], t)
          /\ e.priority = Placed(calibrator, e.before, e.demotion)
        BY <2>2, <2>3, <2>4, Zenon DEF Ranked
    <2> QED BY <2>5, Zenon DEF e
<1>5. 1..n \subseteq Nat
    BY <1>1
<1> QED BY <1>3, <1>4, <1>5, Zenon

(* One call of prioritize_incidents leaves a sorted queue of settled        *)
(* entries and incidents that show their place in it.                       *)
LEMMA PrioritizeRInv ==
    ASSUME RInv, NEW t \in Time, Prioritize(t)
    PROVE  RInv'
<1>1. IInv'
    <2>1. /\ known' = known /\ penalty' = penalty /\ lastUpdate' = lastUpdate
          /\ suppressed' = suppressed /\ now' = t /\ t >= now
        BY DEF Prioritize
    <2>2. Time \subseteq Nat
        BY BoundAssumption DEF Time
    <2>3. TypeOK' /\ FlagMatchesBand'
        BY <2>1 DEF RInv, IInv, TypeOK, FlagMatchesBand
    <2>4. Clocked'
        <3> SUFFICES ASSUME NEW e \in Entities
                     PROVE  /\ lastUpdate[e] # None => lastUpdate[e] <= t
                            /\ penalty[e] > 0 => lastUpdate[e] # None
                            /\ lastUpdate[e] # None => e \in known
            BY <2>1, Zenon DEF Clocked
        <3>1. /\ lastUpdate[e] # None => lastUpdate[e] <= now /\ lastUpdate[e] \in Time
              /\ penalty[e] > 0 => lastUpdate[e] # None
              /\ lastUpdate[e] # None => e \in known
              /\ now \in Time
            BY DEF RInv, IInv, Clocked, TypeOK
        <3>2. lastUpdate[e] # None => lastUpdate[e] <= t
            BY <2>1, <2>2, <3>1
        <3> QED BY <3>1, <3>2
    <2> QED BY <2>3, <2>4 DEF IInv
<1>2. /\ CurveInv' /\ calibrator' = calibrator
      /\ OrderPreserving' = OrderPreserving
    <2>1. method' = method /\ calibrator' = calibrator
        BY DEF Prioritize
    <2> QED BY <2>1, Zenon DEF RInv, CurveInv, OrderPreserving, Rising
<1>3. \A p : SeverityFor(p) \in {"P1", "P2", "P3", "INFO"}
    BY DEF SeverityFor
<1>4. \A i \in Incidents :
          /\ incident'[i] \in Incident
          /\ incident'[i].confidence = Written(Priority(incident[i], t))
          /\ incident'[i].severity = SeverityFor(Priority(incident[i], t))
          /\ incident'[i].root = incident[i].root
          /\ incident'[i].score = incident[i].score
          /\ incident'[i].eta = incident[i].eta
    <2> SUFFICES ASSUME NEW i \in Incidents
                 PROVE  /\ incident'[i] \in Incident
                        /\ incident'[i].confidence = Written(Priority(incident[i], t))
                        /\ incident'[i].severity = SeverityFor(Priority(incident[i], t))
                        /\ incident'[i].root = incident[i].root
                        /\ incident'[i].score = incident[i].score
                        /\ incident'[i].eta = incident[i].eta
        OBVIOUS
    <2> DEFINE p == Written(Priority(incident[i], t))
               s == SeverityFor(Priority(incident[i], t))
    <2>1. incident'[i] = [incident[i] EXCEPT !.severity = s, !.confidence = p]
        BY DEF Prioritize
    <2>2. incident[i] \in Incident /\ p \in Percent /\ s \in {"P1", "P2", "P3", "INFO"}
        <3>1. Priority(incident[i], t) \in Thousandths /\ incident[i] \in Incident
            BY PriorityIs
        <3>2. Priority(incident[i], t) <= Priority(incident[i], t)
            BY <3>1 DEF Thousandths
        <3> QED BY <1>3, <3>1, <3>2, WrittenGrows
    <2> HIDE DEF p, s
    <2>3. /\ incident'[i] \in Incident
          /\ incident'[i].confidence = p
          /\ incident'[i].severity = s
          /\ incident'[i].root = incident[i].root
          /\ incident'[i].score = incident[i].score
          /\ incident'[i].eta = incident[i].eta
        BY <2>1, <2>2 DEF Incident
    <2> QED BY <2>3 DEF p, s
<1>5. incident' \in [Incidents -> Incident]
    <2>1. DOMAIN incident' = Incidents
        BY DEF Prioritize
    <2>2. incident' = [i \in Incidents |-> incident'[i]]
        BY DEF Prioritize
    <2> QED BY <1>4, <2>2
<1>6. ASSUME NEW k \in DOMAIN queue' PROVE Settled(queue[k])'
    <2> DEFINE e == queue'[k]
    <2>1. /\ Ranked(e) /\ e.id \in Incidents /\ e.before = incident[e.id]
          /\ e.priority = Priority(incident[e.id], t)
        BY <1>6, PrioritizedIs, Zenon DEF Ranked
    <2> HIDE DEF e
    <2>2. Shows(incident'[e.id], e)
        BY <1>4, <2>1, Zenon DEF Shows
    <2> QED BY <2>1, <2>2, Zenon DEF Settled, Ranked, Shows, e
<1>7. OrderPreserving' => Ordered(queue')
    <2> SUFFICES ASSUME OrderPreserving, NEW x \in DOMAIN queue', NEW y \in DOMAIN queue',
                        NoMoreUrgent(queue'[x].before, queue'[y].before),
                        queue'[x].demotion <= queue'[y].demotion
                 PROVE  queue'[x].priority <= queue'[y].priority
        BY <1>2, Zenon DEF Ordered
    <2> DEFINE a == queue'[x]
               b == queue'[y]
    <2>1. /\ Ranked(a) /\ a.priority = Placed(calibrator, a.before, a.demotion)
          /\ Ranked(b) /\ b.priority = Placed(calibrator, b.before, b.demotion)
        BY PrioritizedIs, Zenon
    <2>2. Rising(calibrator) /\ calibrator \in [Percents -> 0..1000]
        BY CurveRises, Zenon DEF RInv, CurveInv
    <2>3. NoMoreUrgent(a.before, b.before) /\ a.demotion <= b.demotion
        OBVIOUS
    <2> HIDE DEF a, b
    <2>4. /\ a.before \in Incident /\ b.before \in Incident
          /\ a.demotion \in Thousandths /\ b.demotion \in Thousandths
        BY <2>1, Zenon DEF Ranked
    <2>5. Placed(calibrator, a.before, a.demotion) <= Placed(calibrator, b.before, b.demotion)
        BY <2>2, <2>3, <2>4, PlacedGrows
    <2>6. a.priority <= b.priority
        BY <2>1, <2>5, Zenon
    <2> QED BY <2>6 DEF a, b
<1>8. OneEach(queue')
    BY PrioritizedIs, ZenonT(60) DEF OneEach
<1>9. QueueInv'
    <2>1. DOMAIN queue' \subseteq Nat /\ Sorted(queue')
        BY PrioritizedIs, Zenon
    <2>2. Sorted(queue)' /\ OneEach(queue)'
        BY <1>8, <2>1, Zenon DEF Sorted, OneEach
    <2>3. (OrderPreserving => Ordered(queue))'
        BY <1>7, Zenon DEF Ordered
    <2> QED BY <1>6, <2>1, <2>2, <2>3, Zenon DEF QueueInv
<1> QED BY <1>1, <1>2, <1>5, <1>9 DEF RInv

(* A queue that is left alone keeps its part of the invariant, as long as   *)
(* the calibrator does or was not fitted yet.                               *)
LEMMA QueueUnchanged ==
    ASSUME RInv, incident' = incident, queue' = queue, OrderPreserving' => OrderPreserving
    PROVE  QueueInv'
<1>1. /\ DOMAIN queue' \subseteq Nat /\ Sorted(queue)' /\ OneEach(queue)'
    BY Zenon DEF RInv, QueueInv, Sorted, OneEach
<1>2. (OrderPreserving => Ordered(queue))'
    <2>1. OrderPreserving' => Ordered(queue)
        BY Zenon DEF RInv, QueueInv
    <2> QED BY <2>1, Zenon DEF Ordered
<1>3. ASSUME NEW k \in DOMAIN queue' PROVE Settled(queue[k])'
    <2>1. Settled(queue[k])
        BY <1>3, Zenon DEF RInv, QueueInv
    <2> QED BY <2>1, Zenon DEF Settled, Ranked, Shows
<1> QED BY <1>1, <1>2, <1>3, Zenon DEF QueueInv

(* The invariant says nothing else of the suppressor than IInv, and nothing *)
(* else of the triage than what the other steps leave alone.                *)
LEMMA TriageUnchanged ==
    ASSUME RInv, IInv', UNCHANGED triage
    PROVE  RInv'
<1>1. /\ incident' = incident /\ calibrator' = calibrator /\ method' = method
      /\ queue' = queue
    BY DEF triage
<1>2. CurveInv' /\ (OrderPreserving' => OrderPreserving)
    BY <1>1, Zenon DEF RInv, CurveInv, OrderPreserving, Rising
<1>3. QueueInv'
    BY <1>1, <1>2, QueueUnchanged
<1> QED BY <1>1, <1>2, <1>3, Zenon DEF RInv

LEMMA RankingStep == RInv /\ [RankingNext]_allvars => RInv'
<1> SUFFICES ASSUME RInv, [RankingNext]_allvars PROVE RInv'
    OBVIOUS
<1>1. ASSUME NEW e \in Entities, NEW t \in Time, NEW flaps \in 1..MaxFlaps, Flap(e, t, flaps)
      PROVE  RInv'
    <2>1. Observe(e, t, flaps) /\ UNCHANGED triage
        BY <1>1 DEF Flap
    <2>2. IInv'
        BY <2>1, ObserveIInv DEF RInv
    <2> QED BY <2>1, <2>2, TriageUnchanged
<1>2. CASE Forget
    <2>1. ((\E e \in Entities : Reset(e)) \/ ResetAll) /\ UNCHANGED triage
        BY <1>2 DEF Forget
    <2>2. IInv'
        BY <2>1, ResetIInv DEF RInv
    <2> QED BY <2>1, <2>2, TriageUnchanged
<1>3. ASSUME NEW s \in Samples, Fit(s) PROVE RInv'
    <2>1. /\ UNCHANGED vars /\ incident' = incident /\ queue' = queue
          /\ method = "unfitted" /\ DOMAIN s # {}
          /\ \/ method' = "isotonic" /\ calibrator' = Isotonic[s]
             \/ method' = "platt" /\ calibrator' \in Curves
        BY <1>3 DEF Fit
    <2>2. IInv'
        BY <2>1 DEF RInv, IInv, TypeOK, FlagMatchesBand, Clocked, vars
    <2>3. CurveInv'
        <3>1. CASE method' = "isotonic" /\ calibrator' = Isotonic[s]
            <4>1. Isotonic[s] \in [Percents -> 0..1000] /\ Rising(Isotonic[s])
                BY <2>1, IsotonicRises
            <4>2. Rising(calibrator')
                BY <3>1, <4>1, Zenon
            <4> QED BY <3>1, <4>1, <4>2, Zenon DEF CurveInv, Rising
        <3>2. CASE method' = "platt" /\ calibrator' \in Curves
            <4>1. Curves \subseteq [Percents -> 0..1000]
                BY CurveAssumption, Zenon
            <4> QED BY <3>2, <4>1, ZenonT(60) DEF CurveInv
        <3> QED BY <2>1, <3>1, <3>2
    <2>4. OrderPreserving
        BY <2>1 DEF OrderPreserving
    <2>5. QueueInv'
        BY <2>1, <2>4, QueueUnchanged
    <2> QED BY <2>1, <2>2, <2>3, <2>5, Zenon DEF RInv
<1>4. ASSUME NEW t \in Time, Prioritize(t) PROVE RInv'
    BY <1>4, PrioritizeRInv
<1>5. CASE UNCHANGED allvars
    <2>1. UNCHANGED vars /\ UNCHANGED triage
        BY <1>5 DEF allvars
    <2>2. IInv'
        BY <2>1 DEF RInv, IInv, TypeOK, FlagMatchesBand, Clocked, vars
    <2> QED BY <2>1, <2>2, TriageUnchanged
<1> QED BY <1>1, <1>2, <1>3, <1>4, <1>5 DEF RankingNext

(* Every step of suppressor, calibrator and ranking keeps the invariant.    *)
THEOREM RankingInductive == RankingSpec => []RInv
BY RankingInitRInv, RankingStep, PTL DEF RankingSpec

(* The cap bounds the demotion of a root cause while incidents are ranked.  *)
THEOREM RankedOutageIsBounded == RankingSpec => []ReusableInTime
<1>1. RInv => ReusableInTime
    BY IInvReusable DEF RInv
<1> QED BY RankingInductive, <1>1, PTL

(* Down the queue, neither the severity nor the confidence an incident      *)
(* shows rises, and what shows confidence is above INFO: for every twin,    *)
(* every calibration, rising or falling, and every history of flaps, though *)
(* the two are read from the priority at different precision.               *)
THEOREM QueueStaysConsistent == RankingSpec => []QueueIsConsistent
<1>1. ASSUME NEW p \in Thousandths, NEW q \in Thousandths, q <= p
      PROVE  /\ Rank(SeverityFor(q)) <= Rank(SeverityFor(p))
             /\ Rank(SeverityFor(q)) \in Nat /\ Rank(SeverityFor(p)) \in Nat
             /\ p > 0 => SeverityFor(p) # "INFO"
    BY <1>1 DEF SeverityFor, Rank, Thousandths
<1>2. RInv => QueueIsConsistent
    <2> SUFFICES ASSUME RInv, NEW x \in DOMAIN queue, NEW y \in DOMAIN queue, x < y
                 PROVE  /\ Rank(incident[queue[x].id].severity) >= Rank(incident[queue[y].id].severity)
                        /\ incident[queue[x].id].confidence >= incident[queue[y].id].confidence
                        /\ incident[queue[x].id].confidence > 0
                             => incident[queue[x].id].severity # "INFO"
        BY Zenon DEF QueueIsConsistent
    <2> DEFINE p == queue[x].priority
               q == queue[y].priority
    <2>1. Settled(queue[x]) /\ Settled(queue[y]) /\ Sorted(queue)
        BY DEF RInv, QueueInv
    <2>2. p \in Thousandths /\ q \in Thousandths
        BY <2>1, Zenon DEF Settled, Ranked
    <2>3. q <= p
        BY <2>1, <2>2, SortedFalls
    <2>4. /\ incident[queue[x].id].confidence = Written(p)
          /\ incident[queue[x].id].severity = SeverityFor(p)
          /\ incident[queue[y].id].confidence = Written(q)
          /\ incident[queue[y].id].severity = SeverityFor(q)
        BY <2>1, Zenon DEF Settled, Shows
    <2> HIDE DEF p, q
    <2>5. /\ Rank(SeverityFor(q)) <= Rank(SeverityFor(p))
          /\ Rank(SeverityFor(q)) \in Nat /\ Rank(SeverityFor(p)) \in Nat
          /\ p > 0 => SeverityFor(p) # "INFO"
        BY <1>1, <2>2, <2>3
    <2>6. /\ Written(q) \in Percent /\ Written(p) \in Percent /\ Written(q) <= Written(p)
        BY <2>2, <2>3, WrittenGrows
    <2>7. Written(p) > 0 => p > 0
        <3>1. p <= p
            BY <2>2 DEF Thousandths
        <3> QED BY <2>2, <3>1, WrittenGrows
    <2>8. Rank(SeverityFor(p)) >= Rank(SeverityFor(q)) /\ Written(p) >= Written(q)
        BY <2>5, <2>6 DEF Percent
    <2> QED BY <2>4, <2>5, <2>7, <2>8, Zenon
<1> QED BY RankingInductive, <1>2, PTL

(* No incident stands behind one it dominates, unless they tie: the order   *)
(* of the factors survives floors, roots, roundings, demotion, sort and     *)
(* every calibration that rises: the unfitted one, every isotonic fit and   *)
(* the Platt sigmoids of a positive slope.                                  *)
THEOREM DominanceIsRespected == RankingSpec => []DominanceRespected
<1>1. RInv => DominanceRespected
    <2> SUFFICES ASSUME RInv, NEW x \in DOMAIN queue, NEW y \in DOMAIN queue, x < y,
                        Dominates(queue[y].before, queue[x].before),
                        queue[y].demotion >= queue[x].demotion, OrderPreserving
                 PROVE  /\ ~SortsBefore(queue[y], queue[x])
                        /\ queue[y].priority = queue[x].priority
        BY Zenon DEF DominanceRespected
    <2> DEFINE a == queue[y]
               b == queue[x]
    <2>1. Settled(a) /\ Settled(b) /\ Sorted(queue) /\ Ordered(queue)
        BY DEF RInv, QueueInv
    <2>2. /\ a.before \in Incident /\ b.before \in Incident
          /\ a.demotion \in Thousandths /\ b.demotion \in Thousandths
          /\ a.priority \in Thousandths /\ b.priority \in Thousandths
        BY <2>1, Zenon DEF Settled, Ranked
    <2>3. NoMoreUrgent(b.before, a.before)
        BY <2>2, DominatesIs
    <2>4. b.demotion <= a.demotion
        BY <2>2 DEF Thousandths
    <2>5. b.priority <= a.priority
        BY <2>1, <2>3, <2>4, Zenon DEF Ordered
    <2>6. a.priority <= b.priority
        BY <2>1, <2>2, SortedFalls
    <2>7. a.priority = b.priority
        BY <2>2, <2>5, <2>6 DEF Thousandths
    <2>8. ~SortsBefore(a, b)
        <3>1. SortsBefore(b, a) \/ ~SortsBefore(a, b)
            BY <2>1, Zenon DEF Sorted
        <3> QED BY <2>2, <3>1, SortsOneWay
    <2> QED BY <2>7, <2>8
<1> QED BY RankingInductive, <1>1, PTL

(* Ranking what a ranking wrote back never turns two incidents round: the   *)
(* confidences it reads are the last priorities, rounded, and those kept    *)
(* the order of the factors.                                                *)
THEOREM RankingAgainKeepsTheOrder == RankingSpec => RankingAgainKeepsOrder
<1> DEFINE Kept ==
        \A i, j \in DOMAIN queue, x, y \in DOMAIN queue' :
          /\ queue'[x].id = queue[i].id /\ queue'[y].id = queue[j].id
          /\ y < x
          /\ Dominates(queue[i].before, queue[j].before)
          /\ queue[i].demotion >= queue[j].demotion
          /\ queue'[x].demotion >= queue'[y].demotion
          /\ OrderPreserving'
          => queue'[x].priority = queue'[y].priority
<1>1. ASSUME RInv, RInv', NEW i \in DOMAIN queue, NEW j \in DOMAIN queue,
             NEW x \in DOMAIN queue', NEW y \in DOMAIN queue',
             queue'[x].id = queue[i].id, queue'[y].id = queue[j].id, y < x,
             Dominates(queue[i].before, queue[j].before),
             queue[i].demotion >= queue[j].demotion,
             queue'[x].demotion >= queue'[y].demotion, OrderPreserving',
             NoMoreUrgent(queue[j].before, queue[i].before) =>
                 NoMoreUrgent(queue'[y].before, queue'[x].before)
      PROVE  queue'[x].priority = queue'[y].priority
    <2> DEFINE a == queue'[x]
               b == queue'[y]
    <2>1. Settled(queue[i]) /\ Settled(queue[j])
        BY <1>1 DEF RInv, QueueInv
    <2>2. NoMoreUrgent(queue[j].before, queue[i].before)
        BY <1>1, <2>1, DominatesIs DEF Settled, Ranked
    <2>3. Sorted(queue') /\ Ordered(queue') /\ Ranked(a) /\ Ranked(b)
        <3>1. Sorted(queue)' /\ Ordered(queue)' /\ Settled(queue[x])' /\ Settled(queue[y])'
            BY <1>1, Zenon DEF RInv, QueueInv
        <3> QED BY <3>1, Zenon DEF Sorted, Ordered, Settled, Ranked
    <2>4. /\ a.priority \in Thousandths /\ b.priority \in Thousandths
          /\ a.demotion \in Thousandths /\ b.demotion \in Thousandths
        BY <2>3, Zenon DEF Ranked
    <2>5. b.demotion <= a.demotion
        BY <1>1, <2>4 DEF Thousandths
    <2>6. b.priority <= a.priority
        BY <1>1, <2>2, <2>3, <2>5, Zenon DEF Ordered
    <2>7. a.priority <= b.priority
        BY <1>1, <2>3, <2>4, SortedFalls
    <2> QED BY <2>4, <2>6, <2>7 DEF Thousandths
<1>2. ASSUME RInv, NEW t \in Time, Prioritize(t), OrderPreserving,
             NEW i \in DOMAIN queue, NEW j \in DOMAIN queue,
             NEW x \in DOMAIN queue', NEW y \in DOMAIN queue',
             queue'[x].id = queue[i].id, queue'[y].id = queue[j].id,
             queue[i].demotion >= queue[j].demotion,
             NoMoreUrgent(queue[j].before, queue[i].before)
      PROVE  NoMoreUrgent(queue'[y].before, queue'[x].before)
    <2> DEFINE a == queue[i]
               b == queue[j]
               r == queue'[x].before
               q == queue'[y].before
    <2>1. Settled(a) /\ Settled(b) /\ Ordered(queue)
        BY <1>2, Zenon DEF RInv, QueueInv
    <2>2. r = incident[a.id] /\ q = incident[b.id]
        BY <1>2, PrioritizedIs
    <2>3. a.demotion >= b.demotion /\ NoMoreUrgent(b.before, a.before)
        BY <1>2
    <2>4. b.demotion <= a.demotion => b.priority <= a.priority
        BY <1>2, <2>1, <2>3, Zenon DEF Ordered
    <2> HIDE DEF a, b, r, q
    <2>5. /\ a.priority \in Thousandths /\ b.priority \in Thousandths
          /\ a.demotion \in Thousandths /\ b.demotion \in Thousandths
        BY <2>1, Zenon DEF Settled, Ranked
    <2>6. b.priority <= a.priority
        BY <2>3, <2>4, <2>5 DEF Thousandths
    <2>7. Written(b.priority) <= Written(a.priority)
        BY <2>5, <2>6, WrittenGrows
    <2>8. /\ r.confidence = Written(a.priority) /\ q.confidence = Written(b.priority)
          /\ r.root = a.before.root /\ q.root = b.before.root
          /\ r.score = a.before.score /\ q.score = b.before.score
          /\ r.eta = a.before.eta /\ q.eta = b.before.eta
        BY <2>1, <2>2, Zenon DEF Settled, Shows
    <2>9. NoMoreUrgent(q, r)
        BY <2>3, <2>7, <2>8, Zenon DEF NoMoreUrgent, BlastFactor, AssetCriticality
    <2> QED BY <2>9 DEF r, q
<1>3. RInv /\ RInv' /\ [RankingNext]_allvars => [Kept]_allvars
    <2> SUFFICES ASSUME RInv, RInv', RankingNext PROVE Kept
        OBVIOUS
    <2> SUFFICES ASSUME NEW i \in DOMAIN queue, NEW j \in DOMAIN queue,
                        NEW x \in DOMAIN queue', NEW y \in DOMAIN queue',
                        queue'[x].id = queue[i].id, queue'[y].id = queue[j].id, y < x,
                        Dominates(queue[i].before, queue[j].before),
                        queue[i].demotion >= queue[j].demotion,
                        queue'[x].demotion >= queue'[y].demotion, OrderPreserving'
                 PROVE  queue'[x].priority = queue'[y].priority
        OBVIOUS
    <2>1. CASE \E t \in Time : Prioritize(t)
        <3>1. PICK t \in Time : Prioritize(t)
            BY <2>1
        <3>2. OrderPreserving
            <4>1. method' = method /\ calibrator' = calibrator
                BY <3>1 DEF Prioritize
            <4> QED BY <4>1, Zenon DEF OrderPreserving, Rising
        <3>3. NoMoreUrgent(queue[j].before, queue[i].before) =>
                  NoMoreUrgent(queue'[y].before, queue'[x].before)
            BY <1>2, <3>1, <3>2
        <3> QED BY <1>1, <3>3
    <2>2. CASE queue' = queue
        <3>1. OneEach(queue)
            BY DEF RInv, QueueInv
        <3>2. queue'[x] = queue[i] /\ queue'[y] = queue[j]
            BY <2>2, <3>1, Zenon DEF OneEach
        <3> QED BY <1>1, <3>2
    <2>3. (\E t \in Time : Prioritize(t)) \/ queue' = queue
        BY DEF RankingNext, Flap, Forget, Fit, triage
    <2> QED BY <2>1, <2>2, <2>3
<1> QED BY RankingInductive, <1>3, PTL DEF RankingSpec, RankingAgainKeepsOrder

LEMMA PenaltyRangeNext ==
    IInv' => (\A e \in Entities : \A t \in Time : PenaltyOf(e, t) \in 0..MaxPenalty)'
<1>1. IInv => \A e \in Entities : \A t \in Time : PenaltyOf(e, t) \in 0..MaxPenalty
    BY PenaltyRange
<1> QED BY <1>1, PTL

(* "repeatedly-firing entities are demoted": with times in order, a flap    *)
(* never raises the priority its entity's incidents would get, now or       *)
(* later, under any calibration.                                            *)
THEOREM FlapsNeverRaise == MaxLag = 0 => (RankingSpec => FlapNeverRaisesPriority)
<1> DEFINE Raised(e) ==
        lastUpdate'[e] # lastUpdate[e] /\ lastUpdate'[e] # None =>
            \A i \in {j \in Incidents : incident[j].root = e} :
                LET calm == calibrator[GeometricMean(incident[i])]
                IN \A u \in Time :
                      u >= now' => Demoted(calm, DemotionFactor(e, u)')
                                     <= Demoted(calm, DemotionFactor(e, u))
<1> SUFFICES ASSUME MaxLag = 0 PROVE RankingSpec => FlapNeverRaisesPriority
    OBVIOUS
<1>1. ASSUME RInv, NEW e \in Entities, NEW t \in Time, NEW flaps \in 1..MaxFlaps,
             Observe(e, t, flaps), NEW i \in Incidents, NEW u \in Time, u >= now'
      PROVE  Demoted(calibrator[GeometricMean(incident[i])], DemotionFactor(e, u)')
               <= Demoted(calibrator[GeometricMean(incident[i])], DemotionFactor(e, u))
    <2> DEFINE calm == calibrator[GeometricMean(incident[i])]
    <2>1. IInv /\ IInv' /\ incident[i] \in Incident
        BY <1>1, ObserveIInv DEF RInv
    <2>2. calm \in Thousandths /\ calm <= calm
        <3>1. calibrator \in [Percents -> 0..1000]
            BY <1>1, Zenon DEF RInv, CurveInv
        <3>2. calm \in Thousandths
            BY <2>1, <3>1, CurveIs
        <3> QED BY <3>2 DEF Thousandths
    <2>3. PenaltyOf(e, u)' >= PenaltyOf(e, u)
        BY <1>1, <2>1, ObserveRaises
    <2>4. PenaltyOf(e, u) \in 0..MaxPenalty
        BY <2>1, PenaltyRange
    <2>5. PenaltyOf(e, u)' \in 0..MaxPenalty
        BY <2>1, PenaltyRangeNext
    <2>6. /\ DemotionAt(PenaltyOf(e, u)') <= DemotionAt(PenaltyOf(e, u))
          /\ DemotionAt(PenaltyOf(e, u)') \in Thousandths
          /\ DemotionAt(PenaltyOf(e, u)) \in Thousandths
        BY <2>3, <2>4, <2>5, ThresholdAssumption, DemotionFalls
    <2> HIDE DEF calm
    <2>7. Demoted(calm, DemotionAt(PenaltyOf(e, u)')) <= Demoted(calm, DemotionAt(PenaltyOf(e, u)))
        BY <2>2, <2>6, DemotedGrows
    <2> QED BY <2>7, Zenon DEF DemotionFactor, calm
<1>2. RInv /\ [RankingNext]_allvars => [\A e \in Entities : Raised(e)]_allvars
    <2> SUFFICES ASSUME RInv, RankingNext, NEW e \in Entities PROVE Raised(e)
        OBVIOUS
    <2>1. ASSUME NEW d \in Entities, NEW t \in Time, NEW flaps \in 1..MaxFlaps, Flap(d, t, flaps)
          PROVE  Raised(e)
        <3>1. Observe(d, t, flaps)
            BY <2>1 DEF Flap
        <3>2. CASE d = e
            BY <1>1, <3>1, <3>2
        <3>3. CASE d # e
            BY <3>1, <3>3 DEF Observe, RInv, IInv, TypeOK
        <3> QED BY <3>2, <3>3
    <2>2. CASE Forget
        <3>1. lastUpdate'[e] = None \/ lastUpdate'[e] = lastUpdate[e]
            BY <2>2 DEF Forget, Reset, Fresh, ResetAll, RInv, IInv, TypeOK
        <3> QED BY <3>1
    <2>3. CASE (\E s \in Samples : Fit(s)) \/ (\E t \in Time : Prioritize(t))
        <3>1. lastUpdate' = lastUpdate
            BY <2>3 DEF Fit, Prioritize, vars
        <3> QED BY <3>1
    <2> QED BY <2>1, <2>2, <2>3 DEF RankingNext
<1> QED BY RankingInductive, <1>2, PTL DEF RankingSpec, FlapNeverRaisesPriority
-------------------------------------------------------------------------------
(* The nodes within k hops downstream of n.                                 *)
Hops      == Cardinality(Twin.nodes)
Ball(n)   == Within(Twin, n)
Reach(n)  == Ball(n)[Hops]

(* Each hop adds, and it adds every successor of what was reached before.   *)
LEMMA BallGrows ==
    ASSUME NEW n \in Twin.nodes
    PROVE  /\ Hops \in Nat
           /\ Ball(n) \in [0..Hops -> SUBSET Twin.nodes]
           /\ Ball(n)[0] = {n}
           /\ \A k \in 1..Hops : Ball(n)[k] = Ball(n)[k - 1] \cup Successors(Twin, Ball(n)[k - 1])
BY BallIs DEF Ball, Hops

(* After as many hops as there are nodes nothing is left to add.            *)
LEMMA ReachIsClosed ==
    ASSUME NEW n \in Twin.nodes
    PROVE  /\ n \in Reach(n)
           /\ Reach(n) \subseteq Twin.nodes
           /\ Successors(Twin, Reach(n)) \subseteq Reach(n)
<1> DEFINE B == Ball(n)
           T == {k \in 0..Hops : /\ n \in B[k]
                                 /\ \/ Successors(Twin, B[k]) \subseteq B[k]
                                    \/ Cardinality(B[k]) > k}
<1>1. /\ Hops \in Nat /\ B \in [0..Hops -> SUBSET Twin.nodes] /\ B[0] = {n}
      /\ \A k \in 1..Hops : B[k] = B[k - 1] \cup Successors(Twin, B[k - 1])
    BY BallGrows
<1> HIDE DEF B
<1>2. 0 \in T
    <2>1. Cardinality({n}) = 1 /\ 1 > 0
        BY FS_Singleton
    <2>2. 0 \in 0..Hops /\ n \in B[0] /\ Cardinality(B[0]) > 0
        BY <1>1, <2>1
    <2> QED BY <2>2
<1>3. ASSUME NEW k \in 0..Hops, k \in T, k < Hops PROVE k + 1 \in T
    <2>1. k + 1 \in 1..Hops /\ k + 1 \in 0..Hops /\ (k + 1) - 1 = k
        BY <1>1, <1>3
    <2>2. B[k + 1] = B[k] \cup Successors(Twin, B[k])
        BY <1>1, <2>1
    <2>3. CASE Successors(Twin, B[k]) \subseteq B[k]
        <3>1. B[k + 1] = B[k]
            BY <2>2, <2>3
        <3> QED BY <1>3, <2>1, <2>3, <3>1
    <2>4. CASE ~(Successors(Twin, B[k]) \subseteq B[k]) /\ Cardinality(B[k]) > k
        <3>1. /\ IsFiniteSet(B[k + 1]) /\ IsFiniteSet(B[k])
              /\ Cardinality(B[k + 1]) \in Nat /\ Cardinality(B[k]) \in Nat
            <4>1. B[k + 1] \subseteq Twin.nodes /\ B[k] \subseteq Twin.nodes
                BY <1>1, <1>3, <2>1
            <4> QED BY <4>1, TwinIs, FS_Subset, FS_CardinalityType
        <3>2. B[k] \subseteq B[k + 1] /\ B[k] # B[k + 1]
            BY <2>2, <2>4
        <3>3. Cardinality(B[k]) <= Cardinality(B[k + 1]) /\ Cardinality(B[k]) # Cardinality(B[k + 1])
            BY <3>1, <3>2, FS_Subset
        <3>4. Cardinality(B[k + 1]) > k + 1
            BY <1>3, <2>4, <3>1, <3>3
        <3>5. n \in B[k + 1]
            BY <1>3, <3>2
        <3> QED BY <2>1, <3>4, <3>5
    <2> QED BY <1>3, <2>3, <2>4
<1>4. Hops \in T
    <2>1. \A k \in 0..Hops : k \in T
        <3> HIDE DEF T
        <3> QED BY <1>1, <1>2, <1>3, Climb
    <2>2. Hops \in 0..Hops
        BY <1>1
    <2> HIDE DEF T
    <2> QED BY <2>1, <2>2
<1>5. B[Hops] \subseteq Twin.nodes /\ Hops \in 0..Hops
    BY <1>1
<1>6. Cardinality(B[Hops]) <= Hops /\ Cardinality(B[Hops]) \in Nat
    <2>1. IsFiniteSet(B[Hops]) /\ Cardinality(B[Hops]) <= Cardinality(Twin.nodes)
        BY <1>5, TwinIs, FS_Subset
    <2> QED BY <2>1, FS_CardinalityType DEF Hops
<1>7. ~(Cardinality(B[Hops]) > Hops)
    BY <1>1, <1>6
<1> QED BY <1>4, <1>5, <1>7 DEF Reach, B

(* What is j hops from a node that is i hops away is at most i + j away.    *)
LEMMA HopsAdd ==
    ASSUME NEW n \in Twin.nodes, NEW m \in Reach(n),
           NEW i \in 0..Hops, m \in Ball(n)[i],
           NEW j \in 0..Hops
    PROVE  /\ Ball(m)[j] \subseteq Reach(n)
           /\ i + j \in 0..Hops => Ball(m)[j] \subseteq Ball(n)[i + j]
<1>0. m \in Twin.nodes /\ Hops \in Nat
    BY BallGrows, ReachIsClosed
<1> DEFINE T == {k \in 0..Hops : /\ Ball(m)[k] \subseteq Reach(n)
                                 /\ i + k \in 0..Hops => Ball(m)[k] \subseteq Ball(n)[i + k]}
<1>1. 0 \in T
    <2>1. Ball(m)[0] = {m} /\ i + 0 = i /\ 0 \in 0..Hops
        BY <1>0, BallGrows
    <2> QED BY <2>1
<1>2. ASSUME NEW k \in 0..Hops, k \in T, k < Hops PROVE k + 1 \in T
    <2>1. k + 1 \in 1..Hops /\ k + 1 \in 0..Hops /\ (k + 1) - 1 = k
        BY <1>0, <1>2
    <2>2. Ball(m)[k + 1] = Ball(m)[k] \cup Successors(Twin, Ball(m)[k])
        BY <1>0, <2>1, BallGrows
    <2>3. Ball(m)[k] \subseteq Reach(n)
        BY <1>2
    <2>4. Ball(m)[k + 1] \subseteq Reach(n)
        BY <2>2, <2>3, ReachIsClosed DEF Successors
    <2>5. ASSUME i + (k + 1) \in 0..Hops PROVE Ball(m)[k + 1] \subseteq Ball(n)[i + (k + 1)]
        <3>1. /\ i + k \in 0..Hops /\ i + (k + 1) \in 1..Hops /\ (i + (k + 1)) - 1 = i + k
            BY <1>0, <2>5
        <3>2. Ball(n)[i + (k + 1)] = Ball(n)[i + k] \cup Successors(Twin, Ball(n)[i + k])
            BY <3>1, BallGrows
        <3>3. Ball(m)[k] \subseteq Ball(n)[i + k]
            BY <1>2, <3>1
        <3> QED BY <2>2, <3>2, <3>3 DEF Successors
    <2> QED BY <2>1, <2>4, <2>5
<1>3. \A k \in 0..Hops : k \in T
    <2> HIDE DEF T
    <2> QED BY <1>0, <1>1, <1>2, Climb
<1> QED BY <1>3

(* The distance a blast radius gives a node, and that it is one.            *)
Distance(n, x) == Min({k \in DOMAIN Ball(n) : x \in Ball(n)[k]})

LEMMA DistanceIs ==
    ASSUME NEW n \in Twin.nodes, NEW x \in Reach(n)
    PROVE  /\ Distance(n, x) \in 0..Hops
           /\ x \in Ball(n)[Distance(n, x)]
           /\ \A k \in 0..Hops : x \in Ball(n)[k] => Distance(n, x) <= k
<1> DEFINE T == {k \in DOMAIN Ball(n) : x \in Ball(n)[k]}
<1>1. Hops \in Nat /\ DOMAIN Ball(n) = 0..Hops
    BY BallGrows
<1>2. T \in SUBSET Nat /\ Hops \in T
    BY <1>1 DEF Reach
<1>3. Min(T) \in T /\ \A y \in T : Min(T) <= y
    <2> HIDE DEF T
    <2> QED BY <1>2, MinOf
<1> QED BY <1>1, <1>3 DEF Distance

(* The parts of a node's blast radius.                                      *)
Touched(n) == {f \in Flows : \/ f.site \in {Twin.attr[x].site : x \in Reach(n) \ {n}}
                                              \cup {Twin.attr[n].site}
                             \/ f.device \in {Twin.attr[x].device : x \in Reach(n) \ {n}}
                                                \cup {Twin.attr[n].device}}

LEMMA BlastIs ==
    ASSUME NEW n \in Twin.nodes
    PROVE  /\ Blasts[n].nodes = Reach(n) \ {n}
           /\ \A x \in Reach(n) \ {n} : Blasts[n].hops[x] = Distance(n, x)
           /\ Blasts[n].services = UNION {Twin.attr[x].services : x \in Reach(n) \ {n}}
                                     \cup {f.vrf : f \in Touched(n)}
           /\ Blasts[n].flowCount = Cardinality(Touched(n))
<1>1. MapToNode(Twin, n) = n /\ n # NoNode
    BY TwinIs DEF MapToNode
<1>2. Blasts[n] = BlastRadius(Twin, n, Flows)
    BY Zenon DEF Blasts
<1>3. Blasts[n].nodes = Reach(n) \ {n}
    BY <1>1, <1>2 DEF BlastRadius, Reach, Ball, Hops
<1>4. Blasts[n].hops = [x \in Reach(n) \ {n} |-> Distance(n, x)]
    BY <1>1, <1>2 DEF BlastRadius, Reach, Ball, Hops, Distance
<1>5. Blasts[n].services = UNION {Twin.attr[x].services : x \in Reach(n) \ {n}}
                             \cup {f.vrf : f \in Touched(n)}
    BY <1>1, <1>2, SMTT(30) DEF BlastRadius, Reach, Ball, Hops, Touched
<1>6. Blasts[n].flowCount = Cardinality(Touched(n))
    BY <1>1, <1>2, SMTT(30) DEF BlastRadius, Reach, Ball, Hops, Touched
<1> QED BY <1>3, <1>4, <1>5, <1>6

(* Whatever the network, a blast radius holds those of the nodes in it:     *)
(* what lies downstream of an affected node is affected, no further away    *)
(* than through that node, with the services and flows it carries.          *)
THEOREM BlastsReachThrough == \A n \in Twin.nodes : ReachesThrough(Twin, Blasts, n)
<1> SUFFICES ASSUME NEW n \in Twin.nodes, NEW m \in Blasts[n].nodes
             PROVE  /\ \A k \in Blasts[m].nodes \ {n} :
                          /\ k \in Blasts[n].nodes
                          /\ Blasts[n].hops[k] <= Blasts[n].hops[m] + Blasts[m].hops[k]
                    /\ Blasts[m].services \cup Twin.attr[m].services
                         \subseteq Blasts[n].services \cup Twin.attr[n].services
                    /\ Blasts[m].flowCount <= Blasts[n].flowCount
    BY Zenon DEF ReachesThrough
<1>1. m \in Reach(n) /\ m # n /\ m \in Twin.nodes /\ Hops \in Nat /\ Hops \in 0..Hops
    BY BlastIs, ReachIsClosed, BallGrows
<1>2. Reach(m) \subseteq Reach(n)
    <2>1. m \in Ball(n)[Hops]
        BY <1>1 DEF Reach
    <2> QED BY <1>1, <2>1, HopsAdd DEF Reach
<1>3. ASSUME NEW k \in Blasts[m].nodes \ {n}
      PROVE  /\ k \in Blasts[n].nodes
             /\ Blasts[n].hops[k] <= Blasts[n].hops[m] + Blasts[m].hops[k]
    <2> DEFINE i == Distance(n, m)
               j == Distance(m, k)
    <2>1. k \in Reach(m) \ {m} /\ k \in Reach(n) \ {n}
        BY <1>1, <1>2, <1>3, BlastIs
    <2>2. /\ i \in 0..Hops /\ m \in Ball(n)[i]
          /\ j \in 0..Hops /\ k \in Ball(m)[j]
          /\ Distance(n, k) \in 0..Hops
        BY <1>1, <2>1, DistanceIs
    <2>3. CASE i + j \in 0..Hops
        <3>1. k \in Ball(n)[i + j]
            BY <1>1, <2>2, <2>3, HopsAdd
        <3>2. Distance(n, k) <= i + j
            BY <2>1, <2>3, <3>1, DistanceIs
        <3> QED BY <1>1, <2>1, <3>2, BlastIs
    <2>4. CASE i + j \notin 0..Hops
        <3>1. Distance(n, k) <= i + j
            BY <1>1, <2>2, <2>4
        <3> QED BY <1>1, <2>1, <3>1, BlastIs
    <2> QED BY <2>3, <2>4
<1>4. Touched(m) \subseteq Touched(n)
    BY <1>1, <1>2 DEF Touched
<1>5. Blasts[m].flowCount <= Blasts[n].flowCount
    <2>1. Touched(n) \subseteq Flows /\ IsFiniteSet(Flows)
        BY RankingAssumption DEF Touched
    <2>2. IsFiniteSet(Touched(n))
        BY <2>1, FS_Subset
    <2>3. Cardinality(Touched(m)) <= Cardinality(Touched(n))
        BY <1>4, <2>2, FS_Subset
    <2> QED BY <1>1, <2>3, BlastIs
<1>6. Blasts[m].services \cup Twin.attr[m].services
        \subseteq Blasts[n].services \cup Twin.attr[n].services
    <2>1. Blasts[m].services = UNION {Twin.attr[x].services : x \in Reach(m) \ {m}}
                                 \cup {f.vrf : f \in Touched(m)}
        BY <1>1, BlastIs
    <2>2. Blasts[n].services = UNION {Twin.attr[x].services : x \in Reach(n) \ {n}}
                                 \cup {f.vrf : f \in Touched(n)}
        BY BlastIs
    <2> QED BY <1>1, <1>2, <1>4, <2>1, <2>2
<1> QED BY <1>3, <1>5, <1>6
-------------------------------------------------------------------------------
(* The device of an interface, a tunnel or a session is the device it is on. *)
LEMMA DeviceOfSub ==
    ASSUME NEW d, NEW sub
    PROVE  Device(SubEntityId(d, sub)) = d
<1> DEFINE S == {Devices[d].site, d, Devices[d].role, sub}
<1>1. DeviceEntityId(d) \in Seq(S) /\ Len(DeviceEntityId(d)) = 3 /\ DeviceEntityId(d)[2] = d
    BY DEF DeviceEntityId
<1>2. Append(DeviceEntityId(d), sub)[2] = DeviceEntityId(d)[2]
    <2>1. ASSUME NEW T, NEW s \in Seq(T), NEW x \in T, Len(s) = 3
          PROVE  Append(s, x)[2] = s[2]
        <3>1. 2 \in 1..Len(s)
            BY <2>1
        <3> QED BY <2>1, <3>1, AppendProperties, SMTT(30)
    <2> HIDE DEF S
    <2>2. sub \in S
        BY DEF S
    <2> QED BY <1>1, <2>1, <2>2, Zenon
<1> QED BY <1>1, <1>2, Zenon DEF Device, SubEntityId

LEMMA DemoDevices ==
    DeviceNames = {"p1", "p2", "p3", "p4", "pe_dc1", "pe_dc2", "ce_dc", "rr_dc", "pe_hub",
                   "ce_hub", "ce_br1", "ce_br2", "ce_br3", "sdwan_ctl"}
BY DEF DeviceNames, Devices

(* The incidents of the demo are as its three methods build them.           *)
DemoIncidents(e) == {IncidentCongestion(e), IncidentTunnel(e), IncidentBgpFlap(e)}

IsSound(i, nodes) == /\ i.score \in Nat
                     /\ i.playbook \in Seq({ReadOnly, Change, Impact})
                     /\ Device(i.root) \in nodes
                     /\ i.devices \subseteq nodes

LEMMA DemoIncidentsAreSound ==
    ASSUME NEW e, NEW i \in DemoIncidents(e)
    PROVE  IsSound(i, DeviceNames) /\ i.score \in 41..88
<1>1. CASE i = IncidentCongestion(e)
    <2>1. i.score = 88 /\ i.playbook = <<ReadOnly, ReadOnly, Change, Impact>> /\ i.root = HubUplink
          /\ i.devices = {"pe_hub", "ce_hub", "ce_br1", "ce_br2", "ce_br3"}
        BY <1>1 DEF IncidentCongestion
    <2>2. Device(HubUplink) = "pe_hub"
        BY DeviceOfSub, Zenon DEF HubUplink
    <2> HIDE DEF ReadOnly, Change, Impact
    <2>3. i.playbook \in Seq({ReadOnly, Change, Impact})
        BY <2>1
    <2>4. Device(i.root) \in DeviceNames /\ i.devices \subseteq DeviceNames
        BY <2>1, <2>2, DemoDevices
    <2> QED BY <2>1, <2>3, <2>4 DEF IsSound
<1>2. CASE i = IncidentTunnel(e)
    <2>1. i.score = 66 /\ i.playbook = <<ReadOnly, Change>> /\ i.root = SubEntityId("ce_br3", "tunnel_hub")
          /\ i.devices = {"ce_br3", "p3", "p4"}
        BY <1>2 DEF IncidentTunnel
    <2>2. Device(SubEntityId("ce_br3", "tunnel_hub")) = "ce_br3"
        BY DeviceOfSub, Zenon
    <2>3. i.playbook \in Seq({ReadOnly, Change, Impact})
        BY <2>1
    <2>4. Device(i.root) \in DeviceNames /\ i.devices \subseteq DeviceNames
        BY <2>1, <2>2, DemoDevices
    <2> QED BY <2>1, <2>3, <2>4 DEF IsSound
<1>3. CASE i = IncidentBgpFlap(e)
    <2>1. i.score = 41 /\ i.playbook = <<ReadOnly, Change>> /\ i.root = SubEntityId("rr_dc", "peer_pe_hub")
          /\ i.devices = {"rr_dc", "pe_hub", "pe_dc1"}
        BY <1>3 DEF IncidentBgpFlap
    <2>2. Device(SubEntityId("rr_dc", "peer_pe_hub")) = "rr_dc"
        BY DeviceOfSub, Zenon
    <2>3. i.playbook \in Seq({ReadOnly, Change, Impact})
        BY <2>1
    <2>4. Device(i.root) \in DeviceNames /\ i.devices \subseteq DeviceNames
        BY <2>1, <2>2, DemoDevices
    <2> QED BY <2>1, <2>3, <2>4 DEF IsSound
<1> QED BY <1>1, <1>2, <1>3, Zenon DEF DemoIncidents

(* Every link and overlay tunnel the demo draws joins two of its devices.   *)
LEMMA DemoEdgesJoinDevices == Links \cup OverlayPairs \subseteq DeviceNames \X DeviceNames
BY DemoDevices DEF Links, OverlayPairs

(* The edges of a twin join nodes of it.                                    *)
LEMMA TwinIsClosed ==
    ASSUME NEW attr, NEW edges
    PROVE  \A x \in FromSpec(attr, edges).edges :
               x \in FromSpec(attr, edges).nodes \X FromSpec(attr, edges).nodes
<1> DEFINE ends == UNION {{e.source, e.target} : e \in edges}
<1>1. FromSpec(attr, edges).nodes = DOMAIN attr \cup ends
    BY DEF FromSpec
<1>2. FromSpec(attr, edges).edges = {<<e.source, e.target>> : e \in edges}
                    \cup {<<e.target, e.source>> : e \in {x \in edges : ~x.directed}}
    BY DEF FromSpec
<1>3. \A e \in edges : e.source \in ends /\ e.target \in ends
    BY Zenon
<1> HIDE DEF ends
<1> QED BY <1>1, <1>2, <1>3
LEMMA DemoQueue ==
    ASSUME NEW e
    PROVE  /\ BuildIncidents(e) \in [1..3 -> DemoIncidents(e)]
           /\ BuildIncidents(e)[1] = IncidentCongestion(e)
           /\ BuildIncidents(e)[2] = IncidentTunnel(e)
           /\ BuildIncidents(e)[3] = IncidentBgpFlap(e)
<1> DEFINE S == DemoIncidents(e)
           InOrder(q) == \A m, n \in 1..3 : m < n => Precedes(q[m], q[n])
<1>1. PICK a, b, c : a = IncidentCongestion(e) /\ b = IncidentTunnel(e) /\ c = IncidentBgpFlap(e)
    OBVIOUS
<1>2. S = {a, b, c}
    BY <1>1 DEF DemoIncidents
<1>3. a.severity = "P1" /\ b.severity = "P2" /\ c.severity = "P3"
    BY <1>1 DEF IncidentCongestion, IncidentTunnel, IncidentBgpFlap
<1>4. SevRank(a.severity) = 0 /\ SevRank(b.severity) = 1 /\ SevRank(c.severity) = 2
    BY <1>3 DEF SevRank
<1>5. a.score \in Int /\ b.score \in Int /\ c.score \in Int
    BY <1>1 DEF IncidentCongestion, IncidentTunnel, IncidentBgpFlap
<1>6. /\ Precedes(a, b) /\ Precedes(a, c) /\ Precedes(b, c)
      /\ ~Precedes(b, a) /\ ~Precedes(c, a) /\ ~Precedes(c, b)
      /\ ~Precedes(a, a) /\ ~Precedes(b, b) /\ ~Precedes(c, c)
    BY <1>4, <1>5 DEF Precedes
<1> HIDE DEF S
<1>7. [n \in 1..3 |-> IF n = 1 THEN a ELSE IF n = 2 THEN b ELSE c] \in [1..3 -> S]
      /\ InOrder([n \in 1..3 |-> IF n = 1 THEN a ELSE IF n = 2 THEN b ELSE c])
    BY <1>2, <1>6
<1>8. BuildIncidents(e) = CHOOSE q \in [1..3 -> S] : InOrder(q)
    BY DEF BuildIncidents, S, DemoIncidents
<1>9. PICK q : q = BuildIncidents(e)
    OBVIOUS
<1>10. q \in [1..3 -> S] /\ InOrder(q)
    <2> HIDE DEF InOrder
    <2> QED BY <1>7, <1>8, <1>9
<1>11. q[1] \in {a, b, c} /\ q[2] \in {a, b, c} /\ q[3] \in {a, b, c}
    BY <1>2, <1>10
<1>12. Precedes(q[1], q[2]) /\ Precedes(q[2], q[3]) /\ Precedes(q[1], q[3])
    BY <1>10
<1>13. q[1] = a /\ q[2] = b /\ q[3] = c
    BY <1>6, <1>11, <1>12
<1> QED BY <1>1, <1>9, <1>10, <1>13 DEF S

-------------------------------------------------------------------------------
(* The provider is one that make_provider builds, or there is none yet.     *)
Built(e) == \/ provider = DemoProvider(e)
            \/ provider = StubProvider(e)
            \/ \E r \in Reports : provider = LiveProvider(r, e)

IsBuilt == \/ provider = [StubProvider(0) EXCEPT !.kind = "off"]
           \/ \E e \in 1..MaxRestarts : Built(e)

Ids     == {i.id : i \in Range(Q)}
DemoIds == {<<"INC-2026", 1>>, <<"INC-2026", 2>>, <<"INC-2026", 3>>}

(* What a provider and its queue are like.                                  *)
QueueIsSound ==
    /\ provider.epoch \in 0..MaxRestarts
    /\ Q \in Seq(Range(Q))
    /\ \A i \in Range(Q) : IsSound(i, Nodes) /\ i.id # Null
    /\ \A n \in DOMAIN Q : SevRank(Q[1].severity) <= SevRank(Q[n].severity)

DemoIsFixed ==
    provider.kind = "demo" => /\ Q # <<>>
                              /\ Q[1].root = HubUplink
                              /\ Ids = DemoIds
                              /\ \A i \in Range(Q) : i.score >= 41

LEMMA EmptyIsSound ==
    ASSUME provider.queue = <<>>, provider.epoch \in 0..MaxRestarts,
           provider.kind # "demo"
    PROVE  QueueIsSound /\ DemoIsFixed
<1>1. Range(Q) = {} /\ DOMAIN Q = {}
    BY DEF Range, Q
<1>2. Q \in Seq(Range(Q))
    BY <1>1 DEF Q
<1> QED BY <1>1, <1>2 DEF QueueIsSound, DemoIsFixed

LEMMA DemoIsSound ==
    ASSUME NEW e \in 1..MaxRestarts, provider = DemoProvider(e)
    PROVE  QueueIsSound /\ DemoIsFixed
<1>1. PICK q : q = BuildIncidents(e)
    OBVIOUS
<1>2. PICK a, b, c : a = IncidentCongestion(e) /\ b = IncidentTunnel(e) /\ c = IncidentBgpFlap(e)
    OBVIOUS
<1>3. q \in [1..3 -> DemoIncidents(e)] /\ q[1] = a /\ q[2] = b /\ q[3] = c
    BY <1>1, <1>2, DemoQueue
<1>4. Q = q /\ provider.epoch = e /\ provider.kind = "demo"
    BY <1>1 DEF Q, DemoProvider
<1>5. Range(q) = {a, b, c} /\ DOMAIN q = 1..3 /\ q \in [1..3 -> Range(q)]
    <2>1. DOMAIN q = {1, 2, 3}
        BY <1>3
    <2> QED BY <1>3, <2>1 DEF Range
<1>6. q \in Seq(Range(q))
    <2>1. ASSUME NEW n \in Nat, NEW R, NEW f \in [1..n -> R] PROVE f \in Seq(R)
        BY <2>1
    <2>2. 3 \in Nat
        OBVIOUS
    <2> QED BY <1>5, <2>1, <2>2, Zenon
<1>7. {a, b, c} = DemoIncidents(e)
    BY <1>2 DEF DemoIncidents
<1>8. \A i \in Range(Q) : IsSound(i, DeviceNames) /\ i.score >= 41
    <2> SUFFICES ASSUME NEW i \in Range(Q) PROVE IsSound(i, DeviceNames) /\ i.score >= 41
        OBVIOUS
    <2>1. i \in DemoIncidents(e)
        BY <1>4, <1>5, <1>7
    <2>2. IsSound(i, DeviceNames) /\ i.score \in 41..88
        BY <2>1, DemoIncidentsAreSound
    <2> QED BY <2>2
<1>9. Nodes = DeviceNames
    BY <1>4 DEF Nodes
<1>10. \A i \in Range(Q) : i.id # Null
    BY <1>1, <1>4, NullAssumption
<1>11. a.severity = "P1" /\ b.severity = "P2" /\ c.severity = "P3"
    BY <1>2 DEF IncidentCongestion, IncidentTunnel, IncidentBgpFlap
<1>12. SevRank(a.severity) = 0 /\ SevRank(b.severity) = 1 /\ SevRank(c.severity) = 2
    BY <1>11 DEF SevRank
<1>13. \A n \in DOMAIN Q : SevRank(Q[1].severity) <= SevRank(Q[n].severity)
    <2>1. \A n \in {1, 2, 3} : SevRank(Q[1].severity) <= SevRank(Q[n].severity)
        BY <1>3, <1>4, <1>12
    <2> QED BY <1>4, <1>5, <2>1
<1>14. a.root = HubUplink
    BY <1>2 DEF IncidentCongestion
<1>15. Ids = DemoIds
    <2>1. a.id = <<"INC-2026", 1>> /\ b.id = <<"INC-2026", 2>> /\ c.id = <<"INC-2026", 3>>
        BY <1>2 DEF IncidentCongestion, IncidentTunnel, IncidentBgpFlap, DemoId
    <2> QED BY <1>4, <1>5, <2>1, Zenon DEF Ids, DemoIds
<1>16. QueueIsSound
    <2>1. e \in 0..MaxRestarts
        BY RestartAssumption
    <2>2. \A i \in Range(Q) : IsSound(i, Nodes) /\ i.id # Null
        BY <1>8, <1>9, <1>10, Zenon
    <2> QED BY <1>4, <1>6, <1>13, <2>1, <2>2, Zenon DEF QueueIsSound
<1>17. Q # <<>>
    BY <1>4, <1>5
<1> QED BY <1>3, <1>4, <1>8, <1>14, <1>15, <1>16, <1>17, Zenon DEF DemoIsFixed

LEMMA LiveIsSound ==
    ASSUME NEW e \in 1..MaxRestarts, NEW r \in Reports, provider = LiveProvider(r, e)
    PROVE  QueueIsSound /\ DemoIsFixed
<1>1. PICK s : s = r.incidents
    OBVIOUS
<1>2. /\ s \in Seq(ReportedIncidents)
      /\ \A m, n \in DOMAIN s : m < n => SevRank(s[m].severity) <= SevRank(s[n].severity)
    BY <1>1, ReportAssumption
<1> DEFINE id(n) == <<"INC", n, e>>
<1>3. /\ Q = [n \in DOMAIN s |-> [s[n] EXCEPT !.id = id(n)]]
      /\ provider.epoch = e /\ provider.kind = "live"
    BY <1>1 DEF Q, LiveProvider
<1>4. DOMAIN s = 1..Len(s) /\ Len(s) \in Nat /\ \A n \in DOMAIN s : s[n] \in ReportedIncidents
    BY <1>2
<1>5. DOMAIN Q = 1..Len(s) /\ Q \in [1..Len(s) -> Range(Q)]
    BY <1>3, <1>4 DEF Range
<1>6. Q \in Seq(Range(Q))
    BY <1>4, <1>5
<1>7. \A n \in DOMAIN Q : IsSound(Q[n], TwinDevices) /\ SevRank(Q[n].severity) = SevRank(s[n].severity)
    <2> SUFFICES ASSUME NEW n \in DOMAIN Q
                 PROVE  IsSound(Q[n], TwinDevices) /\ SevRank(Q[n].severity) = SevRank(s[n].severity)
        OBVIOUS
    <2>1. PICK i \in ReportedIncidents : i = s[n]
        BY <1>3, <1>4
    <2>2. Q[n] = [i EXCEPT !.id = id(n)]
        BY <1>3, <2>1
    <2> HIDE DEF TwinDevices, ReadOnly, Change, Impact
    <2>3. /\ i.score \in 0..100 /\ i.playbook \in Seq({ReadOnly, Change, Impact})
          /\ i.root \in {x \in Seq(STRING) : Device(x) \in TwinDevices}
          /\ i.devices \in SUBSET TwinDevices
        BY DEF ReportedIncidents
    <2>4. /\ Q[n].score = i.score /\ Q[n].playbook = i.playbook /\ Q[n].root = i.root
          /\ Q[n].devices = i.devices /\ Q[n].severity = i.severity
        BY <2>2 DEF ReportedIncidents
    <2>5. i.score \in Nat
        <3>1. i.score \in 0..100
            BY <2>3, Zenon
        <3> QED BY <3>1
    <2>6. Device(i.root) \in TwinDevices
        BY <2>3, Zenon
    <2> QED BY <2>1, <2>3, <2>4, <2>5, <2>6, Zenon DEF IsSound
<1>8. Nodes = TwinDevices
    BY <1>3 DEF Nodes, TwinDevices
<1>9. \A i \in Range(Q) : IsSound(i, Nodes)
    BY <1>7, <1>8, Zenon DEF Range
<1>10. \A i \in Range(Q) : i.id # Null
    BY NullAssumption DEF Q
<1>11. \A n \in DOMAIN Q : SevRank(Q[1].severity) <= SevRank(Q[n].severity)
    <2> SUFFICES ASSUME NEW n \in DOMAIN Q PROVE SevRank(Q[1].severity) <= SevRank(Q[n].severity)
        OBVIOUS
    <2>1. n \in 1..Len(s) /\ 1 \in DOMAIN Q /\ DOMAIN Q = DOMAIN s
        BY <1>4, <1>5
    <2>2. SevRank(Q[1].severity) = SevRank(s[1].severity) /\ SevRank(Q[n].severity) = SevRank(s[n].severity)
        BY <1>7, <2>1
    <2>3. SevRank(s[n].severity) \in Nat
        BY DEF SevRank
    <2>4. CASE n = 1
        BY <2>2, <2>3, <2>4
    <2>5. CASE n # 1
        <3>1. 1 < n
            BY <2>1, <2>5, <1>4
        <3> QED BY <1>2, <2>1, <2>2, <3>1
    <2> QED BY <2>4, <2>5
<1>12. e \in 0..MaxRestarts
    BY RestartAssumption
<1>13. QueueIsSound
    BY <1>3, <1>6, <1>9, <1>10, <1>11, <1>12, Zenon DEF QueueIsSound
<1> QED BY <1>3, <1>13 DEF DemoIsFixed

LEMMA BuiltIsSound == IsBuilt => QueueIsSound /\ DemoIsFixed
<1> SUFFICES ASSUME IsBuilt PROVE QueueIsSound /\ DemoIsFixed
    OBVIOUS
<1>1. CASE provider = [StubProvider(0) EXCEPT !.kind = "off"]
    <2>1. provider.queue = <<>> /\ provider.epoch = 0 /\ provider.kind = "off"
        BY <1>1 DEF StubProvider
    <2> QED BY <2>1, EmptyIsSound, RestartAssumption
<1>2. ASSUME NEW e \in 1..MaxRestarts, provider = StubProvider(e)
      PROVE  QueueIsSound /\ DemoIsFixed
    <2>1. provider.queue = <<>> /\ provider.epoch = e /\ provider.kind = "stub"
        BY <1>2 DEF StubProvider
    <2> QED BY <2>1, EmptyIsSound, RestartAssumption
<1> QED BY <1>1, <1>2, DemoIsSound, LiveIsSound DEF IsBuilt, Built

-------------------------------------------------------------------------------
(* The risks a device is drawn with: of the incidents rooted in it, and of  *)
(* those it is downstream of.                                               *)
RootRisks(d)  == {10 * i.score : i \in {x \in Range(Q) : d = Device(x.root)}}
BlastRisks(d) == {5 * i.score : i \in {x \in Range(Q) : d \in x.devices}}

LEMMA RisksAreFinite ==
    ASSUME QueueIsSound, NEW d
    PROVE  /\ RootRisks(d) \cup BlastRisks(d) \subseteq Nat
           /\ IsFiniteSet(RootRisks(d) \cup BlastRisks(d))
<1> DEFINE R == {x \in Range(Q) : d = Device(x.root)}
           B == {x \in Range(Q) : d \in x.devices}
<1>1. IsFiniteSet(Range(Q))
    <2>1. Q \in Seq(Range(Q))
        BY DEF QueueIsSound
    <2>2. PICK n \in Nat : DOMAIN Q = 1..n
        BY <2>1
    <2>3. IsFiniteSet(1..n)
        BY FS_Interval
    <2>4. IsFiniteSet({Q[x] : x \in DOMAIN Q})
        BY <2>2, <2>3, ImageIsFinite
    <2> QED BY <2>4, Zenon DEF Range
<1>2. IsFiniteSet(R) /\ IsFiniteSet(B)
    BY <1>1, FS_Subset
<1>3. \A i \in Range(Q) : i.score \in Nat
    BY DEF QueueIsSound, IsSound
<1>4. IsFiniteSet(RootRisks(d))
    <2> DEFINE f == [i \in R |-> 10 * i.score]
    <2>1. DOMAIN f = R
        OBVIOUS
    <2> HIDE DEF f
    <2>2. IsFiniteSet({f[i] : i \in R})
        BY <1>2, <2>1, ImageIsFinite
    <2>3. {f[i] : i \in R} = RootRisks(d)
        BY DEF f, RootRisks
    <2> QED BY <2>2, <2>3
<1>5. IsFiniteSet(BlastRisks(d))
    <2> DEFINE f == [i \in B |-> 5 * i.score]
    <2>1. DOMAIN f = B
        OBVIOUS
    <2> HIDE DEF f
    <2>2. IsFiniteSet({f[i] : i \in B})
        BY <1>2, <2>1, ImageIsFinite
    <2>3. {f[i] : i \in B} = BlastRisks(d)
        BY DEF f, BlastRisks
    <2> QED BY <2>2, <2>3
<1>6. RootRisks(d) \cup BlastRisks(d) \subseteq Nat
    BY <1>3 DEF RootRisks, BlastRisks
<1> QED BY <1>4, <1>5, <1>6, FS_Union

(* A device is drawn no cooler than any incident rooted in it, and no       *)
(* cooler than half of any it is downstream of.                             *)
LEMMA RiskIsTheMost ==
    ASSUME QueueIsSound, NEW d
    PROVE  /\ \A i \in Range(Q) : d = Device(i.root) => AffectedRisk(d) >= 10 * i.score
           /\ \A i \in Range(Q) : d \in i.devices => AffectedRisk(d) >= 5 * i.score
           /\ Affected(d) => AffectedRisk(d) \in Nat
<1> DEFINE S == RootRisks(d) \cup BlastRisks(d)
<1>1. S \subseteq Nat /\ IsFiniteSet(S)
    BY RisksAreFinite
<1>2. AffectedRisk(d) = Max(S)
    BY Zenon DEF AffectedRisk, RootRisks, BlastRisks
<1>3. \A i \in Range(Q) : /\ d = Device(i.root) => 10 * i.score \in S
                          /\ d \in i.devices => 5 * i.score \in S
    BY Zenon DEF RootRisks, BlastRisks
<1>4. Affected(d) => S # {}
    <2> SUFFICES ASSUME Affected(d) PROVE S # {}
        OBVIOUS
    <2>1. PICK i \in Range(Q) : d = Device(i.root) \/ d \in i.devices
        BY Zenon DEF Affected, RootDevices, BlastDevices
    <2> QED BY <1>3, <2>1
<1> HIDE DEF S
<1>5. S # {} => Max(S) \in Nat /\ \A y \in S : y <= Max(S)
    <2>1. S \in SUBSET Int
        BY <1>1
    <2> QED BY <1>1, <2>1, FiniteMax
<1>6. \A y \in S : AffectedRisk(d) >= y
    BY <1>1, <1>2, <1>5
<1> QED BY <1>2, <1>3, <1>4, <1>5, <1>6

(* An edge of the topology view joins two of its nodes.                     *)
LEMMA EdgesJoinNodes ==
    \A e \in DrawnEdges : \E a, b \in Nodes : e = <<a, b>>
<1>1. CASE provider.kind = "demo"
    <2>1. DrawnEdges = Links \cup OverlayPairs /\ Nodes = DeviceNames
        BY <1>1 DEF DrawnEdges, Nodes
    <2> QED BY <2>1, DemoEdgesJoinDevices
<1>2. CASE provider.kind # "demo"
    <2>1. DrawnEdges = {<<Device(x[1]), Device(x[2])>> : x \in PipelineTwin.edges}
          /\ Nodes = {Device(n) : n \in PipelineTwin.nodes}
        BY <1>2 DEF DrawnEdges, Nodes
    <2>2. \A x \in PipelineTwin.edges : x \in PipelineTwin.nodes \X PipelineTwin.nodes
        BY TwinIsClosed, Zenon DEF PipelineTwin
    <2> SUFFICES ASSUME NEW e \in DrawnEdges PROVE \E a, b \in Nodes : e = <<a, b>>
        OBVIOUS
    <2>3. PICK x \in PipelineTwin.edges : e = <<Device(x[1]), Device(x[2])>>
        BY <2>1
    <2>4. x[1] \in PipelineTwin.nodes /\ x[2] \in PipelineTwin.nodes
        BY <2>2
    <2>5. Device(x[1]) \in Nodes /\ Device(x[2]) \in Nodes
        BY <2>1, <2>4, Zenon
    <2> QED BY <2>3, <2>5, Zenon
<1> QED BY <1>1, <1>2

LEMMA TopologyIsTrue == QueueIsSound /\ DemoIsFixed => TopologyShowsIncidents
<1> SUFFICES ASSUME QueueIsSound, DemoIsFixed PROVE TopologyShowsIncidents
    OBVIOUS
<1>1. \A i \in Range(Q) : i.score \in Nat /\ Device(i.root) \in Nodes /\ i.devices \subseteq Nodes
    BY Zenon DEF QueueIsSound, IsSound
<1>2. \A e \in DrawnEdges : Range(e) \subseteq Nodes /\ IsFiniteSet(Range(e))
    <2> SUFFICES ASSUME NEW e \in DrawnEdges PROVE Range(e) \subseteq Nodes /\ IsFiniteSet(Range(e))
        OBVIOUS
    <2>1. PICK a, b \in Nodes : e = <<a, b>>
        BY EdgesJoinNodes
    <2>2. Range(e) = {a, b}
        <3>1. DOMAIN e = {1, 2} /\ e[1] = a /\ e[2] = b
            BY <2>1
        <3> QED BY <3>1, Zenon DEF Range
    <2>3. IsFiniteSet({a, b})
        <3>1. IsFiniteSet({a} \cup {b})
            BY FS_Singleton, FS_Union
        <3>2. {a} \cup {b} = {a, b}
            OBVIOUS
        <3> QED BY <3>1, <3>2
    <2> QED BY <2>1, <2>2, <2>3
<1>3. RootDevices \cup BlastDevices \cup UNION {Range(e) : e \in DrawnEdges} \subseteq Nodes
    <2>1. RootDevices \subseteq Nodes
        BY <1>1, Zenon DEF RootDevices
    <2>2. BlastDevices \subseteq Nodes
        BY <1>1, Zenon DEF BlastDevices
    <2>3. UNION {Range(e) : e \in DrawnEdges} \subseteq Nodes
        BY <1>2, Zenon
    <2> QED BY <2>1, <2>2, <2>3
<1>4. \A i \in Range(Q) : /\ AffectedRisk(Device(i.root)) >= 10 * i.score
                          /\ \A d \in i.devices : AffectedRisk(d) >= 5 * i.score
    BY RiskIsTheMost, Zenon
<1>5. ASSUME provider.kind = "demo", NEW d \in BlastDevices
      PROVE  AffectedRisk(d) > MaxBaseline
    <2>1. PICK i \in Range(Q) : d \in i.devices
        BY Zenon DEF BlastDevices
    <2>2. i.score >= 41 /\ i.score \in Nat
        BY <1>1, <1>5 DEF DemoIsFixed
    <2>3. Affected(d)
        BY Zenon DEF Affected
    <2>4. AffectedRisk(d) >= 5 * i.score /\ AffectedRisk(d) \in Nat
        BY <2>1, <2>3, RiskIsTheMost, Zenon
    <2> QED BY <2>2, <2>4 DEF MaxBaseline
<1>6. ASSUME NEW e \in DrawnEdges, EdgeRisk(e) > 0
      PROVE  \E d \in Range(e) : Affected(d) /\ AffectedRisk(d) = EdgeRisk(e)
    <2> DEFINE D == {x \in Range(e) : Affected(x)}
               S == {AffectedRisk(d) : d \in D}
    <2>1. IsFiniteSet(D)
        BY <1>2, FS_Subset
    <2>2. IsFiniteSet(S)
        <3> DEFINE f == [d \in D |-> AffectedRisk(d)]
        <3>1. DOMAIN f = D
            OBVIOUS
        <3>2. S = {f[d] : d \in D}
            OBVIOUS
        <3> HIDE DEF f, S, D
        <3> QED BY <2>1, <3>1, <3>2, ImageIsFinite
    <2>3. S \subseteq Nat
        BY RiskIsTheMost, Zenon
    <2>4. EdgeRisk(e) = Max({0} \cup S)
        BY Zenon DEF EdgeRisk
    <2>5. Max({0} \cup S) \in {0} \cup S
        <3> HIDE DEF S
        <3>1. IsFiniteSet({0} \cup S)
            BY <2>2, FS_Singleton, FS_Union
        <3>2. {0} \cup S \in SUBSET Int
            BY <2>3
        <3> QED BY <3>1, <3>2, FiniteMax
    <2>6. EdgeRisk(e) \in S
        <3> HIDE DEF S
        <3> QED BY <1>6, <2>4, <2>5
    <2> QED BY <2>6, Zenon
<1> QED BY <1>3, <1>4, <1>5, <1>6, Zenon DEF TopologyShowsIncidents

-------------------------------------------------------------------------------
(* The first incident of the first way that finds any is one of the queue,  *)
(* and the one the request names, if there is one.                          *)
LEMMA ResolveFinds ==
    ASSUME QueueIsSound, Q # <<>>, NEW request
    PROVE  /\ Resolve(request) \in Range(Q)
           /\ request.ref \in Ids => Resolve(request).id = request.ref
<1>1. PICK N \in Nat : DOMAIN Q = 1..N /\ N > 0
    BY DEF QueueIsSound
<1>2. \A A : A \subseteq DOMAIN Q /\ A # {} => Min(A) \in A
    <2> SUFFICES ASSUME NEW A, A \subseteq DOMAIN Q, A # {} PROVE Min(A) \in A
        OBVIOUS
    <2>1. IsFiniteSet(A)
        BY <1>1, FS_Interval, FS_Subset
    <2>2. A \in SUBSET Int
        BY <1>1
    <2> QED BY <2>1, <2>2, FiniteMin
<1>3. PICK r, s, t, u : /\ r = ByRef(request) /\ s = ByEntity(request) /\ t = ByKeyword(request)
                        /\ u = DOMAIN Q
    OBVIOUS
<1>4. r \subseteq u /\ s \subseteq u /\ t \subseteq u /\ u # {}
    BY <1>1, <1>3 DEF ByRef, ByEntity, ByKeyword
<1> DEFINE ways == <<r, s, t, u>>
           K    == {k \in DOMAIN ways : ways[k] # {}}
<1>5. DOMAIN ways = 1..4 /\ ways[1] = r /\ ways[2] = s /\ ways[3] = t /\ ways[4] = u
    OBVIOUS
<1>6. \A k \in 1..4 : ways[k] \subseteq u
    <2> HIDE DEF ways
    <2>1. \A k \in 1..4 : k = 1 \/ k = 2 \/ k = 3 \/ k = 4
        OBVIOUS
    <2> QED BY <1>4, <1>5, <2>1, Zenon
<1>7. Resolve(request) = Q[Min(ways[Min(K)])]
    BY <1>3, Zenon DEF Resolve, FirstFound
<1> HIDE DEF ways
<1>8. Min(K) \in K /\ \A y \in K : Min(K) <= y
    <2>1. K \subseteq 1..4 /\ 4 \in K
        BY <1>4, <1>5
    <2>2. IsFiniteSet(K)
        <3>1. IsFiniteSet(1..4)
            <4>1. 1 \in Int /\ 4 \in Int
                OBVIOUS
            <4> QED BY <4>1, FS_Interval, Zenon
        <3> HIDE DEF K
        <3> QED BY <2>1, <3>1, FS_Subset
    <2>3. K \in SUBSET Int /\ K # {}
        BY <2>1
    <2> QED BY <2>2, <2>3, FiniteMin
<1>9. PICK k : k = Min(K)
    OBVIOUS
<1>10. k \in 1..4 /\ ways[k] # {}
    BY <1>5, <1>8, <1>9
<1>11. PICK m : m = Min(ways[k])
    OBVIOUS
<1>12. m \in ways[k] /\ m \in DOMAIN Q
    BY <1>2, <1>3, <1>6, <1>10, <1>11
<1>13. Resolve(request) = Q[m]
    BY <1>7, <1>9, <1>11, Zenon
<1>14. Resolve(request) \in Range(Q)
    BY <1>12, <1>13, Zenon DEF Range
<1>15. ASSUME request.ref \in Ids PROVE Resolve(request).id = request.ref
    <2>1. PICK n \in DOMAIN Q : Q[n].id = request.ref
        BY <1>15, Zenon DEF Ids, Range
    <2>2. n \in r
        BY <1>3, <2>1, Zenon DEF ByRef
    <2>3. 1 \in K
        BY <1>5, <2>2
    <2>4. k = 1
        <3>1. Min(K) <= 1
            BY <1>8, <2>3, Zenon
        <3> HIDE DEF K
        <3> QED BY <1>9, <1>10, <3>1
    <2>5. m \in r
        BY <1>5, <1>12, <2>4
    <2> QED BY <1>3, <1>13, <2>5, Zenon DEF ByRef
<1> QED BY <1>14, <1>15

(* An answer is the one the pipeline's copilot gave when no question was    *)
(* asked and it gave one; any other has its incident's numbers, and no step *)
(* that is more than a read without an approval.                            *)
AgreesWith(given, i) ==
    /\ given.issue = i.issue /\ given.confidence = i.confidence /\ given.eta = i.eta
    /\ \A n \in DOMAIN given.actions :
          given.actions[n].safety # "read_only" => given.actions[n].approval

LEMMA AnswerIsCautious ==
    ASSUME QueueIsSound, NEW i \in Range(Q), NEW asked \in BOOLEAN
    PROVE  /\ ~asked /\ i.id \in DOMAIN provider.answers
                => AnswerFor(i, asked) = provider.answers[i.id]
           /\ ~(~asked /\ i.id \in DOMAIN provider.answers)
                => AgreesWith(AnswerFor(i, asked), i)
<1> DEFINE own     == ~asked /\ i.id \in DOMAIN provider.answers
           actions == IF i.playbook = <<>> THEN <<ReadOnly>> ELSE i.playbook
<1>1. AnswerFor(i, asked) = IF own THEN provider.answers[i.id] ELSE Synthesised(i)
    BY Zenon DEF AnswerFor
<1>2. PICK given : given = Synthesised(i)
    OBVIOUS
<1>3. /\ given.issue = i.issue /\ given.confidence = i.confidence /\ given.eta = i.eta
      /\ given.actions = actions
    BY <1>2 DEF Synthesised
<1>4. \A x \in {ReadOnly, Change, Impact} : x.safety # "read_only" => x.approval
    BY DEF ReadOnly, Change, Impact
<1>5. \A n \in DOMAIN actions : actions[n] \in {ReadOnly, Change, Impact}
    <2>1. i.playbook \in Seq({ReadOnly, Change, Impact})
        BY DEF QueueIsSound, IsSound
    <2> HIDE DEF ReadOnly, Change, Impact
    <2> QED BY <2>1
<1> HIDE DEF actions
<1>6. AgreesWith(given, i)
    BY <1>3, <1>4, <1>5, Zenon DEF AgreesWith
<1> QED BY <1>1, <1>2, <1>6, Zenon
-------------------------------------------------------------------------------
(* The inductive invariant: a provider is as make_provider builds one; an   *)
(* id a console has from this process, or from any demo while this is one,  *)
(* is in the queue; an answer is about the incident its request names, if   *)
(* that is in the queue; a frame shows the queue's head.                    *)
LoadedIsKnown ==
    \A x \in loaded : /\ x.epoch \in 0..provider.epoch
                      /\ x.epoch = provider.epoch => x.id \in Ids
                      /\ x.kind = "demo" => x.id \in DemoIds

AnswerIsNamed ==
    answer # Null => (answer.request.ref \in Ids => answer.about = answer.request.ref)

FrameIsCurrent ==
    frame # Null => /\ frame.entity = Head(Q).root
                    /\ frame.issue = Head(Q).issue
                    /\ frame.entity \in frame.entities
                    /\ {Device(e) : e \in frame.entities} \subseteq RootDevices

ProviderInv == /\ IsBuilt
               /\ LoadedIsKnown
               /\ AnswerIsNamed
               /\ AnswersAreCautious
               /\ FrameIsCurrent

LEMMA ProviderInitially == ProviderInit => ProviderInv
BY DEF ProviderInit, ProviderInv, IsBuilt, LoadedIsKnown, AnswerIsNamed, AnswersAreCautious,
       FrameIsCurrent

LEMMA MakeProviderKeeps ==
    ASSUME ProviderInv, NEW p, NEW e, e = provider.epoch + 1, p.epoch = e, MakeProvider(p),
           \/ p = DemoProvider(e) \/ p = StubProvider(e)
           \/ \E r \in Reports : p = LiveProvider(r, e)
    PROVE  ProviderInv'
<1>1. provider.epoch \in 0..MaxRestarts /\ provider.epoch < MaxRestarts
    BY BuiltIsSound DEF ProviderInv, QueueIsSound, MakeProvider
<1>2. e \in 1..MaxRestarts /\ e \in Nat
    BY <1>1, RestartAssumption
<1>3. provider' = p /\ frame' = Null /\ answer' = Null /\ loaded' = loaded
    BY DEF MakeProvider
<1>4. IsBuilt'
    BY <1>2, <1>3, Zenon DEF IsBuilt, Built
<1>5. LoadedIsKnown'
    <2> SUFFICES ASSUME NEW x \in loaded
                 PROVE  /\ x.epoch \in 0..e
                        /\ x.epoch # e
                        /\ x.kind = "demo" => x.id \in DemoIds
        BY <1>3 DEF LoadedIsKnown
    <2>1. x.epoch \in 0..provider.epoch /\ (x.kind = "demo" => x.id \in DemoIds)
        BY DEF ProviderInv, LoadedIsKnown
    <2> QED BY <1>1, <2>1
<1> QED BY <1>3, <1>4, <1>5, Zenon
        DEF ProviderInv, AnswerIsNamed, AnswersAreCautious, FrameIsCurrent

LEMMA LoadIncidentsKeeps ==
    ASSUME ProviderInv, LoadIncidents
    PROVE  ProviderInv'
<1>1. UNCHANGED <<provider, tick, frame, answer>>
    BY DEF LoadIncidents
<1>2. QueueIsSound /\ DemoIsFixed
    BY BuiltIsSound DEF ProviderInv
<1>3. LoadedIsKnown'
    <2> SUFFICES ASSUME NEW x \in loaded'
                 PROVE  /\ x.epoch \in 0..provider.epoch
                        /\ x.epoch = provider.epoch => x.id \in Ids
                        /\ x.kind = "demo" => x.id \in DemoIds
        BY <1>1 DEF LoadedIsKnown, Ids, Q
    <2>1. CASE x \in loaded
        BY <2>1, Zenon DEF ProviderInv, LoadedIsKnown
    <2>2. CASE x \notin loaded
        <3>1. PICK i \in Range(Q) : x = [id |-> i.id, epoch |-> provider.epoch, kind |-> provider.kind]
            BY <2>2, Zenon DEF LoadIncidents
        <3>2. x.id = i.id /\ x.epoch = provider.epoch /\ x.kind = provider.kind
            BY <3>1
        <3>3. provider.epoch \in 0..provider.epoch
            BY <1>2, RestartAssumption DEF QueueIsSound
        <3>4. x.id \in Ids
            BY <3>2, Zenon DEF Ids
        <3>5. x.kind = "demo" => x.id \in DemoIds
            BY <1>2, <3>2, <3>4 DEF DemoIsFixed
        <3> QED BY <3>2, <3>3, <3>4, <3>5
    <2> QED BY <2>1, <2>2
<1> QED BY <1>1, <1>3 DEF ProviderInv, IsBuilt, Built, AnswerIsNamed, AnswersAreCautious,
           FrameIsCurrent, Ids, RootDevices, Q

(* Both routes that answer give an answer about an incident of the queue,   *)
(* and the one of the headline names none.                                  *)
LEMMA AnsweringKeeps ==
    ASSUME ProviderInv, NEW request, NEW i \in Range(Q),
           request.ref \in Ids => i.id = request.ref,
           answer' = [request |-> request, about |-> i.id,
                      given |-> AnswerFor(i, request.words # Null)],
           UNCHANGED <<provider, tick, frame, loaded>>
    PROVE  ProviderInv'
<1>1. QueueIsSound
    BY BuiltIsSound DEF ProviderInv
<1>2. PICK given : given = AnswerFor(i, request.words # Null)
    OBVIOUS
<1>3. /\ request.words = Null /\ i.id \in DOMAIN provider.answers
           => given = provider.answers[i.id]
      /\ ~(request.words = Null /\ i.id \in DOMAIN provider.answers) => AgreesWith(given, i)
    <2>1. (request.words # Null) \in BOOLEAN
        OBVIOUS
    <2> QED BY <1>1, <1>2, <2>1, AnswerIsCautious, Zenon
<1>4. answer'.request = request /\ answer'.about = i.id /\ answer'.given = given
    BY <1>2
<1>5. AnswerIsNamed'
    BY <1>4 DEF AnswerIsNamed, Ids, Q
<1>6. AnswersAreCautious'
    <2>1. provider' = provider /\ Q' = Q
        BY DEF Q
    <2>2. ~(request.words = Null /\ i.id \in DOMAIN provider.answers)
            => \E x \in Range(Q) : x.id = i.id /\ AgreesWith(given, x)
        BY <1>3, Zenon
    <2> QED BY <1>3, <1>4, <2>1, <2>2, Zenon DEF AnswersAreCautious, AgreesWith
<1> QED BY <1>5, <1>6 DEF ProviderInv, IsBuilt, Built, LoadedIsKnown, FrameIsCurrent, Ids,
           RootDevices, Q

LEMMA HeadIsFirst ==
    ASSUME QueueIsSound, Q # <<>>
    PROVE  Head(Q) = Q[1] /\ Q[1] \in Range(Q) /\ 1 \in DOMAIN Q
<1>1. Q \in Seq(Range(Q))
    BY DEF QueueIsSound
<1>2. Head(Q) = Q[1] /\ 1 \in DOMAIN Q
    BY <1>1
<1> QED BY <1>2, Zenon DEF Range

LEMMA RiskTickKeeps ==
    ASSUME ProviderInv, RiskTick
    PROVE  ProviderInv'
<1>1. UNCHANGED <<provider, loaded, answer>>
    BY DEF RiskTick
<1>2. QueueIsSound /\ DemoIsFixed
    BY BuiltIsSound DEF ProviderInv
<1>3. FrameIsCurrent'
    <2>1. CASE Q = <<>>
        BY <2>1 DEF RiskTick, FrameIsCurrent
    <2>2. CASE Q # <<>>
        <3> DEFINE m == Min({Len(Q), 6})
        <3>1. PICK f : f = frame'
            OBVIOUS
        <3>2. /\ f.entity = IF provider.kind = "demo" THEN HubUplink ELSE Head(Q).root
              /\ f.issue = Head(Q).issue
              /\ f.entities = {i.root : i \in Range(SubSeq(Q, 1, m))}
            BY <2>2, <3>1 DEF RiskTick
        <3>3. Head(Q) = Q[1] /\ Q[1] \in Range(Q) /\ 1 \in DOMAIN Q
            BY <1>2, <2>2, HeadIsFirst
        <3>4. f.entity = Head(Q).root
            BY <1>2, <3>2, <3>3 DEF DemoIsFixed
        <3>5. Len(Q) \in Nat /\ DOMAIN Q = 1..Len(Q) /\ Len(Q) >= 1
            BY <1>2, <3>3 DEF QueueIsSound
        <3>6. m \in 1..Len(Q)
            <4>1. IsFiniteSet({Len(Q)} \cup {6})
                BY FS_Singleton, FS_Union
            <4>2. {Len(Q)} \cup {6} = {Len(Q), 6}
                OBVIOUS
            <4>3. {Len(Q), 6} \in SUBSET Int
                BY <3>5
            <4>4. m \in {Len(Q), 6} /\ \A y \in {Len(Q), 6} : m <= y
                BY <4>1, <4>2, <4>3, FiniteMin
            <4> HIDE DEF m
            <4> QED BY <3>5, <4>4
        <3> HIDE DEF m
        <3>7. PICK s : s = SubSeq(Q, 1, m)
            OBVIOUS
        <3>8. DOMAIN s = 1..m /\ \A n \in 1..m : s[n] = Q[n]
            <4>1. \A n \in 1..m : Q[n] \in Range(Q)
                BY <3>5, <3>6 DEF Range
            <4> QED BY <3>5, <3>6, <3>7, <4>1, SubSeqProperties
        <3>9. Q[1] \in Range(s)
            BY <3>6, <3>8 DEF Range
        <3>10. Range(s) \subseteq Range(Q)
            BY <3>5, <3>6, <3>8 DEF Range
        <3>11. f.entity \in f.entities
            BY <3>2, <3>3, <3>4, <3>7, <3>9, Zenon
        <3>12. {Device(e) : e \in f.entities} \subseteq RootDevices
            BY <3>2, <3>7, <3>10, Zenon DEF RootDevices
        <3> QED BY <1>1, <3>1, <3>2, <3>4, <3>11, <3>12 DEF FrameIsCurrent, RootDevices, Q
    <2> QED BY <2>1, <2>2
<1> QED BY <1>1, <1>3 DEF ProviderInv, IsBuilt, Built, LoadedIsKnown, AnswerIsNamed,
           AnswersAreCautious, Ids, Q

(* Every step of a provider and of the consoles keeps the invariant.        *)
LEMMA ProviderStepKeeps == ProviderInv /\ [ProviderNext]_providerVars => ProviderInv'
<1> SUFFICES ASSUME ProviderInv, [ProviderNext]_providerVars PROVE ProviderInv'
    OBVIOUS
<1>1. QueueIsSound
    BY BuiltIsSound DEF ProviderInv
<1>2. ASSUME NEW e \in {provider.epoch + 1}, MakeProvider(DemoProvider(e)) PROVE ProviderInv'
    <2>1. DemoProvider(e).epoch = e
        BY DEF DemoProvider
    <2> QED BY <1>2, <2>1, MakeProviderKeeps
<1>3. ASSUME NEW e \in {provider.epoch + 1}, MakeProvider(StubProvider(e)) PROVE ProviderInv'
    <2>1. StubProvider(e).epoch = e
        BY DEF StubProvider
    <2> QED BY <1>3, <2>1, MakeProviderKeeps
<1>4. ASSUME NEW e \in {provider.epoch + 1}, NEW r \in Reports, MakeProvider(LiveProvider(r, e))
      PROVE  ProviderInv'
    <2>1. LiveProvider(r, e).epoch = e
        BY DEF LiveProvider
    <2> QED BY <1>4, <2>1, MakeProviderKeeps
<1>5. ASSUME LoadIncidents PROVE ProviderInv'
    BY <1>5, LoadIncidentsKeeps
<1>6. ASSUME NEW request \in Requests, Copilot(request) PROVE ProviderInv'
    <2>1. PICK i : i = Resolve(request)
        OBVIOUS
    <2>2. i \in Range(Q) /\ (request.ref \in Ids => i.id = request.ref)
        BY <1>1, <1>6, <2>1, ResolveFinds DEF Copilot
    <2>3. /\ answer' = [request |-> request, about |-> i.id,
                        given |-> AnswerFor(i, request.words # Null)]
          /\ UNCHANGED <<provider, tick, frame, loaded>>
        BY <1>6, <2>1, Zenon DEF Copilot
    <2> QED BY <2>2, <2>3, AnsweringKeeps
<1>7. ASSUME Situation PROVE ProviderInv'
    <2>1. PICK i : i = Head(Q)
        OBVIOUS
    <2>2. i \in Range(Q)
        BY <1>1, <1>7, <2>1, HeadIsFirst DEF Situation
    <2>3. NoRequest.ref = Null /\ NoRequest.words = Null
        BY DEF NoRequest
    <2>4. Null \notin Ids
        BY <1>1 DEF QueueIsSound, Ids
    <2>5. PICK request : request = NoRequest
        OBVIOUS
    <2>6. answer' = [request |-> request, about |-> i.id,
                     given |-> AnswerFor(i, request.words # Null)]
        <3>1. FALSE = (request.words # Null)
            BY <2>3, <2>5
        <3> QED BY <1>7, <2>1, <2>5, <3>1, Zenon DEF Situation
    <2> QED BY <1>7, <2>2, <2>3, <2>4, <2>5, <2>6, AnsweringKeeps DEF Situation
<1>8. ASSUME EmptySituation PROVE ProviderInv'
    BY <1>8 DEF EmptySituation, ProviderInv, IsBuilt, Built, LoadedIsKnown, AnswerIsNamed,
       AnswersAreCautious, FrameIsCurrent, Ids, RootDevices, Q
<1>9. ASSUME RiskTick PROVE ProviderInv'
    BY <1>9, RiskTickKeeps
<1>10. ASSUME UNCHANGED providerVars PROVE ProviderInv'
    BY <1>10 DEF providerVars, ProviderInv, IsBuilt, Built, LoadedIsKnown, AnswerIsNamed,
       AnswersAreCautious, FrameIsCurrent, Ids, RootDevices, Q
<1> QED BY <1>2, <1>3, <1>4, <1>5, <1>6, <1>7, <1>8, <1>9, <1>10, Zenon DEF ProviderNext

THEOREM ProvidersInductive == ProviderSpec => []ProviderInv
BY ProviderInitially, ProviderStepKeeps, PTL DEF ProviderSpec

(* Whatever the pipeline reports and however often the server restarts, an  *)
(* answer is about the incident its request names, if the console loaded it *)
(* from this process, or from an earlier one with a literal id.             *)
THEOREM AnswersAsAsked == ProviderSpec => []AnsweredAsAsked
<1>1. ASSUME ProviderInv PROVE AnsweredAsAsked
    <2> SUFFICES ASSUME answer # Null, NEW x \in loaded, x.id = answer.request.ref,
                        x.epoch = provider.epoch \/ {x.kind, provider.kind} = {"demo"}
                 PROVE  answer.about = x.id
        BY DEF AnsweredAsAsked
    <2>1. /\ x.epoch = provider.epoch => x.id \in Ids
          /\ x.kind = "demo" => x.id \in DemoIds
        BY <1>1, Zenon DEF ProviderInv, LoadedIsKnown
    <2>2. x.id \in Ids
        <3>1. CASE x.epoch = provider.epoch
            BY <2>1, <3>1
        <3>2. CASE {x.kind, provider.kind} = {"demo"}
            <4>1. x.kind = "demo" /\ provider.kind = "demo"
                BY <3>2
            <4> QED BY <1>1, <2>1, <4>1, BuiltIsSound DEF ProviderInv, DemoIsFixed
        <3> QED BY <3>1, <3>2
    <2> QED BY <1>1, <2>2 DEF ProviderInv, AnswerIsNamed
<1> QED BY <1>1, ProvidersInductive, PTL

(* What the pipeline's copilot said of an incident is on every card and in  *)
(* every unasked answer unchanged; every other answer agrees with the queue *)
(* and has an approval for every step that changes something.               *)
THEOREM AnswersStayCautious == ProviderSpec => []AnswersAreCautious
<1>1. ProviderInv => AnswersAreCautious
    BY DEF ProviderInv
<1> QED BY <1>1, ProvidersInductive, PTL

(* For every report the pipeline may make, the endpoints are about the same *)
(* incident and the topology shows the incidents of the queue.              *)
THEOREM EndpointsStayInAgreement == ProviderSpec => []EndpointsAgree
<1>1. ASSUME ProviderInv PROVE EndpointsAgree
    <2>1. QueueIsSound /\ DemoIsFixed
        BY <1>1, BuiltIsSound DEF ProviderInv
    <2>2. TopologyShowsIncidents
        BY <2>1, TopologyIsTrue
    <2>3. ASSUME Q # <<>>
          PROVE  /\ \A e \in TimelineEntity : Device(e) = Device(Head(Q).root)
                 /\ \A i \in Range(Q) : SevRank(Head(Q).severity) <= SevRank(i.severity)
        <3>1. Head(Q) = Q[1]
            BY <2>1, <2>3, HeadIsFirst
        <3>2. \A i \in Range(Q) : SevRank(Head(Q).severity) <= SevRank(i.severity)
            BY <2>1, <3>1, Zenon DEF QueueIsSound, Range
        <3>3. ASSUME NEW e \in TimelineEntity PROVE Device(e) = Device(Head(Q).root)
            <4>1. CASE provider.kind = "demo"
                BY <2>1, <3>1, <3>3, <4>1 DEF TimelineEntity, DemoIsFixed
            <4>2. CASE provider.kind # "demo"
                <5>1. PICK target : target = Head(Q).root
                    OBVIOUS
                <5>2. e = target \/ Device(e) = Device(target)
                    BY <3>3, <4>2, <5>1, Zenon DEF TimelineEntity
                <5> QED BY <5>1, <5>2
            <4> QED BY <4>1, <4>2
        <3> QED BY <3>2, <3>3
    <2>4. FrameIsCurrent
        BY <1>1 DEF ProviderInv
    <2> QED BY <2>2, <2>3, <2>4, Zenon DEF EndpointsAgree, FrameIsCurrent
<1> QED BY <1>1, ProvidersInductive, PTL
===============================================================================
