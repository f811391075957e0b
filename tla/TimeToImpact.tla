---------------------------- MODULE TimeToImpact ----------------------------
(***************************************************************************)
(* When a metric will cross its threshold: the forecasting ensemble of     *)
(* netra/analytics/forecasting/ensemble.py, and the time to impact that    *)
(* tti.py reads off its trajectory or off the trend of the history.        *)
(*                                                                         *)
(* A trajectory is a sequence of values, one for each step ahead; a        *)
(* forecast is [point, lower, upper], three of them. Agreement and         *)
(* confidence are in hundredths, values and times rounded down. Left out:  *)
(* the interval and confidence of a Theil-Sen slope, and the survival      *)
(* model, which nobody fits.                                               *)
(***************************************************************************)
EXTENDS Integers, FiniteSetsExt, SequencesExt, Functions

CONSTANTS
    SampleTime,   \* between two samples of a history
    Downsample,   \* samples to a step of a forecast: forecast_downsample
    TrendWindow,  \* window of TheilSenTTI
    NoEta         \* eta_seconds = None

ASSUME TimeAssumption == {SampleTime, Downsample, TrendWindow} \subseteq Nat \ {0}

StepTime == SampleTime * Downsample

Dist(a, b) == IF a > b THEN a - b ELSE b - a

(* Twice the median of a sequence of numbers.                               *)
TwiceMedian(seq) ==
    LET sorted == SortSeq(seq, <)
    IN sorted[(Len(seq) + 1) \div 2] + sorted[Len(seq) \div 2 + 1]

(* series[::Downsample]: the newest sample may be left out.                 *)
Thinned(history) ==
    [i \in 1..((Len(history) + Downsample - 1) \div Downsample) |->
        history[(i - 1) * Downsample + 1]]
-----------------------------------------------------------------------------
(* Standard deviation of some numbers.                                      *)
Deviation(vals) ==
    LET n == Len(vals)
        sum == SumFunction(vals)
        squares == SumFunction([i \in 1..n |-> vals[i] * vals[i]])
    IN Max({r \in 0..(Max(Range(vals)) - Min(Range(vals))) : r * r * n * n <= n * squares - sum * sum})

(* forecast_with_members(): half the weighted mean of the members and half  *)
(* their median; a band around the bands of all, no narrower than their     *)
(* spread; and how little of the level the spread is. A member is a         *)
(* forecast with its weight, by its backtest or 1.                          *)
Ensemble(members) ==
    LET steps == DOMAIN members[1].point
        At(field, k) == [i \in DOMAIN members |-> members[i][field][k]]
        weights == SumFunction([i \in DOMAIN members |-> members[i].weight])
        mean(k) == SumFunction([i \in DOMAIN members |->
                       members[i].weight * members[i].point[k]])
        point == [k \in steps |->
                     (2 * mean(k) + weights * TwiceMedian(At("point", k))) \div (4 * weights)]
        spread == [k \in steps |-> Deviation(At("point", k))]
        level == SumFunction([k \in steps |-> Dist(point[k], 0)])
    IN [point |-> point,
        lower |-> [k \in steps |-> Min(Range(At("lower", k)) \cup {point[k] - spread[k]})],
        upper |-> [k \in steps |-> Max(Range(At("upper", k)) \cup {point[k] + spread[k]})],
        agreement |-> IF Len(members) = 1 THEN 100
                      ELSE IF level = 0 THEN (IF SumFunction(spread) = 0 THEN 100 ELSE 0)
                      ELSE Max({0, 100 - (100 * SumFunction(spread)) \div level})]
-----------------------------------------------------------------------------
(* Is the value on the breach side?                                         *)
Crosses(value, threshold, rising) ==
    IF rising THEN value >= threshold ELSE value <= threshold

(* Mutant: a step counts for a sample.                                      *)
CrossTimeInSamples(values, threshold, rising, current) ==
    LET hits == {k \in DOMAIN values : Crosses(values[k], threshold, rising)}
        first == Min(hits)
        before == IF first = 1 THEN current ELSE values[first - 1]
    IN IF Crosses(current, threshold, rising) THEN 0
       ELSE IF hits = {} THEN NoEta
       ELSE SampleTime * (first - 1)
                + (SampleTime * Dist(threshold, before)) \div Dist(values[first], before)

(* _interp_cross_time: the first crossing, between the step before and the  *)
(* one that is beyond.                                                      *)
CrossTime(values, threshold, rising, current) ==
    LET hits == {k \in DOMAIN values : Crosses(values[k], threshold, rising)}
        first == Min(hits)
        before == IF first = 1 THEN current ELSE values[first - 1]
    IN IF Crosses(current, threshold, rising) THEN 0
       ELSE IF hits = {} THEN NoEta
       ELSE StepTime * (first - 1)
                + (StepTime * Dist(threshold, before)) \div Dist(values[first], before)

(* TrajectoryCrossingTTI._confidence. A bound that is not crossed within    *)
(* the horizon does not widen the interval.                                 *)
EtaConfidence(eta, band, horizon, agreement) ==
    LET width == Max(band) - Min(band)
        scale == Max({eta, horizon \div 10, 1})
        base == IF band = {} THEN 50 ELSE (100 * scale) \div (scale + width)
    IN IF eta = NoEta THEN ((IF band = {} THEN 60 ELSE 35) * agreement) \div 100
       ELSE Min({99, Max({5, (base + agreement) \div 2})})

(* TrajectoryCrossingTTI.estimate: the point gives the ETA, the bounds that *)
(* cross its interval.                                                      *)
TrajectoryTTI(forecast, threshold, rising, current) ==
    LET Cross(values) == CrossTime(values, threshold, rising, current)
        eta == Cross(forecast.point)
        band == {Cross(forecast.lower), Cross(forecast.upper)} \ {NoEta}
    IN [eta   |-> eta,
        lower |-> IF band = {} THEN NoEta ELSE Min(band),
        upper |-> IF band = {} THEN NoEta ELSE Max(band),
        confidence |-> EtaConfidence(eta, band, StepTime * Len(forecast.point), forecast.agreement),
        method |-> "trajectory_crossing"]

(* Slopes between all pairs of n samples, on a scale on which they are      *)
(* integers, in the order of the pairs.                                     *)
SlopeScale(n) == ProductSet(1..(n - 1))

Slopes(s) ==
    LET pairs == SetToSeq({p \in (DOMAIN s) \X (DOMAIN s) : p[1] < p[2]})
    IN [i \in DOMAIN pairs |-> (s[pairs[i][2]] - s[pairs[i][1]])
                                  * (SlopeScale(Len(s)) \div (pairs[i][2] - pairs[i][1]))]

(* TheilSenTTI.estimate: the median slope, if it leads to the threshold.    *)
TheilSenEta(history, threshold, rising) ==
    LET recent == SubSeq(history, Max({1, Len(history) - TrendWindow + 1}), Len(history))
        slope == TwiceMedian(Slopes(recent))
        current == recent[Len(recent)]
    IN IF Len(history) < 3 \/ slope = 0 THEN NoEta
       ELSE IF (threshold - current) * slope <= 0
       THEN IF Crosses(current, threshold, rising) THEN 0 ELSE NoEta
       ELSE IF (slope > 0) # rising THEN NoEta
       ELSE (2 * SlopeScale(Len(recent)) * SampleTime * Dist(threshold, current))
                \div Dist(slope, 0)

(* TimeToImpactEstimator.estimate: the trend is asked when the forecast     *)
(* sees no crossing.                                                        *)
EstimateTTI(forecast, threshold, rising, history) ==
    LET ahead == TrajectoryTTI(forecast, threshold, rising, history[Len(history)])
        trend == TheilSenEta(history, threshold, rising)
    IN IF ahead.eta # NoEta \/ trend = NoEta THEN ahead
       ELSE [eta |-> trend, method |-> "theil_sen_extrapolation"]
=============================================================================
