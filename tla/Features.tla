------------------------------- MODULE Features -------------------------------
(***************************************************************************)
(* The online feature computers of netra/streaming/features.py and the     *)
(* CUSUM of netra/streaming/detectors.py: what one more sample does to the *)
(* state of each, and what can then be read from it.                       *)
(*                                                                         *)
(* Values are integers in units fine enough for the fading means of a      *)
(* bounded number of samples to be exact; a fading factor is 1/FadeDen.    *)
(* Left out: the DDSketch tail and the river detectors (libraries), and    *)
(* the computers that nothing of the platform feeds.                       *)
(***************************************************************************)
EXTENDS Integers, FiniteSets, SequencesExt

CONSTANTS
    None,         \* Python's None
    FadeDen,      \* 1 / fading_factor
    EtaUnit,      \* ETAs are in 1/EtaUnit of a second
    MaxEta,       \* max_eta_seconds, in that unit
    RekeyWarmup,  \* intervals before rekey deviations are scored
    FlatScore,    \* flat_baseline_score
    FlapWindow,   \* window_seconds of AdjacencyFlapCount
    FlapCap,      \* its maxlen
    TopK,         \* top_k of TopTalkerChurn
    SeenCap,      \* its candidate keys, 4096 in the code
    Width, Depth, \* of the Count-Min sketch
    CusumWarmup,  \* samples before the CUSUM may fire
    CusumSlack,   \* its k, in the unit of deviations
    CusumLimit    \* its threshold

ASSUME FeatureAssumption ==
    /\ {FadeDen, EtaUnit, MaxEta, FlapCap, TopK, SeenCap, Width, Depth} \subseteq Nat \ {0}
    /\ {RekeyWarmup, FlapWindow, CusumWarmup, CusumSlack, CusumLimit} \subseteq Nat
-------------------------------------------------------------------------------
(* river's EWMean: the first value as it is, then a step towards each.      *)
Fade(mean, x) == IF mean = None THEN x ELSE mean + (x - mean) \div FadeDen

(* Seconds since the previous sample; one where a time is missing or does   *)
(* not advance.                                                             *)
Elapsed(prevTs, ts) ==
    IF None \in {prevTs, ts} THEN 1 ELSE IF ts > prevTs THEN ts - prevTs ELSE 1

Abs(x) == IF x < 0 THEN -x ELSE x

(* What a cumulative counter grew by; a reset counts as nothing.            *)
Increase(x, prev) == Max({0, x - prev})

(* RollingSlope: the fading mean of first differences.                      *)
SlopeUpdate(c, x, ts) ==
    [value |-> x, ts |-> ts,
     slope |-> IF c.value = None THEN None
               ELSE Fade(c.slope, (x - c.value) \div Elapsed(c.ts, ts))]

NoSlope == [value |-> None, ts |-> None, slope |-> None]

(* LatencyDrift: the fading mean against the mean of all samples.           *)
DriftUpdate(c, x) == [fast |-> Fade(c.fast, x), sum |-> c.sum + x, n |-> c.n + 1]

(* JitterTrend: river's EWVar, the fading mean of squares less the square   *)
(* of the fading mean.                                                      *)
TrendUpdate(c, x) == [mean |-> Fade(c.mean, x), squares |-> Fade(c.squares, x * x)]

(* LossProgression and rising_streak.                                       *)
ProgressionUpdate(c, x) ==
    LET level == Fade(c.level, x)
    IN [level |-> level,
        streak |-> IF c.level = None THEN c.streak ELSE IF level >= c.level THEN c.streak + 1 ELSE 0]

(* ErrorRateAcceleration: the fading mean of the rate, and of its changes.  *)
AccelerationUpdate(c, x, ts) ==
    LET dt   == Elapsed(c.ts, ts)
        rate == IF c.count = None THEN None ELSE Fade(c.rate, Increase(x, c.count) \div dt)
    IN [count |-> x, ts |-> ts, rate |-> rate,
        accel |-> IF c.rate = None THEN c.accel ELSE Fade(c.accel, (rate - c.rate) \div dt)]

(* RekeyIntervalAnomaly: the squared deviation of an interval in variances  *)
(* of those before it, and a score of its own for a baseline without any.   *)
RekeyUpdate(c, x) ==
    LET spread == c.n * c.squares - c.sum * c.sum  \* n (n - 1) variances
        dev    == c.n * x - c.sum                  \* n deviations
        score  == IF spread > 0 THEN (dev * dev * (c.n - 1)) \div (c.n * spread)
                  ELSE IF dev = 0 THEN 0
                  ELSE LET z == Max({FlatScore, (100 * Abs(dev)) \div Max({1, Abs(c.sum)})}) IN z * z
    IN [n |-> c.n + 1, sum |-> c.sum + x, squares |-> c.squares + x * x,
        score |-> IF c.n >= RekeyWarmup THEN score ELSE None]

(* Mutant: extrapolates from the level before the sample.                   *)
EtaUpdateOldLevel(c, x, ts, threshold) ==
    LET slope == SlopeUpdate(c.slope, x, ts)
    IN [slope |-> slope, level |-> Fade(c.level, x),
        eta |-> IF slope.slope \in {None, 0} \/ c.level = None THEN None
                ELSE IF c.level >= threshold THEN 0
                ELSE IF slope.slope > 0 THEN Min({((threshold - c.level) * EtaUnit) \div slope.slope, MaxEta})
                ELSE None]

(* TimeToThreshold, above_is_breach: the level's distance to the threshold  *)
(* at the slope; zero above it, nothing while the slope is zero or falls.   *)
EtaUpdate(c, x, ts, threshold) ==
    LET level == Fade(c.level, x)
        slope == SlopeUpdate(c.slope, x, ts)
    IN [slope |-> slope, level |-> level,
        eta |-> IF slope.slope \in {None, 0} THEN None
                ELSE IF level >= threshold THEN 0
                ELSE IF slope.slope > 0 THEN Min({((threshold - level) * EtaUnit) \div slope.slope, MaxEta})
                ELSE None]
-------------------------------------------------------------------------------
(* Mutant: pops one expired event at most.                                  *)
EvictOne(events, now) ==
    IF events # <<>> /\ Head(events) < now - FlapWindow THEN Tail(events) ELSE events

(* AdjacencyFlapCount keeps a ring of transition times; expired ones are    *)
(* popped from its front only, and a full one drops its front.              *)
Evict(events, now) ==
    LET live == {i \in DOMAIN events : events[i] >= now - FlapWindow}
    IN IF live = {} THEN <<>> ELSE SubSeq(events, Min(live), Len(events))

(* What a deque keeps of all that was appended to it.                       *)
Ring(events) == SubSeq(events, Max({1, Len(events) - FlapCap + 1}), Len(events))

Flap(events, now) == Evict(Ring(Append(events, now)), now)

(* update: a number of flaps at one time.                                   *)
FlapUpdate(events, n, now) ==
    Evict(Ring(events \o [i \in 1..n |-> now]), now)
-------------------------------------------------------------------------------
(* The cell of a key in a row: double hashing with an odd second hash.      *)
Column(hash, row, key) == (hash[key][1] + row * hash[key][2]) % Width

EmptySketch == [row \in 0..(Depth - 1) |-> [column \in 0..(Width - 1) |-> 0]]

(* Mutant: only the first row is written.                                   *)
SketchAddFirstRow(rows, hash, key, n) ==
    [rows EXCEPT ![0][Column(hash, 0, key)] = @ + n]

SketchAdd(rows, hash, key, n) ==
    [row \in DOMAIN rows |-> [rows[row] EXCEPT ![Column(hash, row, key)] = @ + n]]

Estimate(rows, hash, key) == Min({rows[row][Column(hash, row, key)] : row \in DOMAIN rows})

(* TopTalkerChurn.  Past SeenCap a key is counted but no candidate.         *)
NoTalkers == [rows |-> EmptySketch, seen |-> {}, prevTop |-> None, churn |-> None]

AddFlow(c, hash, key, weight) ==
    [c EXCEPT !.rows = SketchAdd(@, hash, key, weight),
              !.seen = IF Cardinality(@) < SeenCap THEN @ \cup {key} ELSE @]

(* The first top_k of keys sorted by falling estimate: any of several       *)
(* where estimates tie, for the order of a set of strings is arbitrary.     *)
Tops(estimate) ==
    {top \in SUBSET DOMAIN estimate :
        /\ Cardinality(top) = Min({TopK, Cardinality(DOMAIN estimate)})
        /\ \A a \in top, b \in DOMAIN estimate \ top : estimate[a] >= estimate[b]}

(* Jaccard distance, as a pair.                                             *)
Churn(a, b) == <<Cardinality(a \cup b) - Cardinality(a \cap b), Cardinality(a \cup b)>>

(* snapshot, with candidates: a window without any changes nothing.         *)
CloseWindow(c, top) ==
    [rows |-> EmptySketch, seen |-> {}, prevTop |-> top,
     churn |-> IF c.prevTop = None THEN c.churn ELSE Churn(top, c.prevTop)]
-------------------------------------------------------------------------------
NoCusum == [n |-> 0, up |-> 0, down |-> 0, fired |-> FALSE]

(* Mutant: the sums go on after an alarm.                                   *)
CusumUpdateGoesOn(c, z) ==
    LET up   == Max({0, c.up + z - CusumSlack})
        down == Min({0, c.down + z + CusumSlack})
        n    == Min({c.n + 1, CusumWarmup + 1})
    IN IF c.n < CusumWarmup \/ z = None THEN [c EXCEPT !.n = n, !.fired = FALSE]
       ELSE [n |-> n, up |-> up, down |-> down, fired |-> up > CusumLimit \/ down < -CusumLimit]

(* CUSUM.update for a sample z standard deviations off the running mean, or *)
(* None when there is no deviation yet.  Only n <= warmup matters of n.     *)
CusumUpdate(c, z) ==
    LET up    == Max({0, c.up + z - CusumSlack})
        down  == Min({0, c.down + z + CusumSlack})
        fired == up > CusumLimit \/ down < -CusumLimit
        n     == Min({c.n + 1, CusumWarmup + 1})
    IN IF c.n < CusumWarmup \/ z = None THEN [c EXCEPT !.n = n, !.fired = FALSE]
       ELSE [n |-> n, up |-> IF fired THEN 0 ELSE up, down |-> IF fired THEN 0 ELSE down, fired |-> fired]
===============================================================================
