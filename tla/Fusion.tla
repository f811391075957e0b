-------------------------------- MODULE Fusion --------------------------------
(***************************************************************************)
(* Risk fusion of netra/analytics/fusion/fuse.py, without a calibrator:    *)
(* what RiskFuser.fuse() makes of the detector scores of one stream at one *)
(* instant, and of the forecast and the drift that corroborate them.       *)
(*                                                                         *)
(* A score is [method, score], scores and votes are in hundredths,         *)
(* agreement is in thousandths. A forecast is here the set with its         *)
(* cross-model agreement, empty if there is none.                          *)
(***************************************************************************)
EXTENDS Integers, Sequences, FiniteSets, FiniteSetsExt

CONSTANTS
    Methods,       \* detector ids
    FamilyOf,      \* [Methods -> families]
    Prior,         \* [families -> Nat]: _FAMILY_PRIOR, in tenths
    Elevated,      \* elevated_score
    Breadth(_),    \* 1 - exp(-0.8 * n), in thousandths
    Extreme(_, _)  \* is the i-th of these scores flagged, or in their tail?

Families == {FamilyOf[m] : m \in Methods}

ASSUME FamilyAssumption ==
    /\ IsFiniteSet(Methods)
    /\ DOMAIN FamilyOf = Methods
    /\ \A f \in Families : /\ Prior[f] \in Nat \ {0}
                           /\ Cardinality({m \in Methods : FamilyOf[m] = f}) <= 4
ASSUME ElevatedAssumption == Elevated \in 1..100
ASSUME BreadthAssumption == \* of any number of voices: families, forecast and drift
    \A n \in 0..(Cardinality(Families) + 2) : Breadth(n) \in Nat /\ Breadth(n) <= 1000

(* What the detectors say of a sample: each of them scores once, if at all. *)
IsScoring(scores) ==
    /\ scores \in Seq([method : Methods, score : Nat])
    /\ \A i, j \in DOMAIN scores : scores[i].method = scores[j].method => i = j

FamiliesOf(scores) == {FamilyOf[scores[i].method] : i \in DOMAIN scores}

Members(f, scores) == {i \in DOMAIN scores : FamilyOf[scores[i].method] = f}

(* Members of a family share its prior; what is extreme counts half more.   *)
(* 12 has a whole share for each of up to four members.                     *)
Weight(i, scores) ==
    LET f == FamilyOf[scores[i].method]
    IN Prior[f] * (12 \div Cardinality(Members(f, scores)))
                * (IF Extreme(i, scores) THEN 3 ELSE 2)

(* The sum of some numbers.                                                 *)
Total(numbers) ==
    LET sum[n \in 0..Len(numbers)] == IF n = 0 THEN 0 ELSE sum[n - 1] + numbers[n]
    IN sum[Len(numbers)]

(* The weighted mean of the scores.                                         *)
Level(scores) ==
    Total([i \in 1..Len(scores) |-> Weight(i, scores) * scores[i].score])
        \div Total([i \in 1..Len(scores) |-> Weight(i, scores)])

(* A family votes once, with its highest score; a forecast votes with its   *)
(* cross-model agreement and drift with how many drift detectors fired.     *)
FamilyVoices(scores) ==
    {<<f, Max({scores[i].score : i \in Members(f, scores)})>> : f \in FamiliesOf(scores)}

ForecastVoice(forecast) == {<<"forecast agreement", agreement>> : agreement \in forecast}

DriftVoice(drift) ==
    IF drift = 0 THEN {} ELSE {<<"triggered drift", Min({100, 50 + 10 * drift})>>}

(* The share of voices that are raised, damped when they are few.           *)
Agreement(voices) ==
    LET raised == Cardinality({v \in voices : v[2] >= Elevated})
    IN (raised * Breadth(raised)) \div Cardinality(voices)

Voices(scores, drift, forecast) ==
    FamilyVoices(scores) \cup DriftVoice(drift) \cup ForecastVoice(forecast)

(* FusedRisk.risk_score: agreement sharpens the level; none without scores. *)
Risk(scores, drift, forecast) ==
    IF scores = <<>> THEN 0
    ELSE (Level(scores) * (1000 + Agreement(Voices(scores, drift, forecast)))) \div 2000

(* FusedRisk.calibrated_confidence: led by the agreement, supported by the  *)
(* strongest score, capped for a single method, tempered by a forecast.     *)
Confidence(scores, drift, forecast) ==
    LET peak == Max({scores[i].score : i \in DOMAIN scores})
        blend == (65 * Agreement(Voices(scores, drift, forecast)) + 350 * peak) \div 1000
        capped == IF Len(scores) = 1 THEN Min({blend, 10 + peak \div 2}) ELSE blend
    IN IF forecast = {} THEN capped ELSE (85 * capped + 15 * Max(forecast)) \div 100
===============================================================================
