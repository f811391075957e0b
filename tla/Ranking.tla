------------------------------- MODULE Ranking -------------------------------
(***************************************************************************)
(* The triage queue of netra/analytics/risk: score.py's product of four    *)
(* factors, calibrate.py's Platt or isotonic calibration, the demotion of  *)
(* flapping root causes (FlapSuppressor), and prioritize.py's sort,        *)
(* severity buckets and write-back into the incidents.  Blast radius and   *)
(* asset criticality come from the digital twin (TopologyGraph).           *)
(*                                                                         *)
(* Factors, scores and confidences are integers in hundredths; raw_score   *)
(* is in millionths, as in the code, a calibrated priority in thousandths: *)
(* finer than the confidence it is written back as, as the code's 6 digits *)
(* are than its 4.  An ETA is in minutes.                                  *)
(***************************************************************************)
EXTENDS FlapSuppressor, TopologyGraph, SequencesExt

CONSTANTS
    Twin,         \* the topology digital twin
    Flows,        \* the NetFlow records a blast radius is intersected with
    Queue,        \* the incidents handed to prioritize_incidents, in order
    Roots,        \* [incidents -> the root causes it may have]
    Confidences,  \* calibrated_confidence values of a fresh FusedRisk
    Scores,       \* risk_score values
    Etas,         \* eta_seconds in minutes, or None
    Samples,      \* labelled (score, outcome) sequences a calibrator is fitted to
    Curves,       \* what fitting a Platt sigmoid may come to, tabulated
    MaxPasses     \* bound: calls of prioritize_incidents

Incidents == Range(Queue)

ASSUME RankingAssumption ==
    /\ Queue \in Seq(Incidents)
    /\ Confidences \cup Scores \subseteq 0..100
    /\ Etas \subseteq Nat \cup {None}
    /\ MaxPasses \in Nat
    /\ IsFiniteSet(Flows)
    /\ \A i \in Incidents : Roots[i] \subseteq Twin.nodes
\* argsort leaves the samples sorted by score
ASSUME SampleAssumption ==
    /\ Samples \subseteq Seq([score : Int, label : {0, 1}])
    /\ \A s \in Samples : \A i, j \in DOMAIN s : i <= j => s[i].score <= s[j].score
\* a sigmoid of a * s + b rises with s or falls with it, as the sign of a
Percents == 0..100
Rising(curve)  == \A s, t \in Percents : s <= t => curve[s] <= curve[t]
Falling(curve) == \A s, t \in Percents : s <= t => curve[s] >= curve[t]

ASSUME CurveAssumption ==
    /\ Curves \subseteq [Percents -> 0..1000]
    /\ \A c \in Curves : Rising(c) \/ Falling(c)
\* what from_spec builds
ASSUME TwinAssumption ==
    /\ IsFiniteSet(Twin.nodes)
    /\ NoNode \notin Twin.nodes
    /\ Twin.edges \subseteq Twin.nodes \X Twin.nodes
    /\ \A n \in Twin.nodes : Twin.attr[n].crit \in Nat /\ Twin.attr[n].crit <= 10000

VARIABLES
    incident,    \* per incident: root, confidence, score, eta, severity
    method,      \* how the RiskCalibrator is fitted: "unfitted", "platt", "isotonic"
    calibrator,  \* its transform() of every score
    queue,       \* what the last call of prioritize_incidents returned
    passes       \* history: calls of prioritize_incidents

triage == <<incident, method, calibrator, queue, passes>>
allvars == <<vars, triage>>
-------------------------------------------------------------------------------
(* Mutant: the second block of a violating pair keeps its own mean.         *)
PooledOnceUnpooled(blocks) ==
    LET bad == {i \in 1..(Len(blocks) - 1) :
                   blocks[i].sum * blocks[i + 1].n > blocks[i + 1].sum * blocks[i].n}
    IN IF bad = {} THEN blocks
       ELSE [blocks EXCEPT ![Min(bad)] = [@ EXCEPT !.sum = blocks[Min(bad) + 1].sum]]

(* One merge of pool-adjacent-violators: the first two neighbouring blocks  *)
(* whose means decrease become one block at the left one's score.           *)
PooledOnce(blocks) ==
    LET bad == {i \in 1..(Len(blocks) - 1) :
                   blocks[i].sum * blocks[i + 1].n > blocks[i + 1].sum * blocks[i].n}
        i   == Min(bad)
    IN IF bad = {} THEN blocks
       ELSE SubSeq(blocks, 1, i - 1)
              \o <<[sum |-> blocks[i].sum + blocks[i + 1].sum,
                    n   |-> blocks[i].n + blocks[i + 1].n, x |-> blocks[i].x]>>
              \o SubSeq(blocks, i + 2, Len(blocks))

(* _isotonic_fit_numpy on samples sorted by score.                          *)
IsotonicFit(samples) ==
    LET start == [i \in DOMAIN samples |->
                     [sum |-> samples[i].label, n |-> 1, x |-> samples[i].score]]
        pooled[k \in 0..Len(samples)] == IF k = 0 THEN start ELSE PooledOnce(pooled[k - 1])
    IN pooled[Len(samples)]

MeanOf(block) == (1000 * block.sum) \div block.n

(* np.interp over the blocks.                                               *)
Interpolated(blocks, s) ==
    LET n    == Len(blocks)
        left == {i \in 1..n : blocks[i].x <= s}
        i    == Max(left)
        a    == blocks[i]
        b    == blocks[i + 1]
    IN CASE left = {} -> MeanOf(blocks[1])
         [] left # {} /\ i = n -> MeanOf(a)
         [] OTHER -> MeanOf(a) + ((MeanOf(b) - MeanOf(a)) * (s - a.x)) \div (b.x - a.x)

(* What fitting an isotonic calibrator comes to.                             *)
Isotonic == [samples \in Samples |->
                LET blocks == IsotonicFit(samples)
                IN [s \in Percents |-> Interpolated(blocks, s)]]

(* transform() before a fit: the identity.                                  *)
Identity == [s \in Percents |-> 10 * s]

(* fit(), of a RiskCalibrator("platt"), the default, or ("isotonic"):       *)
(* labels of one class only leave the calibrator unfitted.  A calibrator is *)
(* fitted once (a bound).                                                   *)
Fit(samples) ==
    /\ method = "unfitted"
    /\ {samples[i].label : i \in DOMAIN samples} = {0, 1}
    /\ \/ method' = "isotonic" /\ calibrator' = Isotonic[samples]
       \/ method' = "platt" /\ calibrator' \in Curves
    /\ UNCHANGED <<vars, incident, queue, passes>>
-------------------------------------------------------------------------------
Floor == 2   \* EPS

Floored(x) == Max({x, Floor})

(* round(): to the nearest multiple of the last digit kept.                  *)
Rounded(x, digit) == (x + digit \div 2) \div digit

Sqrt(x)  == CHOOSE r \in 0..100 : r * r <= x /\ x < (r + 1) * (r + 1)
Root4(x) == CHOOSE r \in 0..100 : r * r * r * r <= x /\ (x < (r + 1) * (r + 1) * (r + 1) * (r + 1))

(* Mutant: no prediction counts as an immediate one.                        *)
UrgencyNoneIsNow(eta) == IF eta = None THEN 100 ELSE 100 \div (1 + eta)

(* time_to_impact_urgency: 1 / (1 + minutes), a constant without an ETA.    *)
Urgency(eta) == IF eta = None THEN 5 ELSE 100 \div (1 + eta)

(* anomaly_confidence_factor.                                               *)
AnomalyConfidence(r) ==
    Floored((r.confidence + Sqrt(r.confidence * r.score)) \div 2)

Blasts == [n \in Twin.nodes |-> BlastRadius(Twin, n, Flows)]

(* blast_urgency_factor and _asset_criticality.                             *)
BlastFactor(r)      == Blasts[r.root].size \div 100
AssetCriticality(r) == Criticality(Twin, r.root) \div 100

(* compute_risk_factors: the product of the four, to the sixth digit.       *)
RawScore(r) ==
    Rounded(AnomalyConfidence(r) * Floored(Urgency(r.eta))
              * Floored(BlastFactor(r)) * Floored(AssetCriticality(r)), 100)

(* geometric_mean_score.                                                    *)
GeometricMean(r) == Root4(100 * RawScore(r))

(* score_incident: calibrated first, then demoted for flapping.             *)
Demoted(p, factor) == Rounded(p * factor, 1000)

Priority(r, t) == Demoted(calibrator[GeometricMean(r)], DemotionFactor(r.root, t))

SeverityFor(p) == CASE p >= 660 -> "P1"
                    [] p < 660 /\ p >= 330 -> "P2"
                    [] p < 330 /\ p > 0 -> "P3"
                    [] OTHER -> "INFO"

(* The confidence that a priority is written back as: fewer digits.         *)
Written(p) == Rounded(p, 10)

Scored(i, t) == [id |-> i, before |-> incident[i], priority |-> Priority(incident[i], t),
                 demotion |-> DemotionFactor(incident[i].root, t)]

(* The key of the sort: priority, then imminence, then blast.               *)
SortsBefore(x, y) ==
    LET late(e)  == IF e.before.eta = None THEN 1000000 ELSE e.before.eta
        blast(e) == BlastFactor(e.before)
    IN \/ x.priority > y.priority
       \/ x.priority = y.priority /\ late(x) < late(y)
       \/ x.priority = y.priority /\ late(x) = late(y) /\ blast(x) > blast(y)

(* The stable sorts of a sequence: what comes before goes first, what does  *)
(* not compare stays in order.                                              *)
Sortings(entries, before(_, _)) ==
    {[k \in DOMAIN entries |-> entries[order[k]]] : order \in
        {p \in SetToSeqs(DOMAIN entries) : \A j, k \in DOMAIN entries :
            j < k => \/ before(entries[p[j]], entries[p[k]])
                     \/ ~before(entries[p[k]], entries[p[j]]) /\ p[j] < p[k]}}

(* Mutant: the queue is ranked before the demotion is known.                *)
PrioritizeUndemoted(t) ==
    /\ passes < MaxPasses
    /\ t >= now
    /\ passes' = passes + 1
    /\ queue' \in Sortings([k \in DOMAIN Queue |-> Scored(Queue[k], t)],
                          LAMBDA x, y : \/ GeometricMean(x.before) > GeometricMean(y.before)
                                        \/ /\ GeometricMean(x.before) = GeometricMean(y.before)
                                           /\ SortsBefore(x, y))
    /\ incident' = [i \in Incidents |->
                       [incident[i] EXCEPT !.severity = SeverityFor(Priority(incident[i], t)),
                                           !.confidence = Written(Priority(incident[i], t))]]
    /\ now' = t
    /\ UNCHANGED <<known, penalty, lastUpdate, suppressed, method, calibrator>>

(* Mutant: the write-back pairs the sorted scores with the unsorted incidents. *)
PrioritizeZipped(t) ==
    /\ passes < MaxPasses
    /\ t >= now
    /\ passes' = passes + 1
    /\ queue' \in Sortings([k \in DOMAIN Queue |-> Scored(Queue[k], t)], SortsBefore)
    /\ incident' = [i \in Incidents |->
                       LET p == queue'[CHOOSE k \in DOMAIN Queue : Queue[k] = i].priority
                       IN [incident[i] EXCEPT !.severity = SeverityFor(p), !.confidence = Written(p)]]
    /\ now' = t
    /\ UNCHANGED <<known, penalty, lastUpdate, suppressed, method, calibrator>>

(* prioritize_incidents with mutate: score all, sort, and write severity    *)
(* and confidence back into the incidents.                                  *)
Prioritize(t) ==
    /\ passes < MaxPasses
    /\ t >= now
    /\ passes' = passes + 1
    /\ queue' \in Sortings([k \in DOMAIN Queue |-> Scored(Queue[k], t)], SortsBefore)
    /\ incident' = [i \in Incidents |->
                       [incident[i] EXCEPT !.severity = SeverityFor(Priority(incident[i], t)),
                                           !.confidence = Written(Priority(incident[i], t))]]
    /\ now' = t
    /\ UNCHANGED <<known, penalty, lastUpdate, suppressed, method, calibrator>>

(* Flaps reach the suppressor before the incidents are ranked and, in one   *)
(* size of burst (a bound), between one ranking and the next.               *)
Flap(e, t, flaps) == /\ passes = 0 \/ (passes < MaxPasses /\ flaps = MaxFlaps)
                     /\ Observe(e, t, flaps)
                     /\ UNCHANGED triage

Forget == /\ passes < MaxPasses
          /\ \/ \E e \in Entities : Reset(e)
             \/ ResetAll
          /\ UNCHANGED triage

FreshIncidents(i) ==
    [root : Roots[i], confidence : Confidences, score : Scores, eta : Etas, severity : {"INFO"}]

RankingInit ==
    /\ Init
    /\ incident \in {f \in [Incidents -> UNION {FreshIncidents(i) : i \in Incidents}] :
                        \A i \in Incidents : f[i] \in FreshIncidents(i)}
    /\ method = "unfitted"
    /\ calibrator = Identity
    /\ queue = <<>>
    /\ passes = 0

RankingNext ==
    \/ \E e \in Entities, t \in Time, flaps \in 1..MaxFlaps : Flap(e, t, flaps)
    \/ Forget
    \/ \E s \in Samples : Fit(s)
    \/ \E t \in Time : Prioritize(t)

RankingSpec == RankingInit /\ [][RankingNext]_allvars
-------------------------------------------------------------------------------
Rank(s) == CASE s = "P1" -> 3 [] s = "P2" -> 2 [] s = "P3" -> 1 [] OTHER -> 0

(* "the returned Incident objects are self-consistent for the API/UI": down *)
(* the queue neither the severity nor the confidence an incident shows ever *)
(* rises, though the one is read from the priority before the other's       *)
(* rounding, and who shows confidence shows a severity.                     *)
QueueIsConsistent ==
    \A x, y \in DOMAIN queue :
        LET a == incident[queue[x].id]
            b == incident[queue[y].id]
        IN x < y => /\ Rank(a.severity) >= Rank(b.severity)
                    /\ a.confidence >= b.confidence
                    /\ a.confidence > 0 => a.severity # "INFO"

(* How imminent an ETA is to urgency: no prediction is less urgent than one *)
(* within 19 minutes, and more urgent than a later one, as the constant     *)
(* urgency of no prediction overtakes 1 / (1 + minutes) from 20 minutes.    *)
AsImminent(a, b) ==
    CASE a = None -> b = None \/ b >= 20
      [] a # None /\ b = None -> a <= 19
      [] OTHER -> a <= b

(* One incident is at least as urgent as another in every factor that is    *)
(* its own.                                                                 *)
Dominates(a, b) ==
    /\ a.confidence >= b.confidence
    /\ a.score >= b.score
    /\ Blasts[a.root].size >= Blasts[b.root].size
    /\ Criticality(Twin, a.root) >= Criticality(Twin, b.root)
    /\ AsImminent(a.eta, b.eta)

(* Isotonic calibrators rise; a Platt sigmoid fitted to outcomes that get   *)
(* rarer as scores grow falls, and turns the queue round.                   *)
OrderPreserving == method # "platt" \/ Rising(calibrator)

(* No incident stands behind one it dominates in confidence, risk,          *)
(* imminence, blast radius, criticality and flapping, unless the two tie in *)
(* the sort: through roots, floors, roundings, calibration, demotion and    *)
(* sort, the queue keeps the order of its factors.                          *)
DominanceRespected ==
    \A x, y \in DOMAIN queue :
        /\ x < y
        /\ Dominates(queue[y].before, queue[x].before)
        /\ queue[y].demotion >= queue[x].demotion
        /\ OrderPreserving
        => ~SortsBefore(queue[y], queue[x]) /\ queue[y].priority = queue[x].priority

(* Ranking writes priorities back as the confidences that the next ranking  *)
(* reads.  It shifts them all, but it never turns two incidents round: what *)
(* one ranking found dominated, the next does not place before, unless its  *)
(* root cause flaps less by then or the two tie.                            *)
RankingAgainKeepsOrder ==
    [][\A i, j \in DOMAIN queue, x, y \in DOMAIN queue' :
          /\ queue'[x].id = queue[i].id /\ queue'[y].id = queue[j].id
          /\ y < x
          /\ Dominates(queue[i].before, queue[j].before)
          /\ queue[i].demotion >= queue[j].demotion
          /\ queue'[x].demotion >= queue'[y].demotion
          /\ OrderPreserving'
          => queue'[x].priority = queue'[y].priority]_allvars

(* "repeatedly-firing entities are demoted": whatever the calibration, a    *)
(* flap never raises the place an incident would get, now or later.         *)
FlapNeverRaisesPriority ==
    [][\A e \in Entities :
          lastUpdate'[e] # lastUpdate[e] /\ lastUpdate'[e] # None =>
              \A i \in {j \in Incidents : incident[j].root = e} :
                  LET calm == calibrator[GeometricMean(incident[i])]
                  IN \A u \in Time :
                        u >= now' => Demoted(calm, DemotionFactor(e, u)')
                                       <= Demoted(calm, DemotionFactor(e, u))]_allvars

(* What makes a blast radius one: what lies downstream of an affected node  *)
(* is affected, no further away than through that node, with the flows and  *)
(* services it carries.                                                     *)
ReachesThrough(g, blasts, n) ==
    LET a == blasts[n]
    IN \A m \in a.nodes :
          LET b == blasts[m]
          IN /\ \A k \in b.nodes \ {n} : k \in a.nodes /\ a.hops[k] <= a.hops[m] + b.hops[k]
             /\ b.services \cup g.attr[m].services \subseteq a.services \cup g.attr[n].services
             /\ b.flowCount <= a.flowCount

PipelineBlasts == [n \in PipelineTwin.nodes |-> BlastRadius(PipelineTwin, n, Flows)]

(* Each P router reaches the PEs it carries, and a route reflector all PEs. *)
PipelineTwinDocumented ==
    \A d \in DeviceNames :
        LET n == DeviceEntityId(d)
            carried == CASE Devices[d].role = "P"  -> {x \in DevicesByRole("PE") : {<<d, x>>, <<x, d>>} \cap Links # {}}
                         [] Devices[d].role = "RR" -> DevicesByRole("PE")
                         [] OTHER -> {}
        IN /\ {DeviceEntityId(x) : x \in carried} \subseteq PipelineBlasts[n].nodes
           /\ ReachesThrough(PipelineTwin, PipelineBlasts, n)

DemoTwinDocumented ==
    [n \in Twin.nodes |->
        /\ n[3] = "P"  => Spokes \cup {Hub} \subseteq Blasts[n].nodes
        /\ n[3] = "RR" => {m \in Twin.nodes : m[3] = "PE"} \subseteq Blasts[n].nodes
        /\ n \in Spokes => Blasts[n].nodes = {}
        /\ ReachesThrough(Twin, Blasts, n)]

(* The claims of demo_topology_spec, "a failing core P-router reaches the   *)
(* hub PE and all three branch CEs; a flapping RR reaches every PE; a       *)
(* branch CE reaches nothing downstream", and of the pipeline's own twin,   *)
(* "each P -> the PEs it carries" and the route reflectors to the PEs.      *)
TwinAsDocumented ==
    /\ \A i \in Incidents : DemoTwinDocumented[incident[i].root]
    /\ PipelineTwinDocumented
===============================================================================
