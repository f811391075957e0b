-------------------------------- MODULE Pipeline --------------------------------
(***************************************************************************)
(* The pipeline of netra/pipeline/orchestrator.py: records are folded into *)
(* per-stream state as they arrive (process), and that state is turned     *)
(* into a report of incidents any number of times (assemble).              *)
(*                                                                         *)
(* A stream is one precursor metric of one entity; a record is a sequence  *)
(* of samples, as a TunnelStat is one for each field. What the detectors   *)
(* make of a sample, and what the batch detectors and the forecasters make *)
(* of a history, are parameters. Times are in ticks, scores in hundredths. *)
(***************************************************************************)
EXTENDS Fusion, Correlation, TimeToImpact

CONSTANTS
    Streams, Entities,
    EntityOf, IssueOf,  \* [Streams -> ...]
    Threshold, Rising,  \* [Streams -> ...]: _MetricSpec
    Records,            \* set of sequences of [entity, stream, value, scores, drift];
                        \* of a metric that is no precursor the stream is None
    Gaps,               \* ticks between one record and the next
    Batch(_, _),        \* tier-2 scores of a stream with a history up to its peak
    Trajectories(_, _), \* the members of the forecast of a stream after some samples:
                        \* a sequence of [point, lower, upper, weight], <<>> if all failed
    HistoryLen, MinHistory, BaselineFloor, MaxStreams,
    TimelineFloor, ForecastFloor, IncidentFloor, AlertRisk,
    TopK, BatchTop,
    Labels,             \* sequence of [scenario, issue, target, precursor, fault, end]
    MaxRecords          \* bound on the records of a behaviour

ASSUME StreamAssumption ==
    \A s \in Streams : /\ EntityOf[s] \in Entities
                       /\ Threshold[s] \in Nat \ {0}
                       /\ Rising[s] \in BOOLEAN
ASSUME EntityAssumption == Entities \subseteq DOMAIN NodeOf
ASSUME NoneAssumption == None \notin Streams
ASSUME RecordAssumption ==
    \A record \in Records :
        /\ record \in Seq(ToSet(record))
        /\ \A x \in ToSet(record) :
              /\ x.entity \in Entities
              /\ x.drift \in Nat
              /\ x.stream # None => /\ x.stream \in Streams
                                    /\ EntityOf[x.stream] = x.entity
                                    /\ x.value \in Nat
                                    /\ IsScoring(x.scores)
Samples == {x \in UNION {ToSet(record) : record \in Records} : x.stream # None}

ASSUME BatchAssumption ==
    \A s \in Streams : \A n \in 0..HistoryLen : \A history \in [1..n -> {x.value : x \in Samples}] :
        IsScoring(Batch(s, history))
ASSUME LabelAssumption == \* one label for each scenario that was injected
    /\ Labels \in Seq(ToSet(Labels))
    /\ \A i, j \in DOMAIN Labels : Labels[i].scenario = Labels[j].scenario => i = j
    /\ \A i \in DOMAIN Labels : /\ Labels[i].scenario # None
                               /\ {Labels[i].precursor, Labels[i].fault, Labels[i].end} \subseteq Int
                               /\ Labels[i].precursor <= Labels[i].fault
                               /\ Labels[i].fault <= Labels[i].end
ASSUME FloorAssumption == AlertRisk \in Nat /\ TimelineFloor <= AlertRisk
ASSUME LimitAssumption ==
    /\ {HistoryLen, MinHistory, BaselineFloor, TimelineFloor} \subseteq Nat \ {0}
    /\ {TopK, BatchTop, MaxStreams, MaxRecords} \subseteq Nat
    /\ Gaps \subseteq Nat

VARIABLES
    tracked,  \* _streams: the streams with state, in the order they were first seen
    values,   \* [Streams -> Seq(Nat)]: the rolling history
    peak,     \* [Streams -> [value, scores, history, at]]: the onset snapshot
    drift,    \* [Entities -> Nat]: _latest_drift, how many detectors fired
    timeline, \* [Entities -> Seq([at, risk, issue])]: _risk_history
    now,      \* _last_ts
    seen,     \* _records_seen
    report,   \* the report of the last assemble(), None before
    log       \* history variable: the samples, with the number of their record

vars == <<tracked, values, peak, drift, timeline, now, seen, report, log>>

NoPeak == [value |-> 0, scores |-> <<>>, history |-> <<>>, at |-> 0]

Init ==
    /\ tracked = <<>>
    /\ values = [s \in Streams |-> <<>>]
    /\ peak = [s \in Streams |-> NoPeak]
    /\ drift = [e \in Entities |-> 0]
    /\ timeline = [e \in Entities |-> <<>>]
    /\ now = 0
    /\ seen = 0
    /\ report = None
    /\ log = <<>>
-------------------------------------------------------------------------------
TopScore(scores) == Max({0} \cup {scores[i].score : i \in DOMAIN scores})

(* A deque of the last HistoryLen samples.                                  *)
Push(history, value) ==
    LET longer == Append(history, value)
    IN IF Len(longer) > HistoryLen THEN Tail(longer) ELSE longer

(* Times count from the first record, _first_ts.                            *)
TimeAfter(gap) == IF seen = 0 THEN 0 ELSE now + gap

(* Mutant: the last drift is everybody's.                                   *)
DriftAfterAll(last, x) ==
    IF x.drift = 0 THEN last ELSE [e \in Entities |-> x.drift]

(* A drift that fires replaces the last one; nothing ever clears it.        *)
DriftAfter(last, x) ==
    IF x.drift = 0 THEN last ELSE [last EXCEPT ![x.entity] = x.drift]

(* The onset snapshot moves only to a strictly higher detector score.       *)
PeakAfter(last, x, history, at) ==
    IF TopScore(x.scores) > last.value
    THEN [value |-> TopScore(x.scores), scores |-> x.scores,
          history |-> history, at |-> at]
    ELSE last

RiskPoint(x, fired, at) ==
    LET risk == Risk(x.scores, fired, {})
    IN [at |-> at, risk |-> risk, issue |-> IF risk > 0 THEN IssueOf[x.stream] ELSE NoIssue]

(* Mutant: the timeline starts where an incident would.                     *)
TimelineAfterHigh(points, x, fired, at) ==
    IF Risk(x.scores, fired, {}) < IncidentFloor THEN points
    ELSE Append(points, RiskPoint(x, fired, at))

(* _record_risk_point: a tick is on the timeline from TimelineFloor up.     *)
TimelineAfter(points, x, fired, at) ==
    IF TopScore(x.scores) < TimelineFloor THEN points
    ELSE Append(points, RiskPoint(x, fired, at))

HasRoom(streams, s) == s \in ToSet(streams) \/ MaxStreams = 0 \/ Len(streams) < MaxStreams

(* _process_telemetry. A metric that is no precursor, or a new stream over  *)
(* the cap, still has its drift.                                            *)
Sampled(st, x, at) ==
    LET s == x.stream
        drifted == DriftAfter(st.drift, x)
        fired == drifted[x.entity]
        history == Push(st.values[s], x.value)
    IN IF s = None \/ ~HasRoom(st.tracked, s)
       THEN [st EXCEPT !.drift = drifted,
                       !.log = Append(@, [entity |-> x.entity, stream |-> None,
                                          record |-> seen + 1])]
       ELSE [tracked  |-> IF s \in ToSet(st.tracked) THEN st.tracked ELSE Append(st.tracked, s),
             values   |-> [st.values EXCEPT ![s] = history],
             peak     |-> [st.peak EXCEPT ![s] = PeakAfter(@, x, history, at)],
             drift    |-> drifted,
             timeline |-> [st.timeline EXCEPT ![x.entity] = TimelineAfter(@, x, fired, at)],
             log      |-> Append(st.log, [entity |-> x.entity, stream |-> s, value |-> x.value,
                                          scores |-> x.scores, at |-> at, fired |-> fired,
                                          record |-> seen + 1])]

(* _tunnelstat_to_records: the record of a tunnel that may not rekey.       *)
TunnelStat(loss, jitter, rekey) == <<loss, jitter>> \o (IF rekey = None THEN <<>> ELSE <<rekey>>)

StreamState == [tracked |-> tracked, values |-> values, peak |-> peak, drift |-> drift,
                timeline |-> timeline, log |-> log]

(* The samples of a record, one after the other.                            *)
AfterRecord(record, at) ==
    LET after[n \in 0..Len(record)] ==
            IF n = 0 THEN StreamState ELSE Sampled(after[n - 1], record[n], at)
    IN after[Len(record)]

(* process(): all the samples of a record.                                  *)
Process(record, gap) ==
    /\ seen < MaxRecords
    /\ seen' = seen + 1
    /\ now' = TimeAfter(gap)
    /\ LET st == AfterRecord(record, now')
       IN /\ tracked' = st.tracked
          /\ values' = st.values
          /\ peak' = st.peak
          /\ drift' = st.drift
          /\ timeline' = st.timeline
          /\ log' = st.log
    /\ UNCHANGED report
-------------------------------------------------------------------------------
(* sort(key=peak_value, reverse=True) is stable.                            *)
Position(s) == CHOOSE i \in DOMAIN tracked : tracked[i] = s

Before(s, t, pk) ==
    \/ pk[s].value > pk[t].value
    \/ pk[s].value = pk[t].value /\ Position(s) < Position(t)

(* How many of the streams come before one of them.                         *)
Place(s, set, pk) == Cardinality({t \in set : Before(t, s, pk)})

FirstOf(set, n, pk) == {s \in set : Place(s, set, pk) < n}

Candidates(pk) == {s \in ToSet(tracked) : /\ Len(pk[s].history) >= MinHistory
                                          /\ pk[s].value > 0}

(* Mutant: whatever the snapshot holds already.                             *)
BatchEnrichAgain(pk) ==
    LET top == FirstOf(Candidates(pk), BatchTop, pk)
    IN [s \in Streams |-> IF s \in top
                          THEN [pk[s] EXCEPT !.scores = @ \o Batch(s, pk[s].history)]
                          ELSE pk[s]]

MethodsOf(scores) == {scores[i].method : i \in DOMAIN scores}

(* The scores of the methods that are not there yet.                        *)
Fresh(scores, have) ==
    LET kept[n \in 0..Len(scores)] ==
            IF n = 0 THEN <<>>
            ELSE IF scores[n].method \in have THEN kept[n - 1]
            ELSE Append(kept[n - 1], scores[n])
    IN kept[Len(scores)]

(* Scores of the batch detectors join the snapshot of the top candidates,   *)
(* each method once.                                                        *)
BatchEnrich(pk) ==
    LET top == FirstOf(Candidates(pk), BatchTop, pk)
        Extra(s) == Fresh(Batch(s, pk[s].history), MethodsOf(pk[s].scores))
    IN [s \in Streams |-> IF s \in top THEN [pk[s] EXCEPT !.scores = @ \o Extra(s)]
                          ELSE pk[s]]
-------------------------------------------------------------------------------
Extremum(s, history) == IF Rising[s] THEN Max(ToSet(history)) ELSE Min(ToSet(history))

(* A robust z of 6 from the early samples, and half the threshold away from *)
(* their median; or at half the threshold, or within 1.2 times of a lower   *)
(* one. With MAD * 1.4826 for a deviation, doubled and quadrupled to stay   *)
(* in the integers.                                                         *)
IsGenuineExcursion(s, history) ==
    LET n == Len(history)
        base == SubSeq(history, 1, Min({n, Max({BaselineFloor, n \div 3})}))
        med2 == TwiceMedian(base)
        mad4 == TwiceMedian([i \in DOMAIN base |-> Dist(2 * base[i], med2)])
        dev2 == Dist(2 * Extremum(s, history), med2)
    IN /\ n >= MinHistory
       /\ \/ mad4 > 0 /\ dev2 * 20000 >= 88956 * mad4 /\ dev2 >= Threshold[s]
          \/ Rising[s] /\ 2 * Extremum(s, history) >= Threshold[s]
          \/ ~Rising[s] /\ 10 * Extremum(s, history) <= 12 * Threshold[s]

Screened(pk) == {s \in ToSet(tracked) : /\ pk[s].value >= TimelineFloor
                                        /\ IsGenuineExcursion(s, values[s])}

ExcursionFraction(s, history) ==
    LET extremum == Extremum(s, history)
    IN IF Rising[s] THEN (1000 * extremum) \div Threshold[s]
       ELSE IF extremum = 0 THEN 0 ELSE (1000 * Threshold[s]) \div extremum

(* _forecast_stream and _tti_for. The forecast is made of a thinned         *)
(* history, the time to impact starts at the newest sample of it.           *)
ForecastOf(s, history) ==
    LET members == Trajectories(s, Thinned(history))
    IN IF members = <<>> THEN {} ELSE {Ensemble(members)}

TimeToImpactOf(s, forecast, history) ==
    IF forecast = {} THEN None
    ELSE EstimateTTI(CHOOSE f \in forecast : TRUE, Threshold[s], Rising[s], history)

(* _fuse_stream at the onset: the scores of the snapshot, corroborated by   *)
(* the drift of today.                                                      *)
Fused(s, onset, fired, forecast, history, place) ==
    LET agreement == {f.agreement : f \in forecast}
    IN [entity     |-> EntityOf[s],
        metric     |-> s,
        at         |-> onset.at,
        issue      |-> IssueOf[s],
        risk       |-> Risk(onset.scores, fired, agreement),
        confidence |-> Confidence(onset.scores, fired, agreement),
        tti        |-> TimeToImpactOf(s, forecast, onset.history),
        excursion  |-> ExcursionFraction(s, history),
        place      |-> place]

(* One fused risk per stream that passes the screen. Only a strong stream,  *)
(* and in fast mode only one of the top K, is worth a forecast.             *)
FusedByMetric(pk) ==
    LET screened == Screened(pk)
        forecastSet == IF TopK = 0 THEN screened ELSE FirstOf(screened, TopK, pk)
        ForecastAtPeak(s) ==
            IF /\ pk[s].value >= ForecastFloor /\ s \in forecastSet
               /\ Len(pk[s].history) >= MinHistory
            THEN ForecastOf(s, pk[s].history)
            ELSE {}
    IN {f \in {Fused(s, pk[s], drift[EntityOf[s]], ForecastAtPeak(s), values[s],
                     Place(s, screened, pk)) : s \in screened} : f.risk >= IncidentFloor}

(* The metric of an entity that breached most speaks for it, then the one   *)
(* of the highest risk, then the first.                                     *)
Outranks(f, g) ==
    \/ f.excursion > g.excursion
    \/ f.excursion = g.excursion /\ f.risk > g.risk
    \/ f.excursion = g.excursion /\ f.risk = g.risk /\ f.place < g.place

(* One event per entity, in the order of their first fused risks.           *)
CollapsePerEntity(fused) ==
    LET Of(e) == {f \in fused : f.entity = e}
        Best(e) == CHOOSE f \in Of(e) : \A g \in Of(e) \ {f} : Outranks(f, g)
        Event(f) == [entity |-> f.entity, metric |-> f.metric, at |-> f.at, issue |-> f.issue,
                     risk |-> f.risk, confidence |-> f.confidence, tti |-> f.tti,
                     rank |-> Min({g.place : g \in Of(f.entity)})]
    IN {Event(Best(e)) : e \in {f.entity : f \in fused}}

(* An entity that is not on the graph shares its node with all of those.    *)
SameDevice(e, f) == NodeOf[e] = NodeOf[f] \/ e = f

Touches(inc, label) == \E e \in inc.events : SameDevice(e.entity, label.target)

(* _tag_scenarios: the first label whose device the incident touches.       *)
TagScenarios(incidents) ==
    LET Hits(inc) == {i \in DOMAIN Labels : Touches(inc, Labels[i])}
    IN {[events   |-> inc.events,
         root     |-> inc.root,
         issue    |-> inc.issue,
         risk     |-> inc.risk,
         tti      |-> inc.tti,
         scenario |-> IF Hits(inc) = {} THEN None ELSE Labels[Min(Hits(inc))].scenario]
            : inc \in incidents}

(* _incident_for_scenario takes the first of these in the order of          *)
(* priority, which is left open here: one with the tag, or one on the       *)
(* device.                                                                  *)
IncidentsForScenario(label, incidents) ==
    LET tagged == {inc \in incidents : inc.scenario = label.scenario}
    IN IF tagged # {} THEN tagged ELSE {inc \in incidents : Touches(inc, label)}

PointsFor(label) ==
    UNION {ToSet(timeline[e]) : e \in {f \in Entities : SameDevice(f, label.target)}}

(* _issue_seen_for_target: whenever, the horizon it is given goes unused.   *)
IssueSeen(label) == \E p \in PointsFor(label) : p.issue = label.issue

(* _evaluate_one: the first alert on the label's device before the fault,   *)
(* the peak of its risk, and the incident that is credited to the label.    *)
Evaluate(label, incidents) ==
    LET inTime == {p \in PointsFor(label) : p.at <= label.end}
        alerts == {p.at : p \in {q \in inTime : /\ q.risk >= AlertRisk
                                              /\ label.precursor <= q.at
                                              /\ q.at < label.fault}}
        credited == IncidentsForScenario(label, incidents)
    IN [label    |-> label,
        peak     |-> Max({0} \cup {p.risk : p \in inTime}),
        lead     |-> IF alerts = {} THEN None ELSE label.fault - Min(alerts),
        credited |-> credited,
        correct  |-> IF credited = {} THEN {IssueSeen(label)}
                     ELSE {inc.issue = label.issue : inc \in credited}]

(* What assemble() makes of the given snapshots.                            *)
Report(pk) ==
    LET incidents == TagScenarios(CorrelateToIncidents(CollapsePerEntity(FusedByMetric(pk))))
    IN [records   |-> seen,
        incidents |-> incidents,
        evals     |-> {Evaluate(label, incidents) : label \in ToSet(Labels)}]

Assemble ==
    /\ peak' = BatchEnrich(peak)
    /\ report' = Report(peak')
    /\ UNCHANGED <<tracked, values, drift, timeline, now, seen, log>>

Next == (\E record \in Records, gap \in Gaps : Process(record, gap)) \/ Assemble

Spec == Init /\ [][Next]_vars
-------------------------------------------------------------------------------
(* A report that no record has come after.                                  *)
Current == report # None /\ report.records = seen

EventsOf(rep) == UNION {inc.events : inc \in rep.incidents}

(* The samples of a stream, and those of them that its deque holds.         *)
SamplesOf(entries, s) ==
    LET upTo[n \in 0..Len(entries)] ==
            IF n = 0 THEN <<>>
            ELSE IF entries[n].stream = s THEN Append(upTo[n - 1], entries[n].value)
            ELSE upTo[n - 1]
    IN upTo[Len(entries)]

Newest(samples) == SubSeq(samples, Max({1, Len(samples) - HistoryLen + 1}), Len(samples))

EntriesOf(entries, s) == {i \in DOMAIN entries : entries[i].stream = s}

(* The first of the entries of the stream that scored highest.              *)
OnsetEntry(entries, s) ==
    LET mine == EntriesOf(entries, s)
        top == Max({TopScore(entries[i].scores) : i \in mine})
    IN Min({i \in mine : TopScore(entries[i].scores) = top})

(* What the onset snapshot of a stream is by all the records so far, had no *)
(* report ever been assembled.                                              *)
OnsetSnapshot(entries, s) ==
    LET at == OnsetEntry(entries, s)
    IN IF EntriesOf(entries, s) = {} \/ TopScore(entries[at].scores) = 0 THEN NoPeak
       ELSE [value   |-> TopScore(entries[at].scores),
             scores  |-> entries[at].scores,
             history |-> Newest(SamplesOf(SubSeq(entries, 1, at), s)),
             at      |-> entries[at].at]

(* assemble() is "safe to call repeatedly while streaming": as long as the  *)
(* batch pass has room for every candidate, a report is the one that would  *)
(* have been made of the same records with no report before it.             *)
AssembleIsRepeatable ==
    Current /\ Cardinality(Candidates(peak)) <= BatchTop
        => report = Report(BatchEnrich([s \in Streams |-> OnsetSnapshot(log, s)]))

(* The evaluation against the labels is what it claims to be. The lead time *)
(* runs from the first record that alone deserves an alert: the fast path   *)
(* that keeps healthy ticks off the timeline loses no alert and adds none.  *)
(* And although an incident on two labels' devices is tagged with one, an   *)
(* incident is credited to a label just when there is one on its device,    *)
(* and it is on that device.                                                *)
EvaluationIsExact ==
    Current => \A eval \in report.evals :
        LET label == eval.label
            alerts == {i \in DOMAIN log :
                /\ log[i].stream # None
                /\ SameDevice(log[i].entity, label.target)
                /\ Risk(log[i].scores, log[i].fired, {}) >= AlertRisk
                /\ log[i].at \in label.precursor..(label.fault - 1)}
        IN /\ eval.lead = IF alerts = {} THEN None
                          ELSE label.fault - Min({log[i].at : i \in alerts})
           /\ eval.credited = {} <=> \A inc \in report.incidents : ~Touches(inc, label)
           /\ \A inc \in eval.credited : Touches(inc, label)

(* Incidents are what they claim to be: an entity with a fused risk is in   *)
(* exactly one of them, events that are close in time and on the topology   *)
(* are in the same one, however long the chain of events that links an      *)
(* incident, and no incident falls apart in two parts with nothing close.   *)
IncidentsPartition ==
    Current =>
        /\ AreIncidentGroups({inc.events : inc \in report.incidents}, EventsOf(report))
        /\ \A fused \in FusedByMetric(peak) :
              Cardinality({e \in EventsOf(report) : e.entity = fused.entity}) = 1

(* Nothing in an incident is a better root cause on both counts than the    *)
(* one that is named: no later, no less central, and better in one of both. *)
RootDominates ==
    Current => \A inc \in report.incidents : \A e \in inc.events, root \in inc.events :
        (root.entity = inc.root /\ e # root) =>
            LET more == TopologyCentrality(inc.events)[e]
                           - TopologyCentrality(inc.events)[root]
            IN ~(e.at <= root.at /\ more >= 0 /\ (e.at < root.at \/ more > 0))

(* The time to impact of an incident's event is one that the forecasters    *)
(* agree on, in the time of the samples however much the history was        *)
(* thinned: zero if the threshold has been reached, no later than the first *)
(* step by which they all are beyond it, no earlier than the step before    *)
(* one of them is, and not before the band is. And it takes half of the     *)
(* pairs of samples in its window to make the trend an ETA.                 *)
EtaIsConsensus ==
    Current => \A e \in {f \in EventsOf(report) : f.tti # None} :
        LET s == e.metric
            history == peak[s].history
            members == Trajectories(s, Thinned(history))
            Beyond(value) == Crosses(value, Threshold[s], Rising[s])
            steps == DOMAIN members[1].point
            all == {k \in steps : \A i \in DOMAIN members : Beyond(members[i].point[k])}
            some == {k \in steps : \E i \in DOMAIN members : Beyond(members[i].point[k])}
            window == {i \in DOMAIN history : i > Len(history) - TrendWindow}
            pairs == {p \in window \X window : p[1] < p[2]}
            heading == {p \in pairs : IF Rising[s] THEN history[p[1]] < history[p[2]]
                                      ELSE history[p[1]] > history[p[2]]}
        IN IF Beyond(Last(history)) THEN e.tti.eta = 0
           ELSE /\ all # {} => e.tti.eta \in 0..(StepTime * Min(all))
                /\ (e.tti.eta # NoEta /\ e.tti.method = "trajectory_crossing") =>
                      /\ some # {} /\ e.tti.eta >= StepTime * (Min(some) - 1)
                      /\ e.tti.lower = NoEta \/ e.tti.lower <= e.tti.eta
                /\ e.tti.method = "theil_sen_extrapolation" =>
                      2 * Cardinality(heading) >= Cardinality(pairs)

(* The streams that some detector has fired on.                             *)
Scorers == {s \in ToSet(tracked) : peak[s].value > 0}

(* An incident does not fade because of its surroundings: as long as the    *)
(* batch pass and the top K have room for every stream that ever scored,    *)
(* the event of an entity that has had no record since the last report is   *)
(* in the next one as it was.                                               *)
UntouchedEventsStay ==
    [][(/\ report # None /\ report' # report
        /\ Cardinality(Scorers) <= BatchTop
        /\ TopK = 0 \/ Cardinality(Scorers) <= TopK)
       => \A e \in EventsOf(report) :
             (\A i \in DOMAIN log : log[i].record > report.records => log[i].entity # e.entity) =>
                 \E f \in EventsOf(report') : [f EXCEPT !.rank = e.rank] = e]_vars
===============================================================================
