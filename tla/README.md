# NETRA in TLA+

TLA+ modules, TLC configurations and TLAPS proofs for NETRA, the predictive
network-operations assistant in `src/`. Telemetry is streamed into features and
detectors, their scores are fused into a risk per entity, risky entities are
correlated into incidents, incidents are ranked and explained, and an offline
copilot answers three questions about each (what will fail and when, why, what
to do) to an operator's console.

Run a module with `tlc -config X.cfg M`, check proofs with `tlapm M.tla`.
`PROJECT.json` lists the runs, the source lines every definition stands for,
the hazards, the divergences found and the theorems.

## 1. The system

```
 collectors --> NATS JetStream TELEMETRY --> NatsTelemetrySource.run --> FEATURES
 (gnmic, ...)    (at least once)              FeatureEngine per entity
                                                   | triggers
                                                   v
                                              AlertEmitter --> ALERTS
 generator or lab --> labels
        |
        v
 NetraPipeline.process --> assemble --> prioritize_incidents --> Copilot.answer
   per-stream detectors     fuse - forecast - correlate - tag        ^
                                   |  report                         | retrieval
                                   v                                 |
 browser console <-- FastAPI routes, risk stream <-- provider -------+
```

| component | state | operations | hard behaviour | what makes it correct |
|---|---|---|---|---|
| alert emitter (`streaming/alerts.py`) | ordered map key to last timestamp, two counters | `emit`, `emit_from_feature_vector`, `dedupe` | no clock but the candidate's timestamp; expiry from the front only; a key cap | a key fires once within its window; nothing is suppressed without a witness; the store stays bounded and does not go stale |
| live ingest (`streaming/sources.py`, `engine.py`, `telemetry/nats-streams.sh`) | broker deliveries per message; the client's queue; per-entity sample counts and last emission | fold, publish, ack; connect, cancel, close, rerun, restart | redelivery, lost acks, crash between fold, publish and ack; payloads that kill the loop; a subscription that outlives its reader; state in memory behind a durable cursor | an acked record was folded and its vector published or throttled; a message is given up only for a cause; every message settles |
| features and detectors (`streaming/features.py`, `detectors.py`, `engine.py`) | fading means, rings, counters, sketches, per stream | one update per sample; snapshots | streams interleave; counters reset; times come late; hashes collide; a reading outlives what it was read from | a snapshot is what the stream's own samples make it; a warning of a steady climb is in time; counts and rankings agree with what they count |
| flap suppressor (`analytics/risk/suppress.py`) | penalty, last update, flag per entity | `observe`, `is_suppressed`, `demotion_factor`, `reset` | lazily applied decay; hysteresis; calls out of time order | flag agrees with penalty; suppression is bounded; flapping never pays |
| scoring and ranking (`risk/score.py`, `calibrate.py`, `prioritize.py`) | the calibrator's fit; writes into incidents | `fit`, `score_incident`, `prioritize_incidents` | demotion in place, which the next ranking reads; calibration by a merging scan or a sigmoid of either sign; roundings to different digits; a sort next to a write-back | what is written agrees with the order returned; worse in every factor is never ranked better, nor when ranked again |
| digital twin (`correlation/graph.py`, `blast_radius.py`, `pipeline/topology_adapter.py`, `datagen/topology.py`) | two graphs | lookup, criticality, blast radius | the same network twice, with edges that must point the way failures propagate | a failure takes down what the network's description says |
| pipeline (`pipeline/orchestrator.py`) | per-stream history, onset snapshot, drift and risk history | `process`, `assemble`, `run_scenario` | `assemble` while streaming; snapshots that never decay beside history that scrolls; three samples of one report | repeatable assembly, onset snapshots that agree with themselves, exact evaluation |
| fusion, correlation (`analytics/fusion`, `correlation/`) | none | `fuse`; grouping, root cause | disagreeing families; transitive grouping; ties | partition of events; root in its group |
| forecasting (`analytics/forecasting/`) | the members' fits | combine, time to impact | interpolated crossings, bands that do not cross, fallback to the trend | an ETA is one the members agree on |
| copilot (`copilot/`), retrieval (`copilot/rag/`) | the chosen backend; an in-memory store | `answer`; hybrid search, graph reach | the model server comes and goes, times out, answers anything its grammar admits; the caller may override any piece | cites only what it was given, abstains or is grounded, keeps the analytics' numbers, always answers; the chunks are the best |
| operator API (`api/deps.py`, `routes/`) | one shared provider, its tick counter | `get_provider`, `set_provider`, `reset_provider`, SSE | double-checked locking; streams sharing a counter; a build that raises | one provider, fresh ticks, streams end |
| situation providers (`api/providers.py`) | scenes or a live pipeline's report | incidents, topology, timeline, query, `risk_tick` | a restart that changes kind while consoles keep ids; a question routed by id, entity or word | the answer is about what was asked; endpoints agree; what the pipeline's copilot said is what is shown |
| console (`ui/app.js`) | selection, card, graph, chart | boot, click, chat, live frame | replies overtake each other | everything shown is about the selection |
| datagen (`datagen/`) | config, tick | schedule, label, emit | labels are written before the data; scenarios overlap; short runs | streams leave their baseline only where a label says so |
| fault drivers (`sim/faults/`) | the lab, the label file | impair, clear, `run_all` | commands that fail, hang or are interrupted | impairment lies within the labels, or the next run takes it back |
| contracts, explanation, scripts, security, dashboards | none | types, wording, install | | |

The hazards behind the "hard behaviour" column, each at its line with the
properties aimed at it, are in `PROJECT.json`; section 6 names a few more.

## 2. Modules

A module per component, its properties at its end; `MC*` gives constants values
that a `.cfg` cannot write; `*Proofs` holds the theorems. Operators marked
*Mutant*, such as `DeliverOnce`, are plausible bugs and part of no
specification: each property is known to be violated when one of them replaces
its original.

```
 ReferenceTopology <- TopologyGraph <- Ranking -> FlapSuppressor
        ^                  ^              ^
        |                  |              +--- RankingProofs -> NumberLemmas
        |                  +------- Providers <- RankingProofs
        +- Scenarios <- SyntheticGenerator <- TelemetrySources -> FaultDrivers
 AlertOnce <-(implements)- AlertEmitter <- AlertEmitterProofs
 Features <- FeatureEngine <- FeatureEngineProofs -> NumberLemmas
 Retrieval <- Copilot <- CopilotProofs
 Fusion, Correlation, TimeToImpact <- Pipeline <- PipelineProofs -> NumberLemmas
 NatsIngest <- TelemetryProofs -> TelemetrySources, NumberLemmas
 ApiServer <- OperatorProofs -> OperatorConsole
```

### AlertEmitter, AlertOnce
`seen` is `_seen` in insertion order; `out` and `suppressed` are the returned
and dropped candidates (the code keeps their counts); `pending` is the rest of
the list a multi-candidate call is walking through. `ProcessCandidate` is
`emit()`: expire, look up, then remember with eviction at the cap or suppress.
`Emit`, `EmitFromFeatureVector` (each trigger becomes a candidate with the
window's key) and `Dedupe` are the entry points. The hash of `make_alert_key`
is modelled as the tuple it hashes, with the timestamp floored to the window.
`MaxLag` states how late a candidate's timestamp may be; the code has no bound.

`AlertOnce` is the promise without store, clock or loop: a candidate is
returned, or dropped because an alert of its key was returned less than a window
away; a key is returned twice only if the cap had forgotten it. Deliveries that
are later than the dedup horizon allows are outside of the promise (`InTime`).
`AlertEmitter` implements it with `alerts <- out`, `dropped <- suppressed`,
`forgotten <- evicted`; entering a list is a stuttering step.

### NatsIngest
`delivery[m]`, `deliveries[m]` are the broker's view of message `m` (stored,
delivered, acked, given up; how often); `inbox` is the subscription's queue,
`cur`, `fv`, `pc`, `processed` are `run()`'s locals, `engine`, `samples`,
`lastEmit` the in-memory feature state. One action per await of `run()`:
`Iterate` (fetch, decode, fold), `PublishFeatures`, `Ack`; the error paths
`PublishFails`, `DecodeRaises`, `AckLost`; `Cancel`, `Close`, `Rerun`, `Restart`
and `Crash` for what happens around it.

`run()` never unsubscribes. Once it has returned at `max_messages`, raised or
been cancelled, its `connection` is `leftover`: the durable stays bound to a
subscription nobody reads, and a delivery may go there (`GoesAstray`, counted in
`strays`), also while a `Rerun` on the same connection reads beside it. `Close`
and the end of the process unbind it. The broker is external: `Deliver` and
`AckWaitExpires` follow the consumer that `telemetry/nats-streams.sh` provisions
(explicit ack, `--wait`, `--max-deliver`).

### Features, FeatureEngine
`Features` is one operator per computer of `features.py` (what one more sample
does to its state) and what `snapshot` reads from it; values are integers in a
unit in which the fading means of a bounded stream are exact. `FeatureEngine`
is `engine.py`: `Process` folds a record into the state of its entity, metric
and feature, keeps the latest readings (`Surfaced`: a computer that has nothing
to say leaves its last value), votes triggers and throttles. The computers that
the default registry does not wire (flap count, top talkers, CUSUM) are driven
by a caller of their own (`tool`, `calls`).

### FlapSuppressor, Ranking, TopologyGraph, ReferenceTopology
`FlapSuppressor`: `observe()`, `is_suppressed`, `demotion_factor` and `reset()`,
one action or operator each, with `Decay(p, dt)` a constant operator of which
the module assumes what the proofs need of an exponential: a value between 0
and p, monotone, composing over time.

`Ranking` extends it with the triage queue. `calibrator` is what `transform()`
makes of every score and `method` how it came about: not fitted, isotonic
(`PooledOnce`, `Interpolated`), or the default Platt sigmoid, whose fit is
external and may come to any rising or falling curve (`Curves`). `GeometricMean`
is of the four floored factors, rounded as `raw_score` is; `Priority` is its
calibrated value demoted by the root cause's penalty. `Prioritize` is the in-place
write-back, stable sort and severity buckets: the severity is read from the
priority, the confidence is the priority written with fewer digits (`Written`).
It may be called again, with what it wrote, after further flaps.

`TopologyGraph` is the twin: `FromSpec` builds one from nodes and (directed or
two-way) edges, `DemoTwin` is the built-in network, `PipelineTwin` what
`topology_adapter.py` derives from the reference topology, `BlastRadius` the
reach along propagation edges with hops, sites and intersected flows.
`ReferenceTopology` is the table of `datagen/topology.py`; an entity id is the
tuple of its parts.

### Fusion, Correlation, TimeToImpact
All functional. `Fusion` is the risk score of one stream at one instant
(`Level`, the weighted mean of `RiskFuser.fuse`; `Agreement`, the share of
families, forecast and drift that are raised). `Correlation` makes incidents of
a set of events: `Groups` are the connected components of `Close` (the window
and the hop distance of `correlate_events`), `Score` and `Root` follow
`rank_root_causes` (centrality, onset order, causality, each floored and
multiplied), `DominantIssue` and `Incident` follow `assemble_incident`. A
component is defined as what no group that is separate from the rest can do
without; this is connectedness without a recursion, so that it can be proved
about. The graph library's distances and centralities are constants, and so is
what the exponential and the extreme-value test return (`Breadth`, `Extreme`).
Causality is the neutral score of the short series the fast path has.

`TimeToImpact` combines the members' trajectories (`Ensemble`: weighted mean,
widest band, agreement), finds the crossing with its interpolation
(`CrossTime`), the interval and confidence (`TrajectoryTTI`), and falls back to
the median of slopes (`TheilSenEta`).

### Pipeline
| model | code |
|---|---|
| `tracked`, `values`, `peak` | `_streams` in insertion order, each stream's `values`, and the `peak_*` snapshot of its onset |
| `drift`, `timeline`, `now` | `_latest_drift`, `_risk_history`, `_last_ts` |
| `report` | what the last `assemble()` returned |
| `log` | a history variable; its length is `_records_seen` |
| `Process` | `process()`: the samples of one record folded one after the other (`Sampled`), precursors, other metrics and streams beyond `max_streams` alike |
| `Assemble` | `assemble()`: batch enrichment (which writes into the snapshots), screening, forecasts for the top K, collapse per entity, correlation, tagging with the scenarios' labels, their evaluation and lead times |

What the detectors make of a sample comes with the record, what the batch
detectors and the members of the forecast make of a history are the constant
operators `Batch` and `Trajectories`. Times are ticks since the first record,
scores are hundredths. Flow and syslog records are records without drift.

### Retrieval, Copilot
`Retrieval`: a query is the dense and sparse score of each chunk; the rankings,
their cut at the candidate pool, reciprocal rank fusion (its sums are compared
as fractions) and the hop-bounded graph facts follow; the metadata filter, which
no caller sets, is left out. `Copilot`: `answer()` in phases: `Ask` resolves
the request's pieces (explicit ones override the incident's), retrieves,
decides to abstain; the model or the template answers (`ModelAnswers`;
`ModelFails`, twice before the fallback; `TemplateAnswers`); `Gate` enforces
the citations; `Raise` is any exception on the way, after which the pipeline
answers from the incident alone (`LastResort`).
`Construct` is the health probe that chooses the backend once;
`ServerFlips` is the model server. A model's answer is *any* record of a set of
outputs that mixes grounded and invented citations and dropped approvals.

### Providers
`provider` is what `make_provider` built from the environment (demo, stub, or
live with a report), with the scenes of `DemoProvider` written out. `Copilot`,
`Situation`, `LoadIncidents` and `RiskTick` are its stateful reads; topology,
timeline and affected entities are operators. `AnswerFor` is `_copilot_for`: the
whole answer of the pipeline's copilot (its own issue, confidence, steps and
approvals, or its abstention, all part of the report) if it gave one and no
question was put, one made of the incident otherwise. `MakeProvider` is a restart:
the console's `loaded` ids survive it. `Resolve` is the order in which a question
finds its incident: its id, an entity, a word, the headline.

### ApiServer
`get_provider` is one action per read of `_provider` that another thread can
see (`Check`, `Acquire`, `Recheck` or `BuildRaises`, `Release`, `Return`);
`SendFrame` is one turn of the risk stream's generator on the provider it got.

### OperatorConsole
Each handler is split at its awaits: `BootLoads`, `Click` and `AskCopilot`
start, `QuerySettles`, `TimelineReturns`, `ChatReturns` and their failures
resume. `calls` holds what awaits a reply; replies settle in any order.

### Scenarios, SyntheticGenerator, FaultDrivers, TelemetrySources
`Scenarios`: the diurnal curve, baselines with noise, and the four `_inject_*`
functions, in integers. `SyntheticGenerator`: schedule and labels before any
record (`SpecOf`, `Label`), then one tick of `iter_records` per action.
`FaultDrivers`: a driver is a program of commands and sleeps; `OpenLabel`,
`Command` (with a delay, failing unnoticed or not), `Return`, `Interrupt`.
`TelemetrySources` composes the two sources as `TelemetrySource` does: a
deployment has one of them.

## 3. Runs

`NAME (V)` is a run that ends in a violation by design; the quoted claim is in
`PROJECT.json`. "Deadlock off" means the bounded inputs run out, or what is
modelled really stops.

| run | what it asks | bounds, and why they are enough |
|---|---|---|
| alert_emitter | keys fire at most once while deliveries stay within the horizon and the cap; no key outlives its window by more than the lag; the emitter implements `AlertOnce` | 2 entities x 2 metrics against a cap of 2 keys, so eviction happens; 7 instants with window 2, horizon 3 and lag 2, so several windows, expiries and late candidates; lists of 2, 5 candidates. Entities are symmetric. Deadlock off |
| nats_ingest | acked means folded and published or throttled; emission spacing; giving up has a cause; every message settles | 2 records of one entity one instant apart and one payload that is JSON but no object, which kills `run()`; 2 deliveries, 1 fault, spacing 2 (the second record may be throttled), `max_messages` 2 of 3; runs that end leave their subscription behind until the source is closed or restarted, and reruns read beside it. Deadlock off |
| nats_ingest_toxic (V) | every good record is folded, with such a payload in the stream and no fault at all | 1 record, 1 payload, 2 deliveries. Deadlock off |
| features | snapshots are what a stream's own samples make them; an ETA of a steady climb is never early and bounded late; flap counts, top talkers and CUSUM agree with what they stand for | the engine: 2 symmetric entities, 6 metrics, any 3 records mixed, or a stream of up to 5; the computers on their own: 5 calls, a ring of 3 flaps, 2 candidate keys for 3 flows in a sketch of 4 x 2 with and without collisions, deviations to both sides. Deadlock off |
| ranking | the queue agrees with what it writes back; dominance survives calibration and demotion, and being ranked again; flapping only costs; suppression is bounded; both twins are as documented | the default thresholds in halves (increment 2, suppress 6, reuse 2, cap 32), bursts of up to 8 flaps before the first ranking and of 8 between rankings, 3 time units of two half-lives, which decay the cap below the reuse threshold; calls in time order; 2 incidents on 4 possible roots of the demo network with an ETA of 15 or 25 minutes, on either side of what no prediction counts as, or none; 2 rankings, the second of what the first wrote back; a calibrator that is unfitted, isotonic on outcomes that go up and down or only down, or a sigmoid that rises or falls. Deadlock off |
| copilot | the best chunks; answers that cite what they were given, keep the numbers or abstain; a cautious fallback; every request answered | an empty corpus or 3 chunks of 2 documents (pool 3, `rrf_k` 60, 2 of the chunks used), rankings that agree, oppose, tie or match nothing; contexts from nothing to an incident with every piece overridden; playbooks retrievable or not; a link chain of 2 hops |
| api_server | one provider, fresh ticks; limited requests end | 3 requests (limits 1, 2 and none), 2 admin calls, 1 failing build, 2 ticks of an unlimited stream. Deadlock off: closed streams stay closed |
| providers | the answer is about what was asked; endpoints agree; what the pipeline's copilot said stands | 2 restarts between demo, stub and live, 3 live reports (none; one that the copilot abstained on; two, of which a model answered the first, with an issue of its own and a change without an approval), 2 ticks; every request by id, entity and word. Deadlock off |
| console | card and graph agree; chat keeps its incident; the stream starts | every queue of up to 3 incidents that matters, two of one fault among them; boot and 2 further activities at once |
| console_race (V) | everything follows the selection, whatever overlaps | the same |
| pipeline | reports are repeatable, events stay at their onsets, evaluation is exact, incidents partition the events, the root dominates, ETAs are those the members agree on, untouched events stay | 6 streams of 3 entities on a chain of nodes where only neighbours are close, so that an incident can be a chain whose ends are not; two metrics of one entity that compete; a tunnel report of three samples, one of a metric that breaches downwards. 4 records, 4 tracked streams of 6 (the cap is met, also within a tunnel report), histories of 3 thinned by 2, batch pass and top K of 2 (both overflow), gaps of 0 and 2 ticks against a window of 2; labels that share an incident. ETAs that are already breached, cross in the first or second step, come from the trend, are missing, or lie outside their band all occur. Deadlock off |
| lab | streams leave their baseline only where and when a label says so; impairment lies within its label; what is left impaired can be taken back | 4 run lengths (too short for the ramps to an hour) at night, noon and the evening peak, on weekdays and weekends, with all four or two scenarios; draws of -2, 0, 2 sigma; 5 of the devices, every scenario's target among them; drivers with 2 cycles, 3 bursts, commands that take 0 or 50 s, fail, or are interrupted; 2 calls. Deadlock off |

### Fairness
* nats_ingest: the broker delivers and times out, `run()` advances, and someone
  reruns it when it died (the compose service restarts it). Nothing is assumed
  of faults, and a restart is as good as a rerun.
* copilot: `TemplateAnswers`, `Gate` (straight-line code) and `ModelFails`: the
  httpx client has a timeout, so a request to the model ends. Nothing says the
  model ever answers.
* api_server: pool threads are scheduled and the event loop turns. Nobody has
  to disconnect.
* console: requests to the page's own server settle one way or the other.

The other modules state safety only: they are called, and do not run by
themselves.

## 4. Proofs

**AlertEmitterProofs** proves, for every value of the constants,
`TypeCorrect`, `StoreIsBounded`, `AtMostOnce`, `NoFirstOccurrenceLost` and
`StaleKeysAreBounded`. None of the last three is inductive. The invariant
`IInv` adds: what `seen` remembers of a key is the timestamp of the last alert
returned with it; a returned key that is neither remembered nor evicted by the
cap is so old that no delivery within `MaxLag` can carry its window again;
remembered timestamps are at most the newest processed, and the front of the
store is what the expiry left. The argument goes through one lemma per aspect
of `ProcessCandidate` (`ProcessType`, `ProcessStore`, `ProcessLog`), then one
step per action. `LateDuplicate` is the arithmetic heart: two candidates with
one key lie within one window, so a duplicate that finds its key gone would
have to lag by more than allowed.

The same module proves the refinement, `EmitterImplementsOnce`: a first-time
candidate is a `Return` (`FirstTimeIsNew`: a key returned before that is not
remembered is one the cap forgot, or the candidate is late), a duplicate is a
`Drop` whose witness `IInv` supplies, and entering a list stutters.

**RankingProofs** starts with the suppressor: `TypeCorrect`, `Hysteresis`,
`CalmForever`, `OutageIsBounded` and, for calls in time order, `FlapsNeverPay`,
from the assumptions on `Decay` only. `IInv` strengthens the flag's agreement
with the penalty *as stored*; the properties speak of the penalty as decayed to
now, and the lemmas on `Decay` bridge the two.

The triage extends it to `RInv` (`RankingInductive`): a calibrator is the
identity, the table of an isotonic fit, or a curve (`CurveInv`); the queue is
sorted, holds each incident once, and each entry of it still says how it was
scored and what its incident shows (`Settled`); and, unless the calibrator falls,
an entry that dominates another has no less priority (`Ordered`).
`QueueStaysConsistent`, `DominanceIsRespected` and `RankingAgainKeepsTheOrder` follow,
because every stage keeps order: floored factors, roundings (`RoundedGrows`) and
integer roots (`GeometricMeanGrows`), calibration (`CurveRises`), demotion
(`DemotedGrows`), the digits that are written back (`WrittenGrows`) and the sort
(`SortedFalls`). The last of the three theorems needs `Ordered` of the queue before:
the confidences that the second ranking reads are the priorities of the first.
`FitIsCalibrated` is why isotonic calibration rises: a merge makes one block of two,
so after as many merges as there are samples no block is above the next, and
interpolation between blocks stays between their means (`IsotonicRises`).
`FlapsNeverRaise` puts `DemotionFalls` on top of what `FlapsNeverPay` is proved from,
and needs nothing of the calibration.
`BlastsReachThrough` says of every network that a blast radius holds those of
the nodes in it: after as many hops as there are nodes a ball that still grew
would have more elements than there are (`ReachIsClosed`).

**PipelineProofs** starts with the grouping: `GroupsAreIncidentGroups` says that
for every topology, window and set of events, `Groups` is a partition of the
events, close events are together and no group has two parts with nothing close
between them. The first step is `ComponentIsSeparate`: an event outside of a
component is outside of some separate group that holds all of the component.
Then an event of a component has that same component (`ComponentOfMember`): its
own is contained in it, and were it smaller, what is left would be, `Close`
being symmetric, a smaller separate group. The partition follows with no
induction on paths.

Then the pipeline. `IInv` (`PipelineInductive`) is: the streams' state has its
type, in which every history is within `history_len` and every detector scores
a sample once; a stream with an onset has a history; the timelines hold just
the ticks of `log` that are lit; and a report that no record has come after is
`Report(peak)`, that is, `assemble()` reports on the snapshots it leaves behind.
`SampledInv` does it for one sample, `AfterRecordInv` for the samples of a
record. From it follow
* `IncidentsArePartition`: fused risks have one place each, so `Outranks` orders
  the metrics of an entity strictly, the entity has one event (`CollapsedAre`),
  and the events are what the grouping is promised;
* `RootsDominate`: centrality and onset are scaled without losing order
  (`NormIs`, `OnsetIs`), the causality of the fast path is the same for all, and
  the product of the floored factors keeps the order (`ScoreGrows`);
* `EvaluationsAreExact`: an alert is at most the highest detector score of its
  tick (`RiskRange`: weighted mean and agreement are shares of 100), so a tick
  that deserves one reaches the floor of the timeline; and a label's tag never
  takes the credit off its device (`TaggedTouches`).

Two more properties are about several reports, and each has an invariant of its
own. `ReportsAreRepeatable` rests on `RepInv`. `SnapInv` says where every snapshot
comes from: the history of a stream is that of its samples in `log`, and its
snapshot is its *onset*, the first of its samples that scored highest with the
history up to it, or that onset made `Richer` by the batch pass, and only a
candidate of the batch pass is. A higher score replaces either by the new onset
(`SampledSnaps`), and a second pass over a richer snapshot adds nothing
(`RicherIs`: it finds every method there). `RepeatInv` is that after a report with
room for all candidates the snapshots are the batch pass of the onsets, which do
not depend on the reports before.

`UntouchedEventsStayed` rests on `Stays`: as long as there is room for every stream
that ever scored, the event of an entity that had no record since the last report
is the one a report would have now. A record either logs a sample of the entity or
leaves its streams, their order and its drift alone (`ProcessLeaves`), and room
once lost is not regained (`RoomWasThere`). With room what is fused of an entity
depends on these alone (`FusedWithRoom`), so its risks are the same in the same
order, if at other places among all, and the same one speaks for it
(`SameSpeaker`).

The same module is about the `Providers` that show the queue: `AnswersAsAsked`,
`AnswersStayCautious` and `EndpointsStayInAgreement` hold for every set of
reports whose incidents are ordered as `QueueStaysConsistent` says
(`ReportAssumption`) and any number of restarts. `ProviderInv` is the invariant:
the provider is one that `make_provider` builds, so that its queue is sound
(`BuiltIsSound`); an id that a console loaded from this process is in the queue,
and one that it loaded from any demo is in every demo's (`LoadedIsKnown`); an
answer is about what its request names, if the queue has that; a frame shows the
head. Of the answers in a report nothing is assumed. Without the second part an
incident loaded *after* the answer would break the property. `DemoQueue` sorts the three scenes, `RiskIsTheMost` and
`TwinIsClosed` are what the topology view rests on.

**FeatureEngineProofs** proves `CusumWindowed`, `FlapsCounted`, `TalkersTrue` and
`RampEtaLate` for every window, cap, sketch size, hash, fading factor and
threshold, any values and any interleaving of streams. `IInv` says in terms of
what each computer was given what its state is:
* `CusumInv`: the two sums are the greatest and the least sum over any run of the
  samples since the last alarm, the empty one included (`PeakIs`, `TroughIs`),
  which is what clipping at zero keeps;
* `FlapInv`: the ring holds every flap of the window of the latest time, up to the
  cap, and in order nothing else;
* `TalkersInv`: in each row of the sketch the column of a key counts at least
  what was sent of it, so the least of them does;
* `EtaInv`: on a steady climb the slope is the step and the level lags it by no
  more than a fading mean can (`Climbing`), from which the lateness of the ETA is
  a division.

**CopilotProofs** proves `BestReachTheBackend`, `AnswersAreGrounded` and
`FallbacksAreCautious` for every corpus, query, incident and model. What may not
stand before another in a ranking is not kept when it is cut
(`CutKeepsTheBest`), and a chunk that is better in both rankings has the greater
sum of reciprocals, at the edge of the pool, too (`BetterIsRetrieved`). `IInv`
says what the gate is handed: what was retrieved is grounded in the request
(`GroundedInIncident`: or in the incident alone, for the last resort), and what
comes from the template keeps to the analytics (`Offered`). `GateKeepsInv` is
the step that removes what the model invented.

**NumberLemmas** holds what both need of numbers. No prover here instantiates an
induction schema, so induction is over sets: `Climb` (a set with 0 and with the
successor of each of its members below n has all up to n) follows from
`LeastNat`, and with it `Folding`: a function defined by recursion on a number
is the one that starts and steps as its definition says. Every fold of the
model (`Total`, `AfterRecord`, `Fresh`, the merges of the calibrator, the balls
of the blast radius) is reasoned about by that.

**TelemetryProofs** proves `AckAfterPublish`, `VectorsKeepTheirDistance` and
`NothingGivenUpForNothing` for every set of messages and any number of crashes,
lost replies and lost deliveries. Each needs what `run()` knows between its
awaits. `InHand`: the message awaiting its ack has been folded and its vector
is published or was withheld, so an ack settles nothing else. `EmitsInTime`:
`lastEmit` has kept up with whatever the live engine emitted, and the vector in
hand is an interval later than all of it; a crash starts a new engine, to which
the old vectors do not count. `LossesAccounted`: a record never folded was missed
as often as it was delivered, but for the delivery still in the queue, and what it
missed are the losses of a reader and its own strays; at max-deliver all of its
deliveries are accounted for.

It also proves `LabRestored` and `LabelsBoundImpairment` of the fault drivers, for
every number of cycles, bursts and calls and commands of any duration.
`ProgramsRestore` is about the four programs: each ends with a command that
takes its impairment back, and up to the i-th command the driver has slept
`Slept(s, tool, i)`, in all no longer than its label holds. `OnTime` then says
how far the driver at work is: the commands left are those after the i-th, and
the time is that of its label, plus what it slept, plus what commands took.
`Accounted` is what restores the lab: whatever is impaired and not given up
belongs to a live driver that still has its last command to go. `LabelledFirst`
covers the drivers that `run_all` has not reached. That `NoLabel` is no label is
assumed of that constant.

Of the generator it proves `HealthyStreamsStayHealthyHolds`, for every duration,
hour, load and choice of scenarios. Each injector adds nothing before its onset
and nothing but its residue of noise after its clearance (`Adds`, one lemma per
injector); a baseline samples within its limits (`Sound`), so that the clamp of
`_value` cannot make up a difference, and a stream that differs is touched by a
scenario (`ValueIs`; that two residues never add up is because no metric has
both). For the log the lemmas bound what the metrics behind it do by themselves
(`LossStaysLow`, `UpdatesStayLow`, `RekeyingStaysSlow`, `QuietWithout`): below its
thresholds at any hour, for draws within 16 sigma. `GenInv` then only has to say
that what the last tick logged is explained by a scenario that has not cleared.

**OperatorProofs** proves `OneProviderForAll` and `EveryTickIsFresh` for any
number of requests. `HoldsObject` says what each label of `get_provider` knows:
between the release and the last read there is a provider unless somebody
reset it, and without an install whoever has an object has the current one, so
a thread that finds none under the lock knows that nobody has one. `SentByObject`
bounds every frame by its object's tick, so that the next frame is new on every
stream of the object.

Of the console it proves `CardShowsOneFault` and `ChatStays`. The
invariant (`ConsoleInv`) is that the selection is in the queue and that every call but a chat
question is about an incident. An answer about the selected incident then
matches nothing but it (`OwnMatch`), the queue holding one incident per fault;
without that hypothesis the first incident of the fault takes the selection.

The bounds on faults, losses, administration and frames are guards with
constants in the specifications; the proofs use them nowhere beyond their being
numbers, so that they hold for bounds of any size.

### Assumptions
The proofs use nothing of the constants but the named assumptions of the
modules, which TLC evaluates in every run. What they say of the code:
* Limits are numbers, positive where the code divides or where zero would switch
  the component off; thresholds are in the order of the defaults
  (`ThresholdAssumption`). `FloorAssumption`: a tick that alerts belongs on the
  timeline; the two defaults are 0.30 (`orchestrator.py:107`) and 0.20 (`:201`).
* `DecayAssumption`, `BreadthAssumption`: of an exponential, its range and order,
  and for decay that it composes.
* `RecordAssumption`, `BatchAssumption`: scores are numbers and a detector gives
  one for a sample, which is how `_process_telemetry` and `_batch_enrich` call
  them. `FamilyAssumption`: positive priors, and at most four detectors in a
  family, for which the weights of the model are whole numbers; the pipeline
  wires three at most (`orchestrator.py:289`, `:322`).
* `LabelAssumption`: precursor, fault and end in this order
  (`contracts/scenario.py:106-118` validates it), one label for each scenario, as
  tagging is by scenario.
* `NodeAssumption`, `DistanceAssumption`: an entity is on a node or on none, hops
  count the same both ways (`correlate.py` asks the undirected view).
  `TwinAssumption`: edges lead from node to node and criticality is a share.
* `SampleAssumption`: the calibrator has sorted its samples, and their outcomes
  are 0 or 1. `CurveAssumption`: a sigmoid of a line rises or falls throughout.
  `RankingAssumption`: confidences and scores are shares, roots are
  devices.
* `ReportAssumption`: what the pipeline reports, ordered by severity, as `Ranking`
  proves of `prioritize_incidents`; devices are those of the twin, as all
  telemetry is of the reference topology; a step that is more than a read needs
  an approval, as in the playbooks of the repository. `NullAssumption`: `None` is no id.
* `EngineAssumption`: `None` is no number, values are numbers and a threshold is
  known for every metric that has an ETA.
* `CorpusAssumption`, `ContextAssumption`, `ActionAssumption`,
  `ValueAssumption`: the types the contracts validate, and two facts of the
  repository's data: its playbooks gate what changes state, and an incident
  whose root is at risk has an issue.
* `Realistic` is a hypothesis of `HealthyStreamsStayHealthyHolds` alone: draws
  within 16 sigma, which NumPy's normal draws in double precision do not leave
  (at 17 sigma the healthy rekeying of a tunnel would be logged); runs of a
  second or more, sampled at least once a minute (the default is 10 s): with
  longer steps the onset window of the drift, one step to either side, would
  outlast the scenario. `ConfigAssumption` has the types of `GeneratorConfig`.

### Only model-checked
* All liveness: fairness and ENABLED are out of the prover's reach.
* `EtaIsConsensus`: the median of slopes is made with a sort, of which the prover
  knows nothing.
* `TwinAsDocumented`: the contents of two tables. What holds of every twin is
  `BlastsReachThrough`.
* `SnapshotIsReplay`: a reading is compared with a sum over the whole stream, a
  power of the fading factor to each sample; that a recurrence computes such a
  sum is induction over data.

## 5. Divergences met while modelling

Those with a violating run are in `PROJECT.json` under findings. Others, by
part of the system:

**Streaming**
* `alerts.py:197-199`: emitting never double-fires. The store expires by the
  candidate's own timestamp (`:163`); a candidate later than the horizon finds
  its key gone and fires again. `NoDoubleFire` is stated within the horizon.
* `sources.py:251-253`: `run()` returns, or raises, without unsubscribing. Until
  the connection is closed the broker delivers into a queue that nobody reads, so a
  message can use up `--max-deliver` after a reader was lost once.
  `GivenUpHasCause` counts such deliveries (`strays`) beside the losses.
* `telemetry/nats-streams.sh:70-71` calls consumers of FEATURES naturally
  idempotent on (entity_id, timestamp); `engine.py:363` makes a vector per
  record, and the metrics of one poll share both.
* `nats-streams.sh:95-101`: the dedup of ALERTS is the in-memory emitter, which
  a restart between processing and ack empties.
* `nats-streams.sh:48` provisions river-scorer as a pull consumer, `sources.py`
  subscribes as to a push consumer. The model assumes delivery.
* `engine.py:342`: a computer that has nothing to say leaves its last value in
  `latest_features`, so an ETA outlives its climb. `engine.py:336` passes no
  time: slopes and ETAs are per sample, whatever the polling interval. A metric
  that sits still beyond its threshold has no ETA. The triggers of a record
  whose vector is throttled (`:360`) are in no vector.
* The rekey baseline is updated with the deviation it is to detect.

**Risk and twin**
* `risk/suppress.py:11`: "once the penalty decays below reuse_threshold the
  entity is re-enabled". The flag is cleared in `observe` only, by the penalty
  with the new flap in it (`:73`): an entity whose penalty had long decayed, and
  that flaps a few times, is between the thresholds with the old flag, suppressed
  below `suppress_threshold`. `:60` moves `last_update` back for a late call, so
  the interval is decayed twice.
* `risk/prioritize.py:161` demotes in place: ranking twice demotes twice. The order
  is kept (`RankingAgainKeepsOrder`), the severities are not. `:156` reads the severity
  from six digits and `:160` writes four: an incident may show P3 with no confidence.
* `risk/calibrate.py:121`: the default Platt sigmoid falls if outcomes get rarer as
  scores grow, and the queue is then turned round without a warning.
  `DominanceRespected` is stated of calibrators that do not fall.
* `risk/score.py:70`: no ETA counts as urgency 0.05, more than a breach predicted
  20 minutes ahead or later.
* `pipeline/topology_adapter.py:33` says the edges point downstream; `:72`
  directs a link by its declared order, which lists the PE first for every
  uplink, so a failing PE takes the core down, too. `TwinAsDocumented` states what
  must be reached, not what must not.

**Pipeline, correlation, forecasting**
* `orchestrator.py:776`: `assemble()` is "safe to call repeatedly while
  streaming". It writes the batch scores into the snapshots of the top
  `batch_enrich_top_streams`; a stream that is pushed out of them later keeps
  what an interim report gave it, so with more candidates than that a report
  depends on the reports before it. `AssembleIsRepeatable` is stated below it.
* `orchestrator.py:811` ranks for the top K every stream that passes the screen,
  also one whose onset came within `min_history_for_forecast` samples, for which
  `:622` then makes no forecast. It takes the place of a stream that would have had a forecast,
  so an event may lose its ETA to a stream that gets none. `UntouchedEventsStay`
  is stated with room for every stream that ever scored, not for the candidates.
* `orchestrator.py:364, 556` speak of the tick of highest risk; the snapshot is
  taken at the highest score of a single detector (`:560`).
* `orchestrator.py:654` "FULL stream history": the deque holds the last
  `history_len` samples. For a rising metric that is never negative the z branch
  adds nothing: half a threshold away from the median upwards is at or above
  half the threshold.
* `orchestrator.py:527`: nothing clears `_latest_drift`; a drift that fired once
  corroborates the entity's streams for ever.
* `orchestrator.py:1072` compares nodes of entities that may be on none: all
  entities that map to no node count as one device.
* `orchestrator.py:1110-1134` (`_issue_seen_for_target`, `_methods_for_target`)
  take a horizon and ignore it, where the docstring says in-window.
* `orchestrator.py:273`: an explicit `forecast_downsample=1` is overridden in
  the fast profile. `:718` thins with `[::2]`, which may drop the newest sample
  while the ETA counts from it.
* `forecasting/tti.py:143`: a bound that does not cross leaves its end of the
  interval alone; the interval may have no width, or exclude the ETA, with full
  confidence, where `:89` says "wide band => needs review".
* `forecasting/ensemble.py:264`: the backtest refits each member's class without
  its damping or seasonality.
* `correlation/rca.py:175` promises "neutral 0.5" where no causality can be
  measured; `_minmax_norm` makes equal scores 1.0, so the neutral case earns the
  rationale "strong causal influence (Granger)" (`:349`).
* `correlation/correlate.py:292` says pre-dedup view; the group holds the
  deduplicated events.
* The issue of an incident is the majority's, its risk and time to impact are
  the root's, and the two need not be of one event.

**Copilot**
* `copilot/llm/llama_cpp_client.py:237`: an abstaining model's answer keeps the
  full confidence; `:212` the model's scope replaces the deterministic one;
  `:188` `requires_approval` is whatever the model said. The contracts
  (`contracts/copilot.py:94-95, 114, 178-179`) promise otherwise.
* Thin evidence abstains in the template only: a model may cite a graph fact and
  answer over the decision to abstain. And retrieval names every chunk there is
  (`rag/retrieve.py:161`), so that decision depends on nothing but whether there
  is a corpus.
* `rag/retrieve.py:203` says the metadata filter applies before ranking; it
  applies after the pool was cut, so a filtered search may come back short.
* `pipeline/orchestrator.py:1036`: the pipeline's last-resort answer never
  abstains and passes no citation gate. The pipeline's answer takes the issue
  of the root's risk, the card and the last resort name the dominant issue.

**API and console**
* `api/deps.py:37`: `get_provider` returns None when `reset_provider` comes
  between its check and its last read, which its docstring rules out.
* Risk streams share the provider's tick counter, so with k consoles the ETA
  each sees counts down k times as fast.
* `api/providers.py:1391`: a question put in words is answered from the
  incident, with enough context, where the pipeline's copilot had abstained; a
  stored answer is served as it is, a model's changes without an approval
  included (`:1395`), and may name another issue than the incident it is shown
  with. An id of an earlier live process is unknown (`:1324`), and the headline
  is answered in its place. `:942` the demo's risk curve is one climb for every
  entity, seeded with `hash()`.
* `ui/app.js:484` soft-syncs to the first incident with the answer's predicted
  issue, which need not be the incident the answer is about.

**Data generation and lab**
* `datagen/scenarios.py`: the diurnal curve peaks at 21:00, not at the
  `peak_hour` of 15; ramps have a fixed length however short the run is; the
  jitter noise of A stays after its clearance; between 20 and 22 h of a weekday
  A's target breaches before its labelled fault.
* `datagen/synthetic.py:572`: a drift onset is "a single tick"; it is up to three.
  `:182`: slots are distinct "so labels don't collide"; the windows overlap.
  `:520`: `src_addr` is made with `hash()`, which differs between processes.
* `sim/faults/_labels.py:6-7`: the label bounds the impairment also when a driver
  is interrupted. An interrupted driver, or a clear that failed, leaves the
  impairment beyond the label's end. Drivers impair from the start of the
  precursor. The labels of `run_all` overlap. The `napalm` and `exabgp` tools
  label faults they do not inject, and `ContainerlabSource.labels()` is empty.

## 6. Further hazards

`PROJECT.json` lists the forty that matter most. Also covered by properties:
timestamps that go backwards in `dedupe` (`alerts.py:257`, `OnceSpec`); a cold
engine behind a durable cursor (`engine.py:283`, `AckedIsPublished`); counters
that restart (`features.py:519`, `SnapshotIsReplay`); a full flap ring
(`features.py:595`, `FlapCountHolds`); the merging scan of the calibrator
(`calibrate.py:168`, `DominanceRespected`); a model call that fails half way
(`llama_cpp_client.py:137`, `AnswerIsGrounded`); a timeline silently replaced by
another entity's (`providers.py:1240`, `EndpointsAgree`); ties in the top K
(`orchestrator.py:811`, `AssembleIsRepeatable`); a tunnel report that meets the
stream cap half way (`orchestrator.py:510`, `AssembleIsRepeatable`); overlapping
scenarios (`synthetic.py:342`, `HealthyStreamsStayHealthy`); docker commands
that fail unnoticed (`b_bgp_flap.py:69`, `LabIsRestored`). Covered by none:
consumers of FEATURES and ALERTS, which are not in the repository
(`nats-streams.sh:70, :95`); the triggers lost to throttling (`engine.py:360`);
a stream pushed out of the batch pass (`orchestrator.py:903`); the newest sample
lost to thinning (`orchestrator.py:718`); slopes and ETAs per sample instead of
per second (`engine.py:336`); the provider read after the lock and a reset
(`deps.py:37`); bounds that do not cross (`tti.py:143`): these are true of the
code, see section 5.

## 7. Not modelled

* Numerical models: the forecasters, the batch and river detectors, sketches of
  quantiles, SHAP attribution, embeddings, calibration of single detectors.
  Floating point over real series, with no control worth a model; where they feed
  something modelled they are constants or free choices.
* Explanation and all wording: nothing reads it back.
* Computers and detectors that no registry wires, the synchronous drivers of the
  engine, `routing_event_to_records`.
* Enriching signals, retained flows and `methods_fired` in the pipeline's report.
* When the generated data first crosses a threshold: normal draws decide, at a high
  load also before the labelled fault, and the code sets no bound on them.
* Contracts: data types without behaviour.
* Collectors, dashboards, the lab's device configuration, install, licence and
  security scripts: configuration of third-party programs and input/output.

What could come next: a proof of `EtaIsConsensus`, which needs the median of the
slopes told by its rank instead of by a sort; a
composition of `Providers` with `OperatorConsole`, in which a restart meets
replies under way.
