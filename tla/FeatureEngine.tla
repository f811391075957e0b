---------------------------- MODULE FeatureEngine ----------------------------
(***************************************************************************)
(* The FeatureEngine of netra/streaming/engine.py over the computers of    *)
(* Features, and a caller of the computers that the default registry does  *)
(* not wire (flap count, top talkers, CUSUM).                              *)
(*                                                                         *)
(* process() hands a computer the value alone, never the time of the       *)
(* record, and keeps in latest_features what a computer last had to say.   *)
(* The river detectors and the Half-Space-Trees score may come out in any  *)
(* way.                                                                    *)
(***************************************************************************)
EXTENDS Features

CONSTANTS
    Entities, Metrics, Values,
    Times,          \* of records
    FlapTimes,      \* of flaps
    Thresholds,     \* the SLA threshold of every metric with a time-to-threshold
    MinEmit,        \* min_emit_interval_seconds, or None
    Scores,         \* Half-Space-Trees scores; empty: not enabled
    Anomalous,      \* the score from which they vote
    Flows, Hashes,  \* flow keys, and the hash pairs a process may give them
    Deviations,     \* standardised deviations that reach the CUSUM
    MaxRecords,     \* bound: records of several streams together
    MaxStream,      \* bound: records of a single one
    MaxCalls        \* bound: calls of a computer used on its own

VARIABLES
    states,   \* _states: [computers, latest, samples, lastEmit] of the entities seen
    vector,   \* the vector process() returned last, or None
    history,  \* ghost: the values of each stream, in order of processing
    tool,     \* the computer used on its own: [kind, state, hash]
    calls     \* ghost: what it was given (see the actions)

engineVars == <<states, vector, history>>
toolVars   == <<tool, calls>>
vars       == <<states, vector, history, tool, calls>>
-------------------------------------------------------------------------------
(* default_registry: the computers of a metric, and its detectors.  The     *)
(* tunnel's loss and jitter are wired like the interface's.                 *)
Registry ==
    [util |-> {"slope", "eta"}, latency |-> {"drift", "eta"}, jitter |-> {"trend"},
     loss |-> {"progression", "eta"}, errors |-> {"acceleration"}, rekey |-> {"rekey"}]

Detectors ==
    [util |-> {"page_hinkley"}, latency |-> {"page_hinkley"}, jitter |-> {"adwin"},
     loss |-> {"page_hinkley"}, errors |-> {}, rekey |-> {}]

ASSUME EngineAssumption ==
    /\ None \notin Int
    /\ \A S \in SUBSET Flows : S # None
    /\ Values \cup Deviations \subseteq Int /\ FlapTimes \subseteq Nat
    /\ Metrics \subseteq DOMAIN Registry
    /\ DOMAIN Thresholds = {m \in DOMAIN Registry : "eta" \in Registry[m]}
    /\ \A m \in DOMAIN Thresholds : Thresholds[m] \in Int
    /\ \A hash \in Hashes, key \in Flows : hash[key] \in Nat \X Nat

Fresh ==
    [slope |-> NoSlope, eta |-> [slope |-> NoSlope, level |-> None, eta |-> None],
     drift |-> [fast |-> None, sum |-> 0, n |-> 0], trend |-> [mean |-> None, squares |-> None],
     progression |-> [level |-> None, streak |-> 0],
     acceleration |-> [count |-> None, ts |-> None, rate |-> None, accel |-> None],
     rekey |-> [n |-> 0, sum |-> 0, squares |-> 0, score |-> None]]

(* computer.update(value): no time is passed on.                            *)
Updated(class, metric, c, x) ==
    CASE class = "slope"        -> SlopeUpdate(c, x, None)
      [] class = "eta"          -> EtaUpdate(c, x, None, Thresholds[metric])
      [] class = "drift"        -> DriftUpdate(c, x)
      [] class = "trend"        -> TrendUpdate(c, x)
      [] class = "progression"  -> ProgressionUpdate(c, x)
      [] class = "acceleration" -> AccelerationUpdate(c, x, None)
      [] class = "rekey"        -> RekeyUpdate(c, x)

(* What update returned, and what _read_aux finds besides.                  *)
Readings(class, c) ==
    CASE class = "slope"        -> [value |-> c.slope]
      [] class = "eta"          -> [value |-> c.eta, level |-> c.level]
      [] class = "drift"        -> [value |-> c.fast - c.sum \div c.n, level |-> c.fast]
      [] class = "trend"        -> [value |-> c.squares - c.mean * c.mean]
      [] class = "progression"  -> [value |-> c.level]
      [] class = "acceleration" -> [value |-> c.accel, rate |-> c.rate]
      [] class = "rekey"        -> [value |-> c.score]

(* Mutant: a computer is found by its metric alone, whatever the entity.    *)
StateOfAnyEntity(e) ==
    IF DOMAIN states = {} THEN [computers |-> <<>>, latest |-> <<>>, samples |-> 0, lastEmit |-> None]
    ELSE states[CHOOSE d \in DOMAIN states : TRUE]

(* _get_state.                                                              *)
StateOf(e) ==
    IF e \in DOMAIN states THEN states[e]
    ELSE [computers |-> <<>>, latest |-> <<>>, samples |-> 0, lastEmit |-> None]

(* The computers of the metric after the sample; the others as they were.   *)
Folded(computers, metric, x) ==
    [class \in Registry[metric] |->
        Updated(class, metric,
                IF <<metric, class>> \in DOMAIN computers THEN computers[<<metric, class>>]
                ELSE Fresh[class], x)] 

(* Readings overwrite the snapshot; a computer that says nothing leaves what *)
(* it said before.                                                          *)
Surfaced(latest, metric, folded) ==
    LET said(class) == {r \in DOMAIN Readings(class, folded[class]) : Readings(class, folded[class])[r] # None}
        new == UNION {{<<metric, class, r>> : r \in said(class)} : class \in Registry[metric]}
    IN [f \in DOMAIN latest \cup new |->
            IF f \in new THEN Readings(f[2], folded[f[2]])[f[3]] ELSE latest[f]]

Throttled(st, ts) ==
    MinEmit # None /\ st.lastEmit # None /\ ts - st.lastEmit < MinEmit

(* The Half-Space-Trees score goes into the snapshot it was computed from.  *)
ScoreOptions(latest) == IF Scores = {} \/ latest = <<>> THEN {None} ELSE Scores

Process(e, metric, x, ts, fired, score) ==
    LET st        == StateOf(e)
        folded    == Folded(st.computers, metric, x)
        surfaced  == Surfaced(st.latest, metric, folded)
        latest    == IF score = None THEN surfaced
                     ELSE [f \in DOMAIN surfaced \cup {<<"hst_score">>} |->
                              IF f = <<"hst_score">> THEN score ELSE surfaced[f]]
        computers == [k \in DOMAIN st.computers \cup {<<metric, class>> : class \in Registry[metric]} |->
                         IF k[1] = metric THEN folded[k[2]] ELSE st.computers[k]]
        triggered == {<<d, metric>> : d \in fired}
                        \cup (IF score # None /\ score >= Anomalous THEN {<<"half_space_trees", e>>} ELSE {})
        silent    == Throttled(st, ts)
    IN /\ score \in ScoreOptions(surfaced)
       /\ states' = [d \in DOMAIN states \cup {e} |->
             IF d # e THEN states[d]
             ELSE [computers |-> computers, latest |-> latest, samples |-> st.samples + 1,
                   lastEmit |-> IF silent THEN st.lastEmit ELSE ts]]
       /\ vector' = IF silent THEN None
                    ELSE [entity |-> e, ts |-> ts, features |-> latest, triggered |-> triggered,
                          samples |-> st.samples + 1]
       /\ history' = [history EXCEPT ![e][metric] = Append(@, x)]

Handled == SumFunction([e \in DOMAIN states |-> states[e].samples])

(* FeatureEngine.run hands over whatever record comes next; a stream that   *)
(* is alone may go on for longer.                                           *)
Run ==
    \E e \in Entities, metric \in Metrics, x \in Values, ts \in Times, score \in Scores \cup {None} :
        /\ Handled < (IF Handled = Len(history[e][metric]) THEN MaxStream ELSE MaxRecords)
        /\ \E fired \in SUBSET Detectors[metric] : Process(e, metric, x, ts, fired, score)

EngineInit ==
    /\ states = << >>
    /\ vector = None
    /\ history = [e \in Entities |-> [m \in Metrics |-> <<>>]]
-------------------------------------------------------------------------------
(* The computers on their own.  calls keeps of a flap counter its flaps,    *)
(* the latest time it was told and whether times ever went back; of the     *)
(* talkers what was really sent in this window, the sets that could be its  *)
(* top and those of the window before; of a CUSUM what counted since it last *)
(* fired, up to the present sample and after it.                            *)
Use(kind) == tool.kind = kind /\ calls.n < MaxCalls /\ UNCHANGED engineVars

Told(now, flaps) ==
    calls' = [n |-> calls.n + 1, flaps |-> calls.flaps \o flaps, clock |-> Max({calls.clock, now}),
              ordered |-> calls.ordered /\ now >= calls.clock]

RegisterFlap ==
    /\ Use("flap")
    /\ \E now \in FlapTimes : tool' = [tool EXCEPT !.state = Flap(@, now)] /\ Told(now, <<now>>)

UpdateFlaps ==
    /\ Use("flap")
    /\ \E now \in FlapTimes, n \in {0, 2} :
          tool' = [tool EXCEPT !.state = FlapUpdate(@, n, now)] /\ Told(now, [i \in 1..n |-> now])

CountFlaps ==
    /\ Use("flap")
    /\ \E now \in FlapTimes : tool' = [tool EXCEPT !.state = Evict(@, now)] /\ Told(now, <<>>)

Send ==
    /\ Use("talkers")
    /\ \E key \in Flows, weight \in {1, 2} :
          /\ tool' = [tool EXCEPT !.state = AddFlow(@, tool.hash, key, weight)]
          /\ calls' = [calls EXCEPT !.n = @ + 1, !.sent[key] = @ + weight]

Sent(key)      == calls.sent[key]
Estimated(key) == Estimate(tool.state.rows, tool.hash, key)

Snapshot ==
    /\ Use("talkers")
    /\ tool.state.seen # {}
    /\ \E top \in Tops([key \in tool.state.seen |-> Estimated(key)]) :
          tool' = [tool EXCEPT !.state = CloseWindow(@, top)]
    /\ calls' = [n |-> calls.n + 1, sent |-> [key \in Flows |-> 0], before |-> calls.now,
                 now |-> Tops([key \in {k \in Flows : Sent(k) > 0} |-> Sent(key)]),
                 exact |-> /\ calls.exact
                           /\ \A key \in Flows : Estimated(key) = Sent(key)
                           /\ tool.state.seen = {key \in Flows : Sent(key) > 0}]

Observe ==
    /\ Use("cusum")
    /\ \E z \in Deviations \cup {None} :
          LET ignored == z = None \/ tool.state.n < CusumWarmup
              run     == IF ignored THEN calls.run ELSE Append(calls.run, z)
          IN /\ tool' = [tool EXCEPT !.state = CusumUpdate(@, z)]
             /\ calls' = [n |-> calls.n + 1, last |-> IF ignored THEN <<>> ELSE run,
                          run |-> IF tool'.state.fired THEN <<>> ELSE run]

ToolInit ==
    \/ /\ tool = [kind |-> "flap", state |-> <<>>, hash |-> None]
       /\ calls = [n |-> 0, flaps |-> <<>>, clock |-> 0, ordered |-> TRUE]
    \/ /\ \E hash \in Hashes : tool = [kind |-> "talkers", state |-> NoTalkers, hash |-> hash]
       /\ calls = [n |-> 0, sent |-> [key \in Flows |-> 0], before |-> {}, now |-> {}, exact |-> TRUE]
    \/ /\ tool = [kind |-> "cusum", state |-> NoCusum, hash |-> None]
       /\ calls = [n |-> 0, last |-> <<>>, run |-> <<>>]

Init == EngineInit /\ ToolInit

(* The engine and a computer on its own share nothing, so a behaviour runs  *)
(* one of them.                                                             *)
Next ==
    \/ /\ calls.n = 0
       /\ tool.kind = "cusum"
       /\ Run
       /\ UNCHANGED toolVars
    \/ /\ states = << >>
       /\ \/ RegisterFlap \/ UpdateFlaps \/ CountFlaps
          \/ Send \/ Snapshot
          \/ Observe

Spec == Init /\ [][Next]_vars
-------------------------------------------------------------------------------
(* The fading mean in closed form: the weight of every sample.              *)
Weighted(s) ==
    LET n == Len(s)
        weight(i) == IF i = 1 THEN (FadeDen - 1)^(n - 1) ELSE FadeDen^(i - 2) * (FadeDen - 1)^(n - i)
    IN SumFunction([i \in 1..n |-> weight(i) * s[i]]) \div FadeDen^(n - 1)

Differences(s) == [i \in 1..(Len(s) - 1) |-> s[i + 1] - s[i]]
Increases(s)   == [i \in 1..(Len(s) - 1) |-> IF s[i + 1] > s[i] THEN s[i + 1] - s[i] ELSE 0]
Rates(s)       == [i \in 1..(Len(s) - 1) |-> Weighted(SubSeq(Increases(s), 1, i))]

(* What a feature has to be, given the samples of its own stream alone.     *)
Reference(f, s) ==
    CASE f[2] = "slope"                              -> Weighted(Differences(s))
      [] f[3] = "level" \/ f[2] = "progression"      -> Weighted(s)
      [] f[2] = "drift" /\ f[3] = "value"            -> Weighted(s) - SumFunction(s) \div Len(s)
      [] f[2] = "trend"                              -> Weighted([i \in DOMAIN s |-> s[i] * s[i]]) - Weighted(s) * Weighted(s)
      [] f[2] = "acceleration" /\ f[3] = "rate"      -> Weighted(Increases(s))
      [] f[2] = "acceleration" /\ f[3] = "value"     -> Weighted(Differences(Rates(s)))

(* Features of a stream of n samples that have to be there.                 *)
Due(metric, n) ==
    CASE n = 0 -> {}
      [] n > 0 /\ metric = "util"    -> {<<"util", "eta", "level">>} \cup (IF n > 1 THEN {<<"util", "slope", "value">>} ELSE {})
      [] n > 0 /\ metric = "latency" -> {<<"latency", "drift", "value">>, <<"latency", "drift", "level">>, <<"latency", "eta", "level">>}
      [] n > 0 /\ metric = "jitter"  -> {<<"jitter", "trend", "value">>}
      [] n > 0 /\ metric = "loss"    -> {<<"loss", "progression", "value">>, <<"loss", "eta", "level">>}
      [] n > 0 /\ metric = "errors"  -> (IF n > 1 THEN {<<"errors", "acceleration", "rate">>} ELSE {})
                                           \cup (IF n > 2 THEN {<<"errors", "acceleration", "value">>} ELSE {})
      [] n > 0 /\ metric = "rekey"   -> {}

(* However records of entities and metrics interleave, and whether their    *)
(* vectors were emitted or throttled away, the snapshot of an entity is for *)
(* every one of its streams the weighted mean, drift, variance, rate and    *)
(* acceleration of exactly that stream's samples, in which a counter that   *)
(* restarts grows by nothing (process, _get_state).                         *)
SnapshotIsReplay ==
    /\ \A e \in DOMAIN states :
          \A metric \in Metrics : \A f \in Due(metric, Len(history[e][metric])) :
             /\ f \in DOMAIN states[e].latest
             /\ states[e].latest[f] = Reference(f, history[e][metric])
    /\ vector # None => /\ vector.features = states[vector.entity].latest
                        /\ vector.samples = SumFunction([m \in Metrics |-> Len(history[vector.entity][m])])

(* On a steady climb the time to threshold is never early, and late by less *)
(* than the fading mean lags: 1/fading_factor - 1 samples, which it counts  *)
(* as seconds whatever the interval (TimeToThreshold, process).             *)
RampEtaIsLate ==
    \A e \in DOMAIN states, metric \in DOMAIN Thresholds \cap Metrics :
        LET s    == history[e][metric]
            step == s[2] - s[1]
            away == (Thresholds[metric] - s[Len(s)]) * EtaUnit  \* step times the true ETA
            eta  == states[e].latest[<<metric, "eta", "value">>]
        IN (Len(s) >= 2 /\ step > 0 /\ \A i \in 2..Len(s) : s[i] - s[i - 1] = step) =>
              /\ (eta + 1) * step > Min({away, MaxEta * step})
              /\ eta * step <= Max({0, away + (FadeDen - 1) * step * EtaUnit})

(* No flap of the window of the latest time is forgotten but to the cap of  *)
(* the ring, whatever order times come in; and in order, none outside of it *)
(* is counted (AdjacencyFlapCount).                                         *)
FlapCountHolds ==
    tool.kind = "flap" =>
        LET n    == Len(calls.flaps)
            kept == {i \in 1..n : i > n - FlapCap /\ calls.flaps[i] >= calls.clock - FlapWindow}
        IN /\ Len(tool.state) >= Cardinality(kept)
           /\ calls.ordered => Len(tool.state) = Cardinality(kept)

(* The sketch never counts less than was sent, and where it counts exactly  *)
(* the churn is the one between the sets that really were the top talkers   *)
(* of this window and the last one with any (TopTalkerChurn).               *)
TalkersAreTrue ==
    tool.kind = "talkers" =>
        /\ \A key \in Flows : Estimated(key) >= Sent(key)
        /\ calls.exact /\ calls.before # {} =>
              tool.state.churn \in {Churn(a, b) : a \in calls.now, b \in calls.before}

SuffixSum(s, i, slack) ==
    LET sum[k \in (i - 1)..Len(s)] == IF k = i - 1 THEN 0 ELSE sum[k - 1] + s[k] + slack
    IN sum[Len(s)]

(* The CUSUM fires exactly when some run of samples up to the present one,  *)
(* none of them before the last alarm, has left its mean by more than the   *)
(* limit beyond the slack of every sample (CUSUM.update).                   *)
CusumIsWindowed ==
    tool.kind = "cusum" /\ calls.last # <<>> =>
        (tool.state.fired <=>
            \E i \in 1..Len(calls.last) :
                \/ SuffixSum(calls.last, i, -CusumSlack) > CusumLimit
                \/ SuffixSum(calls.last, i, CusumSlack) < -CusumLimit)
===============================================================================
