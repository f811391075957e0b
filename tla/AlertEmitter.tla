----------------------------- MODULE AlertEmitter -----------------------------
(***************************************************************************)
(* The idempotent alert emitter of netra/streaming/alerts.py: the guard    *)
(* that turns precursor triggers into alerts on a stable key and drops     *)
(* every duplicate it still remembers.                                     *)
(*                                                                         *)
(* The emitter has no clock of its own: _expire() takes "now" from the     *)
(* timestamp of whatever candidate is being processed.  Candidates reach   *)
(* it from an at-least-once bus, so their timestamps may lag behind the    *)
(* newest one already processed; MaxLag bounds by how much.                *)
(***************************************************************************)
EXTENDS Integers, Sequences, FiniteSets

CONSTANTS
    Entities,      \* entity ids
    Detectors,     \* detector names ("page_hinkley", "half_space_trees", ...)
    Metrics,       \* the part of a trigger name after the colon
    Window,        \* window_seconds
    DedupWindow,   \* dedup_window_seconds: a number, or None (never expire)
    None,          \* Python's None
    MaxKeys,       \* max_keys
    MaxLag,        \* how far a timestamp may lag behind the newest processed
    MaxTime,       \* bound: timestamps are 0..MaxTime
    MaxBatch,      \* bound: candidates per call
    MaxCandidates  \* bound: candidates per behaviour

ASSUME WindowAssumption == Window \in Nat \ {0}
ASSUME DedupAssumption  == DedupWindow = None \/ DedupWindow \in Nat
ASSUME CapAssumption    == MaxKeys \in Nat
ASSUME BoundAssumption  == /\ MaxLag \in Nat
                           /\ MaxTime \in Nat
                           /\ MaxBatch \in Nat
                           /\ MaxCandidates \in Nat

VARIABLES
    seen,        \* _seen: the OrderedDict, front first, of [key, first]
    out,         \* every Alert returned so far, in order (_emitted_count = Len)
    suppressed,  \* every duplicate dropped so far (_suppressed_count = Len)
    pending,     \* candidates the running call has still to loop over
    newest,      \* history: the greatest timestamp processed so far
    evicted      \* history: the keys the max_keys cap has ever pushed out

vars == <<seen, out, suppressed, pending, newest, evicted>>
-------------------------------------------------------------------------------
Time == 0..MaxTime

(* make_alert_key over _floor_window.  The metric of a trigger is no part   *)
(* of the key, and the scenario is fixed for one emitter's stream.          *)
Key == [entity : Entities, detector : Detectors, window : Nat]

FloorWindow(t) == t \div Window

(* Mutant: a key without its window.                                        *)
MakeAlertKeyForever(e, d, t) == [entity |-> e, detector |-> d, window |-> 0]

MakeAlertKey(e, d, t) == [entity |-> e, detector |-> d, window |-> FloorWindow(t)]

(* A candidate is an identity with the timestamp it carries.                *)
Candidate == [key : Key, ts : Nat]
Candidates == {[key |-> MakeAlertKey(e, d, t), ts |-> t] :
                  e \in Entities, d \in Detectors, t \in Time}

Trigger == [detector : Detectors, metric : Metrics]

Entry == [key : Key, first : Nat]

Keys(s) == {s[i].key : i \in DOMAIN s}

(* The environment's promise: no timestamp is more than MaxLag behind one   *)
(* processed before it.                                                     *)
WithinLag(s) ==
    /\ \A i \in DOMAIN s : s[i].ts >= newest - MaxLag
    /\ \A i, j \in DOMAIN s : i < j => s[j].ts >= s[i].ts - MaxLag

Idle == pending = <<>>
-------------------------------------------------------------------------------
(* Mutant: an entry expires at its horizon, not after it.                   *)
ExpiredAtHorizon(first, now) == /\ DedupWindow # None
                                /\ first <= now - DedupWindow

Expired(first, now) == /\ DedupWindow # None
                       /\ first < now - DedupWindow

(* Mutant: "if" for "while", one entry at most.                             *)
ExpiredOne(n, now) == n = IF seen # <<>> /\ Expired(Head(seen).first, now) THEN 1 ELSE 0

(* _expire pops n entries: the longest expired run at the front.  It stops  *)
(* at the first live entry even when expired ones stand behind it.          *)
ExpiredRun(n, now) ==
    /\ \A i \in 1..n : Expired(seen[i].first, now)
    /\ n < Len(seen) => ~Expired(seen[n + 1].first, now)

(* _remember: put the key last and pop the front down to max_keys.          *)
Excess(s) == IF Len(s) > MaxKeys THEN Len(s) - MaxKeys ELSE 0

(* The body shared by emit() and the loop of dedupe().                      *)
ProcessCandidate(c) ==
    \E n \in 0..Len(seen) :
        /\ ExpiredRun(n, c.ts)
        /\ LET kept  == SubSeq(seen, n + 1, Len(seen))
               added == Append(kept, [key |-> c.key, first |-> c.ts])
               cut   == Excess(added)
           IN IF c.key \in Keys(kept)
              THEN /\ seen' = kept
                   /\ suppressed' = Append(suppressed, c)
                   /\ UNCHANGED <<out, evicted>>
              ELSE /\ seen' = SubSeq(added, cut + 1, Len(added))
                   /\ evicted' = evicted \cup {added[i].key : i \in 1..cut}
                   /\ out' = Append(out, c)
                   /\ UNCHANGED suppressed
        /\ newest' = IF c.ts > newest THEN c.ts ELSE newest
-------------------------------------------------------------------------------
Init == /\ seen = <<>>
        /\ out = <<>>
        /\ suppressed = <<>>
        /\ pending = <<>>
        /\ newest = 0
        /\ evicted = {}

Room(n) == Len(out) + Len(suppressed) + n <= MaxCandidates

(* emit(): one candidate, processed at once.                                *)
Emit(e, d, t) ==
    /\ Idle
    /\ Room(1)
    /\ LET c == [key |-> MakeAlertKey(e, d, t), ts |-> t]
       IN /\ WithinLag(<<c>>)
          /\ ProcessCandidate(c)
    /\ UNCHANGED pending

(* emit_from_feature_vector(): loop emit() over fv.triggered_drift.  Every  *)
(* candidate of the loop carries the vector's one timestamp.                *)
EmitFromFeatureVector(e, t, triggers) ==
    /\ Idle
    /\ Room(Len(triggers))
    /\ LET batch == [i \in 1..Len(triggers) |->
                        [key |-> MakeAlertKey(e, triggers[i].detector, t), ts |-> t]]
       IN /\ WithinLag(batch)
          /\ pending' = batch
    /\ UNCHANGED <<seen, out, suppressed, newest, evicted>>

(* dedupe(): loop over already keyed alerts, whose times are their own.     *)
Dedupe(alerts) ==
    /\ Idle
    /\ Room(Len(alerts))
    /\ WithinLag(alerts)
    /\ pending' = alerts
    /\ UNCHANGED <<seen, out, suppressed, newest, evicted>>

(* One turn of the loop that EmitFromFeatureVector or Dedupe started.       *)
LoopTurn ==
    /\ ~Idle
    /\ ProcessCandidate(Head(pending))
    /\ pending' = Tail(pending)

Next ==
    \/ \E e \in Entities, d \in Detectors, t \in Time : Emit(e, d, t)
    \/ \E n \in 1..MaxBatch, e \in Entities, t \in Time :
          \E triggers \in [1..n -> Trigger] : EmitFromFeatureVector(e, t, triggers)
    \/ \E n \in 1..MaxBatch :
          \E alerts \in [1..n -> Candidates] : Dedupe(alerts)
    \/ LoopTurn

Spec == Init /\ [][Next]_vars
-------------------------------------------------------------------------------
(* Every variable holds a value of its type.                                *)
TypeOK == /\ seen \in Seq(Entry)
          /\ out \in Seq(Candidate)
          /\ suppressed \in Seq(Candidate)
          /\ pending \in Seq(Candidate)
          /\ newest \in Nat
          /\ evicted \in SUBSET Key

(* The store of alerts.py is a dictionary capped by max_keys: no key stands *)
(* in it twice and it never holds more than max_keys, however expiry and    *)
(* eviction interleave.                                                     *)
BoundedDistinct ==
    /\ Len(seen) <= MaxKeys
    /\ \A i, j \in DOMAIN seen : seen[i].key = seen[j].key => i = j

(* When may a redelivery be late and still be recognised?                   *)
LagWithinHorizon == \/ DedupWindow = None
                    \/ MaxLag + Window <= DedupWindow + 1

(* The purpose of AlertEmitter: an alert key fires at most once.  It holds  *)
(* as long as no delivery lags by more than DedupWindow - Window + 1 and    *)
(* the key was not pushed out by the max_keys cap.                          *)
NoDoubleFire ==
    LagWithinHorizon =>
        \A i, j \in DOMAIN out :
            out[i].key = out[j].key /\ i # j => out[i].key \in evicted

(* emit() never swallows a first occurrence: whatever was suppressed shares *)
(* its key with an alert that was returned, at most one window away.        *)
SuppressedHasWitness ==
    \A i \in DOMAIN suppressed :
        \E j \in DOMAIN out :
            /\ out[j].key = suppressed[i].key
            /\ out[j].ts - suppressed[i].ts < Window
            /\ suppressed[i].ts - out[j].ts < Window

(* _expire() pops only from the front, so an expired key can hide behind a  *)
(* fresh one; even so none outlives its dedup window by more than MaxLag.   *)
StalenessBound ==
    DedupWindow # None =>
        \A i \in DOMAIN seen : seen[i].first >= newest - DedupWindow - MaxLag

(* The emitter does what AlertOnce promises, whatever entry point a         *)
(* candidate comes through and whenever keys expire.                        *)
Once == INSTANCE AlertOnce WITH InTime <- LagWithinHorizon, alerts <- out,
                                dropped <- suppressed, forgotten <- evicted
OnceSpec == Once!Spec
===============================================================================
