---------------------------- MODULE FlapSuppressor ----------------------------
(***************************************************************************)
(* Flap damping of netra/analytics/risk/suppress.py: a penalty per entity  *)
(* that grows with every flap, decays with time, and drives a hysteresis   *)
(* between suppressed and reusable.                                        *)
(*                                                                         *)
(* Penalties are integers in units of 1/Scale; Decay(p, dt) is what        *)
(* remains of p after dt time units.  The caller passes "now", and nothing *)
(* makes it pass times in order; MaxLag bounds how far one may lag behind  *)
(* the newest.                                                             *)
(***************************************************************************)
EXTENDS Integers

CONSTANTS
    Entities,
    Increment,          \* penalty_increment
    SuppressThreshold,  \* suppress_threshold
    ReuseThreshold,     \* reuse_threshold
    MaxPenalty,         \* max_penalty
    DemoteFloor,        \* demote_floor, in thousandths
    Decay(_, _),        \* p * 0.5 ** (dt / half_life_seconds)
    MaxFlaps,           \* bound: flaps registered by one call
    MaxTime,            \* bound: times are 0..MaxTime
    MaxLag,             \* how far a call's time may lag behind the newest
    None                \* Python's None

ASSUME ThresholdAssumption ==
    /\ Increment \in Nat \ {0}
    /\ ReuseThreshold \in Nat \ {0}
    /\ SuppressThreshold \in Nat
    /\ MaxPenalty \in Nat
    /\ ReuseThreshold < SuppressThreshold
    /\ SuppressThreshold < MaxPenalty
    /\ DemoteFloor \in 0..700
ASSUME BoundAssumption == MaxFlaps \in Nat /\ MaxTime \in Nat /\ MaxLag \in Nat
ASSUME NoneAssumption == None \notin Nat
ASSUME DecayAssumption ==
    \A p \in 0..MaxPenalty : \A dt \in 0..MaxTime :
        /\ Decay(p, dt) \in Nat
        /\ Decay(p, 0) = p
        /\ \A q \in 0..p : \A ds \in 0..dt : Decay(q, dt) <= Decay(p, ds)
        /\ \A ds \in 0..dt : Decay(Decay(p, ds), dt - ds) = Decay(p, dt)

VARIABLES
    known,       \* entity ids that have a _FlapState
    penalty,     \* _FlapState.penalty
    lastUpdate,  \* _FlapState.last_update, or None
    suppressed,  \* _FlapState.suppressed
    now          \* history: the newest time any call has passed

vars == <<known, penalty, lastUpdate, suppressed, now>>
-------------------------------------------------------------------------------
Time == 0..MaxTime

Lesser(a, b) == IF a < b THEN a ELSE b

Fresh(e) == /\ penalty' = [penalty EXCEPT ![e] = 0]
            /\ lastUpdate' = [lastUpdate EXCEPT ![e] = None]
            /\ suppressed' = [suppressed EXCEPT ![e] = FALSE]

Init == /\ known = {}
        /\ penalty = [e \in Entities |-> 0]
        /\ lastUpdate = [e \in Entities |-> None]
        /\ suppressed = [e \in Entities |-> FALSE]
        /\ now = 0

(* Mutant: the elapsed time wraps (timedelta.seconds for total_seconds()),  *)
(* here after two time units.                                               *)
DecayedWrapped(e, t) ==
    IF lastUpdate[e] # None /\ penalty[e] > 0 /\ t > lastUpdate[e]
    THEN Decay(penalty[e], (t - lastUpdate[e]) % 2)
    ELSE penalty[e]

(* What _decay leaves of the stored penalty at time t: a time before the    *)
(* last update leaves it alone.                                             *)
Decayed(e, t) ==
    IF lastUpdate[e] # None /\ penalty[e] > 0 /\ t > lastUpdate[e]
    THEN Decay(penalty[e], t - lastUpdate[e])
    ELSE penalty[e]

(* observe(): decay to t, add the flaps under the cap, move the clock to t  *)
(* (back, too), then the hysteresis: between the thresholds the flag stays. *)
Observe(e, t, flaps) ==
    /\ t >= now - MaxLag
    /\ LET p == Lesser(MaxPenalty, Decayed(e, t) + Increment * flaps)
       IN /\ penalty' = [penalty EXCEPT ![e] = p]
          /\ suppressed' = [suppressed EXCEPT
                               ![e] = p >= SuppressThreshold \/ (p >= ReuseThreshold /\ @)]
    /\ lastUpdate' = [lastUpdate EXCEPT ![e] = t]
    /\ known' = known \cup {e}
    /\ now' = IF t > now THEN t ELSE now

(* penalty_of(): a read, which leaves the state alone.                      *)
PenaltyOf(e, t) == IF e \in known THEN Decayed(e, t) ELSE 0

(* is_suppressed(): the flag counts only while the penalty is in the band.  *)
IsSuppressed(e, t) ==
    /\ e \in known
    /\ \/ suppressed[e] /\ PenaltyOf(e, t) >= ReuseThreshold
       \/ PenaltyOf(e, t) >= SuppressThreshold

(* Mutant: the second piece starts at 1.0 again, not at 0.7.               *)
DemotionAtRestarts(p) ==
    IF p < ReuseThreshold THEN 1000
    ELSE IF p < SuppressThreshold
    THEN 1000 - (300 * (p - ReuseThreshold)) \div (SuppressThreshold - ReuseThreshold)
    ELSE 1000 - ((1000 - DemoteFloor) * (p - SuppressThreshold))
                  \div (MaxPenalty - SuppressThreshold)

(* demotion_factor(), in thousandths: 1.0 when calm, 0.7 at the suppress    *)
(* threshold, demote_floor at the cap, linear between.                      *)
DemotionAt(p) ==
    IF p < ReuseThreshold THEN 1000
    ELSE IF p < SuppressThreshold
    THEN 1000 - (300 * (p - ReuseThreshold)) \div (SuppressThreshold - ReuseThreshold)
    ELSE 700 - ((700 - DemoteFloor) * (p - SuppressThreshold))
                  \div (MaxPenalty - SuppressThreshold)

DemotionFactor(e, t) == DemotionAt(PenaltyOf(e, t))

(* reset(entity_id) and reset().                                            *)
Reset(e) == /\ known' = known \ {e}
            /\ Fresh(e)
            /\ UNCHANGED now

ResetAll == /\ known' = {}
            /\ penalty' = [e \in Entities |-> 0]
            /\ lastUpdate' = [e \in Entities |-> None]
            /\ suppressed' = [e \in Entities |-> FALSE]
            /\ UNCHANGED now

Next == \/ \E e \in Entities, t \in Time, flaps \in 1..MaxFlaps : Observe(e, t, flaps)
        \/ \E e \in Entities : Reset(e)
        \/ ResetAll

Spec == Init /\ [][Next]_vars
-------------------------------------------------------------------------------
TypeOK == /\ known \in SUBSET Entities
          /\ penalty \in [Entities -> 0..MaxPenalty]
          /\ lastUpdate \in [Entities -> Time \cup {None}]
          /\ suppressed \in [Entities -> BOOLEAN]
          /\ now \in Time

(* The flag cannot contradict the penalty it was derived from, whatever     *)
(* the order of times: at or above the suppress threshold it is set, below  *)
(* the reuse threshold it is clear.                                         *)
FlagMatchesBand ==
    \A e \in Entities : /\ penalty[e] >= SuppressThreshold => suppressed[e]
                        /\ penalty[e] < ReuseThreshold => ~suppressed[e]

(* Suppression can only end as time passes: with no new flap, an entity     *)
(* that is not suppressed now is not suppressed later.                      *)
CalmStaysCalm ==
    \A e \in Entities : \A t, u \in Time :
        t <= u /\ IsSuppressed(e, u) => IsSuppressed(e, t)

(* max_penalty "cannot grow unbounded" bounds the outage of an entity, too: *)
(* however hard it flapped, it is reusable once the cap itself would have   *)
(* decayed below the reuse threshold.                                       *)
ReusableInTime ==
    \A e \in Entities : \A t \in Time :
        /\ lastUpdate[e] # None
        /\ t > lastUpdate[e]
        /\ Decay(MaxPenalty, t - lastUpdate[e]) < ReuseThreshold
        => ~IsSuppressed(e, t)

(* "increments on each state change / re-fire": registering a flap never    *)
(* leaves an entity with less penalty, at any later time, than it would     *)
(* have had without the flap.                                               *)
FlapRaisesPenalty(e) ==
    lastUpdate'[e] # lastUpdate[e] /\ lastUpdate'[e] # None =>
        \A u \in Time : u >= now' => PenaltyOf(e, u)' >= PenaltyOf(e, u)

FlapNeverLowersPenalty == [][\A e \in Entities : FlapRaisesPenalty(e)]_vars
===============================================================================
