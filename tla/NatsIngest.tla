------------------------------ MODULE NatsIngest ------------------------------
(***************************************************************************)
(* The live ingest path: NatsTelemetrySource.run() of                      *)
(* netra/streaming/sources.py, which takes telemetry messages from a       *)
(* durable explicit-ack JetStream consumer, folds each one into the        *)
(* FeatureEngine of netra/streaming/engine.py, publishes the FeatureVector *)
(* and only then acks.  The broker side is the river-scorer consumer that  *)
(* telemetry/nats-streams.sh provisions.                                   *)
(*                                                                         *)
(* A message that is not acked is redelivered until max-deliver is used    *)
(* up.  run() can die between any two of its steps: the engine's running   *)
(* state is only in memory, the broker's cursor is not.                    *)
(*                                                                         *)
(* run() never unsubscribes.  When it returns at max_messages, raises or   *)
(* is cancelled, the connection stays open and the durable stays bound to  *)
(* the subscription it leaves behind: the broker goes on delivering into a *)
(* queue that nobody reads, until close() or the end of the process.       *)
(***************************************************************************)
EXTENDS Integers, Sequences, FiniteSets

CONSTANTS
    Msgs,            \* the messages of the TELEMETRY stream
    Good,            \* those that decode to a TelemetryRecord
    NotObject,       \* those that are JSON but no object (a list, a number)
    Entities,        \* the entities records are about
    EntityOf,        \* [Good -> Entities]
    TimeOf,          \* [Good -> Nat]: record.timestamp
    MinEmitInterval, \* min_emit_interval_seconds, or None (no throttling)
    MaxDeliver,      \* --max-deliver of river-scorer
    MaxMessages,     \* max_messages of run(), or None (until cancelled)
    MaxFaults,       \* bound: crashes, cancellations, publish failures, lost acks,
                     \* early timeouts
    None             \* Python's None

ASSUME MsgAssumption == /\ Good \subseteq Msgs
                        /\ NotObject \subseteq Msgs \ Good
ASSUME RecordAssumption == /\ EntityOf \in [Good -> Entities]
                           /\ TimeOf \in [Good -> Nat]
                           /\ None \notin Nat
                           /\ None \notin Msgs
ASSUME LimitAssumption == /\ MinEmitInterval = None \/ MinEmitInterval \in Nat
                          /\ MaxMessages = None \/ MaxMessages \in Nat
                          /\ MaxDeliver \in Nat \ {0}
                          /\ MaxFaults \in Nat

VARIABLES
    delivery,    \* broker: "stored", "outstanding", "acked" or "dead" per message
    deliveries,  \* broker: how often each message was delivered
    connection,  \* self._nc: "fresh", "leftover" (the subscription of an
                 \* earlier run() is still bound on it), or "closed"
    inbox,       \* sub.messages of this run(): delivered, not yet iterated
    pc,          \* run(): "iterate", "publish", "ack", or "stopped"
    cur,         \* run(): msg of the current iteration
    fv,          \* run(): the vector engine.process returned, or None
    processed,   \* run(): messages acked by this call
    engine,      \* which FeatureEngine object is live (0, 1, ...)
    samples,     \* EntityState.sample_count of the live engine
    lastEmit,    \* EntityState.last_emit_ts of the live engine
    published,   \* the FEATURES stream: vectors in publication order
    folds,       \* history: how often each message was folded, over all engines
    throttled,   \* history: messages whose fold was not followed by a vector
    faults,      \* faults so far
    losses,      \* history: times that deliveries may have been lost to run()
    strays       \* history: deliveries of a message that no run() was to read

broker    == <<delivery, deliveries>>
runVars   == <<pc, cur, fv, processed>>
engineMem == <<engine, samples, lastEmit>>
history   == <<published, folds, throttled>>
counts    == <<faults, losses, strays>>
vars == <<broker, connection, inbox, runVars, engineMem, history, counts>>
-------------------------------------------------------------------------------
FreshSamples  == [e \in Entities |-> 0]
FreshLastEmit == [e \in Entities |-> None]

Init == /\ delivery = [m \in Msgs |-> "stored"]
        /\ deliveries = [m \in Msgs |-> 0]
        /\ connection = "fresh"
        /\ inbox = <<>>
        /\ pc = "iterate"
        /\ cur = None
        /\ fv = None
        /\ processed = 0
        /\ engine = 0
        /\ samples = FreshSamples
        /\ lastEmit = FreshLastEmit
        /\ published = <<>>
        /\ folds = [m \in Msgs |-> 0]
        /\ throttled = {}
        /\ faults = 0
        /\ losses = 0
        /\ strays = [m \in Msgs |-> 0]

Held(m) == cur = m \/ \E i \in DOMAIN inbox : inbox[i] = m
-------------------------------------------------------------------------------
(* The broker (external).                                                   *)

(* A delivery reaches the live run(), or only the subscription that an      *)
(* earlier run() left bound.                                                *)
ReachesRun(m) == pc # "stopped" /\ inbox' = Append(inbox, m) /\ UNCHANGED strays
GoesAstray(m) == connection = "leftover" /\ strays' = [strays EXCEPT ![m] = @ + 1] /\ UNCHANGED inbox

(* Mutant: a cursor that only moves forward, no message is sent again.      *)
DeliverOnce(m) ==
    /\ delivery[m] = "stored"
    /\ deliveries[m] = 0
    /\ delivery' = [delivery EXCEPT ![m] = "outstanding"]
    /\ deliveries' = [deliveries EXCEPT ![m] = 1]
    /\ ReachesRun(m) \/ GoesAstray(m)
    /\ UNCHANGED <<connection, runVars, engineMem, history, faults, losses>>

(* Deliver a stored message to a subscription that is bound: to the one or  *)
(* the other when a rerun of run() has bound a second one.                  *)
Deliver(m) ==
    /\ delivery[m] = "stored"
    /\ delivery' = [delivery EXCEPT ![m] = "outstanding"]
    /\ deliveries' = [deliveries EXCEPT ![m] = @ + 1]
    /\ ReachesRun(m) \/ GoesAstray(m)
    /\ UNCHANGED <<connection, runVars, engineMem, history, faults, losses>>

(* --wait ran out with no ack: deliver again, or never once max-deliver is  *)
(* used up.  It is a fault if the client still has the message.             *)
AckWaitExpires(m) ==
    /\ delivery[m] = "outstanding"
    /\ delivery' = [delivery EXCEPT
                       ![m] = IF deliveries[m] < MaxDeliver THEN "stored" ELSE "dead"]
    /\ IF Held(m) THEN faults < MaxFaults /\ faults' = faults + 1 /\ losses' = losses + 1
                  ELSE UNCHANGED <<faults, losses>>
    /\ UNCHANGED <<deliveries, connection, inbox, runVars, engineMem, history, strays>>
-------------------------------------------------------------------------------
(* Mutant: a throttling interval one too short.                             *)
ThrottlesLess(m) ==
    /\ MinEmitInterval # None
    /\ lastEmit[EntityOf[m]] # None
    /\ TimeOf[m] - lastEmit[EntityOf[m]] + 1 < MinEmitInterval

(* FeatureEngine.process: is the record's vector withheld by throttling?    *)
Throttles(m) ==
    /\ MinEmitInterval # None
    /\ lastEmit[EntityOf[m]] # None
    /\ TimeOf[m] - lastEmit[EntityOf[m]] < MinEmitInterval

(* FeatureEngine.process: fold, then return a vector unless throttled.      *)
Process(m) ==
    LET e == EntityOf[m]
        n == samples[e] + 1
    IN /\ samples' = [samples EXCEPT ![e] = n]
       /\ folds' = [folds EXCEPT ![m] = @ + 1]
       /\ IF Throttles(m)
          THEN /\ fv' = None
               /\ throttled' = throttled \cup {m}
               /\ UNCHANGED lastEmit
          ELSE /\ fv' = [src |-> m, entity |-> e, ts |-> TimeOf[m],
                         samples |-> n, engine |-> engine]
               /\ lastEmit' = [lastEmit EXCEPT ![e] = TimeOf[m]]
               /\ UNCHANGED throttled
       /\ UNCHANGED <<engine, published>>

(* Mutant: take one message and drop those queued behind it.               *)
IterateFirstOfQueue ==
    /\ pc = "iterate"
    /\ inbox # <<>>
    /\ Head(inbox) \notin NotObject
    /\ cur' = Head(inbox)
    /\ inbox' = <<>>
    /\ IF Head(inbox) \in Good
       THEN /\ Process(Head(inbox))
            /\ pc' = IF Throttles(Head(inbox)) THEN "ack" ELSE "publish"
       ELSE /\ pc' = "ack"
            /\ UNCHANGED <<fv, engineMem, history>>
    /\ UNCHANGED <<broker, connection, processed, counts>>

(* The loop body up to the publish: decode, fold.  A message that does not  *)
(* decode goes straight to its ack.                                         *)
Iterate ==
    /\ pc = "iterate"
    /\ inbox # <<>>
    /\ Head(inbox) \notin NotObject
    /\ cur' = Head(inbox)
    /\ inbox' = Tail(inbox)
    /\ IF Head(inbox) \in Good
       THEN /\ Process(Head(inbox))
            /\ pc' = IF Throttles(Head(inbox)) THEN "ack" ELSE "publish"
       ELSE /\ pc' = "ack"
            /\ UNCHANGED <<fv, engineMem, history>>
    /\ UNCHANGED <<broker, connection, processed, counts>>

(* run() ends: nobody reads what is queued for it.                          *)
LoseQueue == pc' = "stopped" /\ inbox' = <<>> /\ losses' = losses + 1 /\ UNCHANGED strays

(* An exception leaves run(): the iteration is gone, the engine object, the *)
(* connection and the subscription on it are not.                           *)
Escape == /\ LoseQueue
          /\ cur' = None
          /\ fv' = None
          /\ connection' = "leftover"
          /\ UNCHANGED processed

(* _record_from_json calls .get on whatever json.loads returned: a payload  *)
(* that is no object raises outside every try.                              *)
DecodeRaises ==
    /\ pc = "iterate"
    /\ inbox # <<>>
    /\ Head(inbox) \in NotObject
    /\ Escape
    /\ UNCHANGED <<broker, engineMem, history, faults>>

PublishFeatures ==
    /\ pc = "publish"
    /\ published' = Append(published, fv)
    /\ fv' = None
    /\ pc' = "ack"
    /\ UNCHANGED <<broker, connection, inbox, cur, processed, engineMem, folds, throttled, counts>>

(* Mutant: the publish's exception is swallowed and the message acked.      *)
PublishFailsSwallowed ==
    /\ pc = "publish"
    /\ faults < MaxFaults
    /\ faults' = faults + 1
    /\ fv' = None
    /\ pc' = "ack"
    /\ UNCHANGED <<broker, connection, inbox, cur, processed, engineMem, history, losses, strays>>

(* The publish raises (no ack from the FEATURES stream, connection closed). *)
PublishFails ==
    /\ pc = "publish"
    /\ faults < MaxFaults
    /\ faults' = faults + 1
    /\ Escape
    /\ UNCHANGED <<broker, engineMem, history>>

Done == MaxMessages # None /\ processed + 1 >= MaxMessages

(* msg.ack() returns once the ack is sent; nothing confirms that it arrives.*)
FinishIteration ==
    /\ processed' = processed + 1
    /\ cur' = None
    /\ IF Done
       THEN LoseQueue /\ connection' = "leftover"
       ELSE pc' = "iterate" /\ UNCHANGED <<inbox, losses, strays, connection>>
    /\ UNCHANGED <<deliveries, fv, engineMem, history>>

Ack ==
    /\ pc = "ack"
    /\ delivery' = [delivery EXCEPT ![cur] = "acked"]
    /\ FinishIteration
    /\ UNCHANGED faults

AckLost ==
    /\ pc = "ack"
    /\ faults < MaxFaults
    /\ faults' = faults + 1
    /\ FinishIteration
    /\ UNCHANGED delivery
-------------------------------------------------------------------------------
(* run() is cancelled: an exception like any other ...                      *)
Cancel ==
    /\ pc # "stopped"
    /\ faults < MaxFaults
    /\ faults' = faults + 1
    /\ Escape
    /\ UNCHANGED <<broker, engineMem, history>>

(* ... or its process dies, and its connection with it.                     *)
Crash ==
    /\ pc # "stopped"
    /\ faults < MaxFaults
    /\ faults' = faults + 1
    /\ LoseQueue
    /\ cur' = None
    /\ fv' = None
    /\ connection' = "closed"
    /\ UNCHANGED <<broker, processed, engineMem, history>>

(* close(), once run() has ended: the drain unsubscribes.  _js stays set,   *)
(* so this source has no connection any more.                               *)
Close ==
    /\ pc = "stopped"
    /\ connection # "closed"
    /\ connection' = "closed"
    /\ UNCHANGED <<broker, inbox, runVars, engineMem, history, counts>>

(* run() is called again on the same source: same engine, same connection,  *)
(* with the earlier subscription on it.  (If the broker refuses a second    *)
(* subscription to the durable, run() raises at once and nothing changes.)  *)
Rerun ==
    /\ pc = "stopped"
    /\ connection # "closed"
    /\ pc' = "iterate"
    /\ processed' = 0
    /\ UNCHANGED <<broker, connection, inbox, cur, fv, engineMem, history, counts>>

(* A new process: a new source, a new connection, a new engine.             *)
Restart ==
    /\ pc = "stopped"
    /\ pc' = "iterate"
    /\ processed' = 0
    /\ connection' = "fresh"
    /\ engine' = engine + 1
    /\ samples' = FreshSamples
    /\ lastEmit' = FreshLastEmit
    /\ UNCHANGED <<broker, inbox, cur, fv, history, counts>>

Next ==
    \/ \E m \in Msgs : Deliver(m) \/ AckWaitExpires(m)
    \/ Iterate
    \/ DecodeRaises
    \/ PublishFeatures
    \/ PublishFails
    \/ Ack
    \/ AckLost
    \/ Cancel
    \/ Crash
    \/ Close
    \/ Rerun
    \/ Restart

Spec == Init /\ [][Next]_vars

(* The broker keeps delivering and timing out, the event loop keeps         *)
(* running the coroutine, and whoever started run() starts it again.        *)
Fairness == /\ \A m \in Msgs : WF_vars(Deliver(m)) /\ WF_vars(AckWaitExpires(m))
            /\ WF_vars(Iterate \/ DecodeRaises)
            /\ WF_vars(PublishFeatures)
            /\ WF_vars(Ack)
            /\ WF_vars(Rerun \/ Restart)

FairSpec == Spec /\ Fairness
-------------------------------------------------------------------------------
PublishedFor(m) == \E i \in DOMAIN published : published[i].src = m

(* sources.py: "acks after the record is folded in".  However crashes,      *)
(* failed publishes, redeliveries and lost acks interleave, an acked record *)
(* has been folded and its vector is in the FEATURES stream, unless the     *)
(* engine withheld it.                                                      *)
AckedIsPublished ==
    \A m \in Good :
        delivery[m] = "acked" => /\ folds[m] >= 1
                                 /\ PublishedFor(m) \/ m \in throttled

(* engine.py: "emit at most one FeatureVector per entity per interval",     *)
(* across reruns of run() on one engine and whatever order records come in. *)
EmissionSpacing ==
    MinEmitInterval # None =>
        \A i, j \in DOMAIN published :
            /\ i < j
            /\ published[i].entity = published[j].entity
            /\ published[i].engine = published[j].engine
            => published[j].ts - published[i].ts >= MinEmitInterval

(* "--max-deliver" gives up what run() cannot process, not what it never    *)
(* got: of the deliveries of a record that is given up unfolded, each one   *)
(* went to a subscription that an earlier run() left bound, or was lost     *)
(* when a run() ended or the broker would not wait for it.  So a fault, or  *)
(* the end of one run(), alone costs a record one delivery; it is run()'s   *)
(* failure to unsubscribe that can use up all of them.                      *)
GivenUpHasCause ==
    \A m \in Good :
        delivery[m] = "dead" /\ folds[m] = 0 => losses + strays[m] >= MaxDeliver

(* Every message is settled: acked, or given up after max-deliver.          *)
EveryMessageSettles ==
    \A m \in Msgs : <>(delivery[m] \in {"acked", "dead"})

(* At-least-once ingest: every record that decodes is folded into an engine.*)
EveryRecordFolded == \A m \in Good : <>(folds[m] >= 1)
===============================================================================
