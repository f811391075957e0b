---------------------------- MODULE TelemetryProofs ----------------------------
(***************************************************************************)
(* The two ends of the telemetry plane.  What NatsIngest keeps for every   *)
(* set of messages, every throttling interval, max-deliver and             *)
(* max_messages, and any number of faults: each of the three invariants is *)
(* strengthened by what run() knows of the message in hand, between the    *)
(* fold and the ack.  And what FaultDrivers keep of the lab, for every     *)
(* number of cycles, bursts and calls, and commands of any duration.       *)
(* And what SyntheticGenerator leaves alone, for every duration, hour,     *)
(* choice of scenarios, and noise.                                         *)
(***************************************************************************)
EXTENDS NatsIngest, TelemetrySources, NumberLemmas, SequenceTheorems

Vector == [src : Good, entity : Entities, ts : Nat, samples : Nat, engine : Nat]

TypeOK ==
    /\ delivery \in [Msgs -> {"stored", "outstanding", "acked", "dead"}]
    /\ deliveries \in [Msgs -> Nat]
    /\ connection \in {"fresh", "leftover", "closed"}
    /\ inbox \in Seq(Msgs)
    /\ pc \in {"iterate", "publish", "ack", "stopped"}
    /\ cur \in Msgs \cup {None}
    /\ fv \in Vector \cup {None}
    /\ processed \in Nat
    /\ engine \in Nat
    /\ samples \in [Entities -> Nat]
    /\ lastEmit \in [Entities -> Nat \cup {None}]
    /\ published \in Seq(Vector)
    /\ folds \in [Msgs -> Nat]
    /\ throttled \subseteq Msgs
    /\ faults \in Nat
    /\ losses \in Nat
    /\ strays \in [Msgs -> Nat]

(* The message in hand has been folded; its vector is the one about to be   *)
(* published, by the time of the ack it is published or was withheld.       *)
Settled(m) == folds[m] >= 1 /\ (PublishedFor(m) \/ m \in throttled)

InHand ==
    /\ pc = "publish" => fv \in Vector /\ cur = fv.src
    /\ pc = "ack" => cur \in Msgs /\ (cur \in Good => Settled(cur))
    /\ cur \in Good => folds[cur] >= 1

(* Whatever the live engine emitted for an entity, lastEmit has kept up     *)
(* with it, and the vector in hand is an interval later.                    *)
EmitsInTime ==
    MinEmitInterval # None =>
        /\ \A i \in DOMAIN published :
              LET v == published[i]
              IN /\ v.engine <= engine
                 /\ v.engine = engine => /\ lastEmit[v.entity] # None
                                         /\ v.ts <= lastEmit[v.entity]
        /\ pc = "publish" =>
              /\ fv.engine = engine
              /\ lastEmit[fv.entity] = fv.ts
              /\ \A i \in DOMAIN published :
                    published[i].entity = fv.entity /\ published[i].engine = engine
                       => fv.ts - published[i].ts >= MinEmitInterval

Queued(m) == \E i \in DOMAIN inbox : inbox[i] = m

(* A record never folded was lost, or went astray, each time that it was    *)
(* delivered, but for the delivery that is still in the queue.              *)
Missed(m) == losses + strays[m]

LossesAccounted ==
    \A m \in Good : folds[m] = 0 =>
        /\ delivery[m] = "stored" => deliveries[m] <= Missed(m)
        /\ delivery[m] = "outstanding" =>
              deliveries[m] <= Missed(m) + (IF Queued(m) THEN 1 ELSE 0)
        /\ delivery[m] = "dead" => Missed(m) >= MaxDeliver

IInv == /\ TypeOK
        /\ InHand /\ AckedIsPublished
        /\ EmitsInTime /\ EmissionSpacing
        /\ LossesAccounted
-------------------------------------------------------------------------------
LEMMA Initially == Init => IInv
<1> SUFFICES ASSUME Init PROVE IInv
  OBVIOUS
<1> USE DEF Init
<1>1. TypeOK
  BY DEF TypeOK, FreshSamples, FreshLastEmit
<1>2. InHand /\ AckedIsPublished
  BY MsgAssumption, RecordAssumption DEF InHand, AckedIsPublished
<1>3. EmitsInTime /\ EmissionSpacing
  BY DEF EmitsInTime, EmissionSpacing
<1>4. LossesAccounted
  BY MsgAssumption DEF LossesAccounted, Missed
<1> QED BY <1>1, <1>2, <1>3, <1>4 DEF IInv

(* What a fold makes of a record.                                           *)
LEMMA FoldMakes ==
    ASSUME TypeOK, NEW m \in Good, Process(m)
    PROVE  /\ samples' \in [Entities -> Nat]
           /\ lastEmit' \in [Entities -> Nat \cup {None}]
           /\ folds' = [folds EXCEPT ![m] = @ + 1]
           /\ folds' \in [Msgs -> Nat]
           /\ engine' = engine /\ published' = published
           /\ Throttles(m)  => /\ fv' = None /\ lastEmit' = lastEmit
                               /\ throttled' = throttled \cup {m}
           /\ ~Throttles(m) => /\ fv' \in Vector /\ fv'.src = m /\ fv'.entity = EntityOf[m]
                               /\ fv'.ts = TimeOf[m] /\ fv'.engine = engine
                               /\ lastEmit' = [lastEmit EXCEPT ![EntityOf[m]] = TimeOf[m]]
                               /\ throttled' = throttled
<1>1. /\ EntityOf[m] \in Entities /\ TimeOf[m] \in Nat /\ m \in Msgs
      /\ samples[EntityOf[m]] \in Nat /\ folds[m] \in Nat
  BY RecordAssumption, MsgAssumption DEF TypeOK
<1>2. /\ samples' = [samples EXCEPT ![EntityOf[m]] = samples[EntityOf[m]] + 1]
      /\ folds' = [folds EXCEPT ![m] = @ + 1]
      /\ engine' = engine /\ published' = published
  BY DEF Process
<1>3. samples' \in [Entities -> Nat] /\ folds' \in [Msgs -> Nat]
  BY <1>1, <1>2, SMTT(30) DEF TypeOK
<1>4. CASE Throttles(m)
  BY <1>2, <1>3, <1>4 DEF Process, TypeOK
<1>5. CASE ~Throttles(m)
  <2>1. /\ fv' = [src |-> m, entity |-> EntityOf[m], ts |-> TimeOf[m],
                  samples |-> samples[EntityOf[m]] + 1, engine |-> engine]
        /\ lastEmit' = [lastEmit EXCEPT ![EntityOf[m]] = TimeOf[m]]
        /\ throttled' = throttled
    BY <1>5 DEF Process
  <2>2. fv' \in Vector
    BY <1>1, <2>1 DEF Vector, TypeOK
  <2> QED BY <1>1, <1>2, <1>3, <1>5, <2>1, <2>2 DEF TypeOK
<1> QED BY <1>4, <1>5

(* A vector more never takes one away.                                      *)
LEMMA AppendedPublished ==
    ASSUME TypeOK, NEW v \in Vector, published' = Append(published, v)
    PROVE  /\ published' \in Seq(Vector)
           /\ DOMAIN published = 1..Len(published) /\ Len(published) \in Nat
           /\ DOMAIN published' = 1..(Len(published) + 1)
           /\ published'[Len(published) + 1] = v
           /\ \A i \in DOMAIN published : published'[i] = published[i]
BY DEF TypeOK
-------------------------------------------------------------------------------
(* The broker's steps leave run() and the engine alone.                     *)
LEMMA DeliverKeeps ==
    ASSUME IInv, NEW m \in Msgs, Deliver(m)
    PROVE  IInv'
<1> USE DEF IInv, Deliver, runVars, engineMem, history
<1>1. TypeOK'
  <2>1. CASE ReachesRun(m)
    BY <2>1 DEF TypeOK, ReachesRun
  <2>2. CASE GoesAstray(m)
    BY <2>2 DEF TypeOK, GoesAstray
  <2> QED BY <2>1, <2>2
<1>2. InHand' /\ AckedIsPublished'
  BY DEF InHand, Settled, PublishedFor, AckedIsPublished, TypeOK
<1>3. EmitsInTime' /\ EmissionSpacing'
  BY DEF EmitsInTime, EmissionSpacing
<1>4. LossesAccounted'
  <2>1. /\ folds' = folds /\ losses' = losses /\ losses \in Nat
        /\ delivery[m] = "stored" /\ delivery' = [delivery EXCEPT ![m] = "outstanding"]
        /\ deliveries' = [deliveries EXCEPT ![m] = @ + 1]
        /\ delivery \in [Msgs -> {"stored", "outstanding", "acked", "dead"}]
        /\ deliveries \in [Msgs -> Nat] /\ strays \in [Msgs -> Nat]
    BY DEF TypeOK
  <2>2. /\ \A n \in Msgs : Queued(n) => Queued(n)'
        /\ \A n \in Msgs : strays'[n] \in Nat /\ strays'[n] >= strays[n]
        /\ Queued(m)' \/ strays'[m] = strays[m] + 1
    <3>1. CASE ReachesRun(m)
      <4>1. inbox' = Append(inbox, m) /\ strays' = strays
        BY <3>1 DEF ReachesRun
      <4>2. inbox \in Seq(Msgs)
        BY DEF TypeOK
      <4> HIDE DEF IInv, Deliver
      <4>3. /\ Len(inbox) \in Nat /\ DOMAIN inbox = 1..Len(inbox)
            /\ DOMAIN inbox' = 1..(Len(inbox) + 1) /\ inbox'[Len(inbox) + 1] = m
            /\ \A i \in DOMAIN inbox : inbox'[i] = inbox[i]
        BY <4>1, <4>2
      <4>4. Queued(m)' /\ \A n \in Msgs : Queued(n) => Queued(n)'
        BY <4>3 DEF Queued
      <4>5. \A n \in Msgs : strays'[n] \in Nat /\ strays'[n] >= strays[n]
        BY <2>1, <4>1
      <4> QED BY <4>4, <4>5
    <3>2. CASE GoesAstray(m)
      <4>1. inbox' = inbox /\ strays' = [strays EXCEPT ![m] = @ + 1]
        BY <3>2 DEF GoesAstray
      <4> QED BY <2>1, <4>1 DEF Queued
    <3> QED BY <3>1, <3>2
  <2> SUFFICES ASSUME NEW n \in Good, folds[n] = 0
               PROVE  /\ delivery'[n] = "stored" => deliveries'[n] <= losses + strays'[n]
                      /\ delivery'[n] = "outstanding" =>
                            deliveries'[n] <= losses + strays'[n] + (IF Queued(n)' THEN 1 ELSE 0)
                      /\ delivery'[n] = "dead" => losses + strays'[n] >= MaxDeliver
    BY <2>1 DEF LossesAccounted, Missed
  <2>3. n \in Msgs /\ MaxDeliver \in Nat
    BY MsgAssumption, LimitAssumption
  <2>4. /\ delivery[n] = "stored" => deliveries[n] <= losses + strays[n]
        /\ delivery[n] = "outstanding" =>
              deliveries[n] <= losses + strays[n] + (IF Queued(n) THEN 1 ELSE 0)
        /\ delivery[n] = "dead" => losses + strays[n] >= MaxDeliver
    BY DEF LossesAccounted, Missed
  <2>5. strays[n] \in Nat /\ strays'[n] \in Nat /\ strays'[n] >= strays[n] /\ deliveries[n] \in Nat
    BY <2>1, <2>2, <2>3
  <2>6. CASE n = m
    <3>1. delivery'[n] = "outstanding" /\ deliveries'[n] = deliveries[n] + 1
      BY <2>1, <2>3, <2>6
    <3> QED BY <2>1, <2>2, <2>4, <2>5, <2>6, <3>1
  <2>7. CASE n # m
    <3>1. delivery'[n] = delivery[n] /\ deliveries'[n] = deliveries[n]
      BY <2>1, <2>3, <2>7
    <3> QED BY <2>1, <2>2, <2>3, <2>4, <2>5, <3>1
  <2> QED BY <2>6, <2>7
<1> QED BY <1>1, <1>2, <1>3, <1>4

LEMMA AckWaitKeeps ==
    ASSUME IInv, NEW m \in Msgs, AckWaitExpires(m)
    PROVE  IInv'
<1> USE DEF IInv, AckWaitExpires, runVars, engineMem, history
<1>1. TypeOK'
  BY SMTT(30) DEF TypeOK
<1>2. InHand' /\ AckedIsPublished'
  <2>1. \A n \in Msgs : delivery'[n] = "acked" => delivery[n] = "acked"
    BY DEF TypeOK
  <2> QED BY <2>1, MsgAssumption DEF InHand, Settled, PublishedFor, AckedIsPublished
<1>3. EmitsInTime' /\ EmissionSpacing'
  BY DEF EmitsInTime, EmissionSpacing
<1>4. LossesAccounted'
  <2>1. /\ folds' = folds /\ inbox' = inbox /\ deliveries' = deliveries /\ cur' = cur
        /\ losses \in Nat /\ deliveries \in [Msgs -> Nat]
        /\ strays' = strays /\ strays \in [Msgs -> Nat]
        /\ delivery \in [Msgs -> {"stored", "outstanding", "acked", "dead"}]
        /\ delivery[m] = "outstanding"
        /\ delivery' = [delivery EXCEPT
                           ![m] = IF deliveries[m] < MaxDeliver THEN "stored" ELSE "dead"]
        /\ losses' = IF Held(m) THEN losses + 1 ELSE losses
    BY DEF TypeOK
  <2> SUFFICES ASSUME NEW n \in Good, folds[n] = 0
               PROVE  /\ delivery'[n] = "stored" => deliveries[n] <= losses' + strays[n]
                      /\ delivery'[n] = "outstanding" =>
                            deliveries[n] <= losses' + strays[n] + (IF Queued(n) THEN 1 ELSE 0)
                      /\ delivery'[n] = "dead" => losses' + strays[n] >= MaxDeliver
    BY <2>1 DEF LossesAccounted, Missed, Queued
  <2>2. n \in Msgs /\ MaxDeliver \in Nat /\ strays[n] \in Nat
    BY <2>1, MsgAssumption, LimitAssumption
  <2>3. /\ delivery[n] = "stored" => deliveries[n] <= losses + strays[n]
        /\ delivery[n] = "outstanding" =>
              deliveries[n] <= losses + strays[n] + (IF Queued(n) THEN 1 ELSE 0)
        /\ delivery[n] = "dead" => losses + strays[n] >= MaxDeliver
    BY DEF LossesAccounted, Missed
  <2>4. CASE n = m
    <3>1. Queued(m) => Held(m)
      BY DEF Queued, Held
    <3>2. deliveries[m] <= losses' + strays[n]
      BY <2>1, <2>2, <2>3, <2>4, <3>1
    <3> QED BY <2>1, <2>2, <2>4, <3>2
  <2>5. CASE n # m
    <3>1. delivery'[n] = delivery[n] /\ losses' \in Nat /\ losses <= losses' /\ deliveries[n] \in Nat
      BY <2>1, <2>2, <2>5
    <3> QED BY <2>1, <2>2, <2>3, <3>1
  <2> QED BY <2>4, <2>5
<1> QED BY <1>1, <1>2, <1>3, <1>4
-------------------------------------------------------------------------------
LEMMA QueueTail ==
    ASSUME TypeOK, inbox # <<>>
    PROVE  /\ Head(inbox) \in Msgs /\ Tail(inbox) \in Seq(Msgs)
           /\ \A n \in Msgs : Queued(n) /\ n # Head(inbox) =>
                  \E i \in DOMAIN Tail(inbox) : Tail(inbox)[i] = n
<1>1. inbox \in Seq(Msgs) /\ DOMAIN inbox = 1..Len(inbox) /\ Len(inbox) \in Nat /\ Len(inbox) > 0
  BY DEF TypeOK
<1>2. /\ Head(inbox) = inbox[1] /\ Head(inbox) \in Msgs /\ Tail(inbox) \in Seq(Msgs)
      /\ DOMAIN Tail(inbox) = 1..(Len(inbox) - 1)
      /\ \A i \in 1..(Len(inbox) - 1) : Tail(inbox)[i] = inbox[i + 1]
  BY <1>1
<1>3. ASSUME NEW n \in Msgs, Queued(n), n # Head(inbox)
      PROVE  \E i \in DOMAIN Tail(inbox) : Tail(inbox)[i] = n
  <2>1. PICK i \in DOMAIN inbox : inbox[i] = n
    BY <1>3 DEF Queued
  <2>2. i - 1 \in DOMAIN Tail(inbox) /\ Tail(inbox)[i - 1] = n
    BY <1>1, <1>2, <1>3, <2>1
  <2> QED BY <2>2
<1> QED BY <1>2, <1>3

(* Taking a message off the queue: what is folded needs no account of its   *)
(* losses any more, everything else stays queued.                           *)
LEMMA IterateLosses ==
    ASSUME IInv, Iterate
    PROVE  LossesAccounted'
<1> DEFINE m == Head(inbox)
<1>1. /\ inbox # <<>> /\ inbox' = Tail(inbox) /\ UNCHANGED <<delivery, deliveries, losses, strays>>
  BY DEF Iterate, broker, counts
<1>2. m \in Msgs /\ TypeOK
  BY <1>1, QueueTail DEF IInv
<1>3. m \in Good => folds' = [folds EXCEPT ![m] = @ + 1]
  BY <1>2, FoldMakes DEF Iterate
<1>4. m \notin Good => folds' = folds
  BY DEF Iterate, history
<1>5. ASSUME NEW n \in Good, folds'[n] = 0
      PROVE  n # m /\ folds[n] = 0
  BY <1>2, <1>3, <1>4, <1>5, MsgAssumption DEF TypeOK
<1>6. ASSUME NEW n \in Good, n # m, Queued(n)
      PROVE  Queued(n)'
  BY <1>1, <1>2, <1>6, QueueTail, MsgAssumption DEF Queued
<1> SUFFICES ASSUME NEW n \in Good, folds'[n] = 0
             PROVE  /\ delivery[n] = "stored" => deliveries[n] <= Missed(n)
                    /\ delivery[n] = "outstanding" =>
                          deliveries[n] <= Missed(n) + (IF Queued(n)' THEN 1 ELSE 0)
                    /\ delivery[n] = "dead" => Missed(n) >= MaxDeliver
  BY <1>1 DEF LossesAccounted, Missed
<1>7. n # m /\ folds[n] = 0 /\ (Queued(n) => Queued(n)')
  BY <1>5, <1>6
<1>8. /\ delivery[n] = "stored" => deliveries[n] <= Missed(n)
      /\ delivery[n] = "outstanding" =>
            deliveries[n] <= Missed(n) + (IF Queued(n) THEN 1 ELSE 0)
      /\ delivery[n] = "dead" => Missed(n) >= MaxDeliver
  BY <1>7 DEF LossesAccounted, IInv
<1>9. deliveries[n] \in Nat /\ Missed(n) \in Nat
  BY <1>2, MsgAssumption DEF TypeOK, Missed
<1> QED BY <1>7, <1>8, <1>9

LEMMA IterateKeeps ==
    ASSUME IInv, Iterate
    PROVE  IInv'
<1> DEFINE m == Head(inbox)
<1>1. /\ pc = "iterate" /\ inbox # <<>> /\ cur' = m /\ inbox' = Tail(inbox)
      /\ UNCHANGED <<delivery, deliveries, connection, processed, faults, losses, strays>>
  BY DEF Iterate, broker, counts
<1>2. m \in Msgs /\ Tail(inbox) \in Seq(Msgs) /\ TypeOK
  BY <1>1, QueueTail DEF IInv
<1>3. LossesAccounted'
  BY IterateLosses
<1> HIDE DEF m
<1>4. CASE m \notin Good
  <2>1. pc' = "ack" /\ UNCHANGED <<fv, engine, samples, lastEmit, published, folds, throttled>>
    BY <1>4 DEF Iterate, m, engineMem, history
  <2>2. TypeOK'
    BY <1>1, <1>2, <2>1 DEF TypeOK
  <2>3. InHand' /\ AckedIsPublished'
    BY <1>1, <1>2, <1>4, <2>1 DEF InHand, IInv, AckedIsPublished, PublishedFor
  <2>4. EmitsInTime' /\ EmissionSpacing'
    BY <2>1 DEF EmitsInTime, EmissionSpacing, IInv
  <2> QED BY <1>3, <2>2, <2>3, <2>4 DEF IInv
<1>5. CASE m \in Good
  <2>1. Process(m) /\ pc' = IF Throttles(m) THEN "ack" ELSE "publish"
    BY <1>5 DEF Iterate, m
  <2>2. /\ samples' \in [Entities -> Nat]
        /\ lastEmit' \in [Entities -> Nat \cup {None}]
        /\ folds' = [folds EXCEPT ![m] = @ + 1] /\ folds' \in [Msgs -> Nat]
        /\ engine' = engine /\ published' = published
    BY <1>2, <1>5, <2>1, FoldMakes
  <2>3. Throttles(m) => /\ fv' = None /\ lastEmit' = lastEmit
                        /\ throttled' = throttled \cup {m}
    BY <1>2, <1>5, <2>1, FoldMakes
  <2>4. ~Throttles(m) => /\ fv' \in Vector /\ fv'.src = m /\ fv'.entity = EntityOf[m]
                         /\ fv'.ts = TimeOf[m] /\ fv'.engine = engine
                         /\ lastEmit' = [lastEmit EXCEPT ![EntityOf[m]] = TimeOf[m]]
                         /\ throttled' = throttled
    BY <1>2, <1>5, <2>1, FoldMakes
  <2>5. EntityOf[m] \in Entities /\ TimeOf[m] \in Nat
    BY <1>5, RecordAssumption
  <2>6. TypeOK'
    BY <1>1, <1>2, <2>1, <2>2, <2>3, <2>4 DEF TypeOK
  <2>7. /\ folds'[m] >= 1 /\ \A n \in Msgs : folds[n] >= 1 => folds'[n] >= 1
        /\ throttled \subseteq throttled'
    BY <1>2, <2>2, <2>3, <2>4 DEF TypeOK
  <2>8. InHand'
    BY <1>1, <1>2, <2>1, <2>3, <2>4, <2>7 DEF InHand, Settled
  <2>9. AckedIsPublished'
    BY <1>1, <2>2, <2>7, MsgAssumption DEF AckedIsPublished, PublishedFor, IInv
  <2>10. EmissionSpacing'
    BY <2>2 DEF EmissionSpacing, IInv
  <2>11. EmitsInTime'
    <3>1. CASE Throttles(m)
      BY <2>1, <2>2, <2>3, <3>1 DEF EmitsInTime, IInv
    <3>2. CASE ~Throttles(m)
      <4> SUFFICES ASSUME MinEmitInterval # None
                   PROVE  /\ \A i \in DOMAIN published :
                                /\ published[i].engine <= engine
                                /\ published[i].engine = engine =>
                                      /\ lastEmit'[published[i].entity] # None
                                      /\ published[i].ts <= lastEmit'[published[i].entity]
                          /\ \A i \in DOMAIN published :
                                published[i].entity = EntityOf[m] /\ published[i].engine = engine
                                   => TimeOf[m] - published[i].ts >= MinEmitInterval
                          /\ lastEmit'[EntityOf[m]] = TimeOf[m]
        <5>1. /\ fv'.engine = engine /\ fv'.entity = EntityOf[m] /\ fv'.ts = TimeOf[m]
              /\ engine' = engine /\ published' = published
          BY <2>2, <2>4, <3>2
        <5> QED BY <5>1 DEF EmitsInTime
      <4>1. MinEmitInterval \in Nat /\ None \notin Nat
        BY LimitAssumption, RecordAssumption
      <4>2. \A i \in DOMAIN published :
               /\ published[i].entity \in Entities /\ published[i].ts \in Nat
               /\ published[i].engine <= engine
               /\ published[i].engine = engine => /\ lastEmit[published[i].entity] # None
                                                  /\ published[i].ts <= lastEmit[published[i].entity]
        <5>1. published \in Seq(Vector)
          BY <1>2 DEF TypeOK
        <5>2. \A i \in DOMAIN published : published[i] \in Vector
          BY <5>1
        <5>3. \A v \in Vector : v.entity \in Entities /\ v.ts \in Nat
          BY DEF Vector
        <5> QED BY <5>2, <5>3 DEF EmitsInTime, IInv
      <4>3. lastEmit'[EntityOf[m]] = TimeOf[m]
            /\ \A e \in Entities : e # EntityOf[m] => lastEmit'[e] = lastEmit[e]
        BY <1>2, <2>4, <2>5, <3>2 DEF TypeOK
      <4>4. lastEmit[EntityOf[m]] # None => /\ lastEmit[EntityOf[m]] \in Nat
                                            /\ TimeOf[m] - lastEmit[EntityOf[m]] >= MinEmitInterval
        BY <1>2, <2>5, <3>2, <4>1, SMTT(30) DEF Throttles, TypeOK
      <4>5. \A i \in DOMAIN published :
               published[i].entity = EntityOf[m] /\ published[i].engine = engine
                  => TimeOf[m] - published[i].ts >= MinEmitInterval
        BY <2>5, <4>1, <4>2, <4>4
      <4>6. \A i \in DOMAIN published : published[i].engine = engine =>
               /\ lastEmit'[published[i].entity] # None
               /\ published[i].ts <= lastEmit'[published[i].entity]
        BY <2>5, <4>1, <4>2, <4>3, <4>4, <4>5
      <4> QED BY <4>2, <4>3, <4>5, <4>6
    <3> QED BY <3>1, <3>2
  <2> QED BY <1>3, <2>6, <2>8, <2>9, <2>10, <2>11 DEF IInv
<1> QED BY <1>4, <1>5
-------------------------------------------------------------------------------
LEMMA PublishKeeps ==
    ASSUME IInv, PublishFeatures
    PROVE  IInv'
<1>1. /\ pc = "publish" /\ pc' = "ack" /\ fv' = None /\ published' = Append(published, fv)
      /\ UNCHANGED <<delivery, deliveries, inbox, cur, processed, engine, samples, lastEmit>>
      /\ UNCHANGED <<connection, folds, throttled, faults, losses, strays>>
  BY DEF PublishFeatures, broker, engineMem, counts
<1>2. TypeOK /\ fv \in Vector /\ cur = fv.src
  BY <1>1 DEF IInv, InHand
<1>3. /\ published' \in Seq(Vector)
      /\ DOMAIN published = 1..Len(published) /\ Len(published) \in Nat
      /\ DOMAIN published' = 1..(Len(published) + 1)
      /\ published'[Len(published) + 1] = fv
      /\ \A i \in DOMAIN published : published'[i] = published[i]
  BY <1>1, <1>2, AppendedPublished
<1>4. TypeOK'
  BY <1>1, <1>2, <1>3 DEF TypeOK
<1>5. PublishedFor(cur)' /\ \A n \in Msgs : PublishedFor(n) => PublishedFor(n)'
  BY <1>1, <1>2, <1>3 DEF PublishedFor
<1>6. InHand' /\ AckedIsPublished'
  <2>1. cur \in Good
    BY <1>2 DEF Vector
  <2> QED BY <1>1, <1>2, <1>5, <2>1, MsgAssumption DEF InHand, Settled, AckedIsPublished, IInv, PublishedFor
<1>7. EmissionSpacing'
  <2> SUFFICES ASSUME MinEmitInterval # None,
                      NEW i \in DOMAIN published', NEW j \in DOMAIN published', i < j,
                      published'[i].entity = published'[j].entity,
                      published'[i].engine = published'[j].engine
               PROVE  published'[j].ts - published'[i].ts >= MinEmitInterval
    BY DEF EmissionSpacing
  <2>1. i \in DOMAIN published /\ published'[i] = published[i]
    BY <1>3
  <2>2. CASE j \in DOMAIN published
    BY <1>3, <2>1, <2>2 DEF EmissionSpacing, IInv
  <2>3. CASE j \notin DOMAIN published
    <3>1. published'[j] = fv
      BY <1>3, <2>3
    <3>2. fv.engine = engine /\ (published[i].entity = fv.entity /\ published[i].engine = engine
                                    => fv.ts - published[i].ts >= MinEmitInterval)
      BY <1>1, <2>1 DEF EmitsInTime, IInv
    <3> QED BY <2>1, <3>1, <3>2
  <2> QED BY <2>2, <2>3
<1>8. EmitsInTime'
  <2> SUFFICES ASSUME MinEmitInterval # None, NEW i \in DOMAIN published'
               PROVE  /\ published'[i].engine <= engine
                      /\ published'[i].engine = engine =>
                            /\ lastEmit[published'[i].entity] # None
                            /\ published'[i].ts <= lastEmit[published'[i].entity]
    BY <1>1 DEF EmitsInTime
  <2>1. CASE i \in DOMAIN published
    BY <1>3, <2>1 DEF EmitsInTime, IInv
  <2>2. CASE i \notin DOMAIN published
    <3>1. published'[i] = fv
      BY <1>3, <2>2
    <3>2. fv.engine = engine /\ lastEmit[fv.entity] = fv.ts
      BY <1>1 DEF EmitsInTime, IInv
    <3>3. fv.ts \in Nat /\ engine \in Nat
      BY <1>2 DEF Vector, TypeOK
    <3> QED BY <3>1, <3>2, <3>3, RecordAssumption
  <2> QED BY <2>1, <2>2
<1>9. LossesAccounted'
  BY <1>1 DEF LossesAccounted, Missed, Queued, IInv
<1> QED BY <1>4, <1>6, <1>7, <1>8, <1>9 DEF IInv

(* Whatever loses the queue is accounted as a loss.                         *)
LEMMA LostQueue ==
    ASSUME TypeOK, LossesAccounted, LoseQueue, folds' = folds,
           deliveries' = deliveries,
           \A n \in Msgs : delivery'[n] = delivery[n] \/ delivery'[n] = "acked"
    PROVE  LossesAccounted'
<1> SUFFICES ASSUME NEW n \in Good, folds[n] = 0
             PROVE  /\ delivery'[n] = "stored" => deliveries[n] <= Missed(n)'
                    /\ delivery'[n] = "outstanding" =>
                          deliveries[n] <= Missed(n)' + (IF Queued(n)' THEN 1 ELSE 0)
                    /\ delivery'[n] = "dead" => Missed(n)' >= MaxDeliver
  BY DEF LossesAccounted
<1>1. /\ delivery[n] = "stored" => deliveries[n] <= Missed(n)
      /\ delivery[n] = "outstanding" =>
            deliveries[n] <= Missed(n) + (IF Queued(n) THEN 1 ELSE 0)
      /\ delivery[n] = "dead" => Missed(n) >= MaxDeliver
  BY DEF LossesAccounted
<1>2. n \in Msgs /\ deliveries[n] \in Nat /\ losses \in Nat /\ strays[n] \in Nat /\ MaxDeliver \in Nat
  BY MsgAssumption, LimitAssumption DEF TypeOK
<1>3. Missed(n)' = Missed(n) + 1 /\ Missed(n) \in Nat
  BY <1>2 DEF LoseQueue, Missed
<1>4. delivery'[n] = delivery[n] \/ delivery'[n] = "acked"
  BY <1>2
<1> QED BY <1>1, <1>2, <1>3, <1>4

(* run() ends for good or ill, with an iteration behind it or not.          *)
LEMMA EndKeeps ==
    ASSUME IInv, LoseQueue, cur' = None, fv' = None, processed' = processed,
           connection' \in {"leftover", "closed"},
           UNCHANGED <<broker, engineMem, history>>, faults' \in Nat
    PROVE  IInv'
<1>1. /\ pc' = "stopped" /\ inbox' = <<>> /\ losses' = losses + 1 /\ strays' = strays
      /\ UNCHANGED <<delivery, deliveries, engine, samples, lastEmit>>
      /\ UNCHANGED <<published, folds, throttled>>
  BY DEF LoseQueue, broker, engineMem, history
<1>2. TypeOK'
  BY <1>1 DEF TypeOK, IInv
<1>3. InHand' /\ AckedIsPublished'
  BY <1>1, RecordAssumption, MsgAssumption DEF InHand, AckedIsPublished, PublishedFor, IInv
<1>4. EmitsInTime' /\ EmissionSpacing'
  BY <1>1 DEF EmitsInTime, EmissionSpacing, IInv
<1>5. LossesAccounted'
  BY <1>1, LostQueue DEF IInv
<1> QED BY <1>2, <1>3, <1>4, <1>5 DEF IInv

LEMMA EscapeKeeps ==
    ASSUME IInv, Escape, UNCHANGED <<broker, engineMem, history>>, faults' \in Nat
    PROVE  IInv'
<1>1. /\ LoseQueue /\ cur' = None /\ fv' = None /\ processed' = processed
      /\ connection' = "leftover"
  BY DEF Escape
<1> QED BY <1>1, EndKeeps

(* What an ack, lost or not, finds settled stays so.                        *)
LEMMA FinishKeeps ==
    ASSUME IInv, pc = "ack", FinishIteration, faults' \in Nat,
           delivery' = delivery \/ delivery' = [delivery EXCEPT ![cur] = "acked"]
    PROVE  IInv'
<1>1. /\ processed' = processed + 1 /\ cur' = None
      /\ UNCHANGED <<deliveries, fv, engine, samples, lastEmit>>
      /\ UNCHANGED <<published, folds, throttled>>
  BY DEF FinishIteration, engineMem, history
<1>2. \/ LoseQueue /\ connection' = "leftover"
      \/ pc' = "iterate" /\ UNCHANGED <<inbox, losses, strays, connection>>
  BY DEF FinishIteration
<1>3. TypeOK /\ cur \in Msgs /\ (cur \in Good => Settled(cur))
  BY DEF IInv, InHand
<1>4. \A n \in Msgs : /\ delivery'[n] = delivery[n] \/ delivery'[n] = "acked"
                      /\ delivery'[n] # delivery[n] => n = cur
  BY <1>3 DEF TypeOK
<1>5. TypeOK'
  <2>1. delivery' \in [Msgs -> {"stored", "outstanding", "acked", "dead"}]
    BY <1>3 DEF TypeOK
  <2>2. /\ pc' \in {"iterate", "stopped"} /\ inbox' \in Seq(Msgs) /\ losses' \in Nat
        /\ strays' = strays /\ connection' \in {"fresh", "leftover", "closed"}
    <3>1. inbox \in Seq(Msgs) /\ losses \in Nat /\ connection \in {"fresh", "leftover", "closed"}
      BY <1>3 DEF TypeOK
    <3>2. CASE LoseQueue /\ connection' = "leftover"
      BY <3>1, <3>2 DEF LoseQueue
    <3>3. CASE pc' = "iterate" /\ UNCHANGED <<inbox, losses, strays, connection>>
      BY <3>1, <3>3
    <3> QED BY <1>2, <3>2, <3>3
  <2> QED BY <1>1, <1>3, <2>1, <2>2 DEF TypeOK
<1>6. InHand' /\ AckedIsPublished'
  <2>1. InHand'
    BY <1>1, <1>2, RecordAssumption, MsgAssumption DEF InHand, LoseQueue
  <2>2. \A n \in Good : delivery'[n] = "acked" => Settled(n)
    BY <1>3, <1>4, MsgAssumption DEF AckedIsPublished, IInv, Settled
  <2> QED BY <1>1, <2>1, <2>2 DEF Settled, AckedIsPublished, PublishedFor
<1>7. EmitsInTime' /\ EmissionSpacing'
  BY <1>1, <1>2 DEF EmitsInTime, EmissionSpacing, IInv, LoseQueue
<1>8. LossesAccounted'
  <2>1. CASE LoseQueue
    <3>1. LossesAccounted /\ TypeOK /\ folds' = folds /\ deliveries' = deliveries
      BY <1>1, <1>3 DEF IInv
    <3>2. \A n \in Msgs : delivery'[n] = delivery[n] \/ delivery'[n] = "acked"
      BY <1>4
    <3> QED BY <2>1, <3>1, <3>2, LostQueue
  <2>2. CASE pc' = "iterate" /\ UNCHANGED <<inbox, losses, strays, connection>>
    <3>1. \A n \in Good : delivery'[n] = delivery[n] \/ delivery'[n] = "acked"
      BY <1>4, MsgAssumption
    <3>2. \A n \in Good : Queued(n)' = Queued(n) /\ Missed(n)' = Missed(n)
      BY <2>2 DEF Queued, Missed
    <3>3. folds' = folds /\ deliveries' = deliveries /\ LossesAccounted
      BY <1>1 DEF IInv
    <3> HIDE DEF Queued, Missed
    <3> QED BY <3>1, <3>2, <3>3 DEF LossesAccounted
  <2> QED BY <1>2, <2>1, <2>2
<1> QED BY <1>5, <1>6, <1>7, <1>8 DEF IInv

(* close() touches nothing but the connection.                              *)
LEMMA CloseKeeps ==
    ASSUME IInv, Close
    PROVE  IInv'
<1>1. /\ connection' = "closed"
      /\ UNCHANGED <<delivery, deliveries, inbox, pc, cur, fv, processed>>
      /\ UNCHANGED <<engine, samples, lastEmit, published, folds, throttled, faults, losses, strays>>
  BY DEF Close, broker, runVars, engineMem, history, counts
<1>2. TypeOK'
  BY <1>1 DEF TypeOK, IInv
<1> QED BY <1>1, <1>2 DEF IInv, InHand, Settled, AckedIsPublished, PublishedFor, EmitsInTime,
                          EmissionSpacing, LossesAccounted, Missed, Queued

LEMMA RerunKeeps ==
    ASSUME IInv, Rerun
    PROVE  IInv'
<1>1. /\ pc' = "iterate" /\ processed' = 0
      /\ UNCHANGED <<delivery, deliveries, inbox, cur, fv, engine, samples, lastEmit>>
      /\ UNCHANGED <<published, folds, throttled, faults, losses, strays, connection>>
  BY DEF Rerun, broker, engineMem, history, counts
<1>2. TypeOK'
  BY <1>1 DEF TypeOK, IInv
<1> QED BY <1>1, <1>2 DEF IInv, InHand, AckedIsPublished, PublishedFor, EmitsInTime,
                          EmissionSpacing, LossesAccounted, Missed, Queued

(* A new engine has emitted nothing yet.                                    *)
LEMMA RestartKeeps ==
    ASSUME IInv, Restart
    PROVE  IInv'
<1>1. /\ pc' = "iterate" /\ processed' = 0 /\ engine' = engine + 1
      /\ samples' = FreshSamples /\ lastEmit' = FreshLastEmit
      /\ UNCHANGED <<delivery, deliveries, inbox, cur, fv>>
      /\ connection' = "fresh"
      /\ UNCHANGED <<published, folds, throttled, faults, losses, strays>>
  BY DEF Restart, broker, history, counts
<1>2. TypeOK'
  BY <1>1 DEF TypeOK, IInv, FreshSamples, FreshLastEmit
<1>3. EmitsInTime'
  <2>1. \A i \in DOMAIN published : MinEmitInterval # None => published[i].engine <= engine
    BY DEF EmitsInTime, IInv
  <2>2. \A i \in DOMAIN published : published[i].engine \in Nat
    <3>1. published \in Seq(Vector)
      BY DEF TypeOK, IInv
    <3>2. \A i \in DOMAIN published : published[i] \in Vector
      BY <3>1
    <3> QED BY <3>2 DEF Vector
  <2>3. engine \in Nat
    BY DEF TypeOK, IInv
  <2>4. \A i \in DOMAIN published : MinEmitInterval # None =>
           published[i].engine <= engine + 1 /\ published[i].engine # engine + 1
    BY <2>1, <2>2, <2>3
  <2> QED BY <1>1, <2>4 DEF EmitsInTime
<1> QED BY <1>1, <1>2, <1>3 DEF IInv, InHand, AckedIsPublished, PublishedFor,
                                EmissionSpacing, LossesAccounted, Missed, Queued
-------------------------------------------------------------------------------
LEMMA StepKeeps == IInv /\ [Next]_vars => IInv'
<1> SUFFICES ASSUME IInv, [Next]_vars PROVE IInv'
  OBVIOUS
<1> USE DEF Next
<1>1. faults \in Nat
  BY DEF IInv, TypeOK
<1>2. ASSUME NEW m \in Msgs, Deliver(m) PROVE IInv'
  BY <1>2, DeliverKeeps
<1>3. ASSUME NEW m \in Msgs, AckWaitExpires(m) PROVE IInv'
  BY <1>3, AckWaitKeeps
<1>4. CASE Iterate
  BY <1>4, IterateKeeps
<1>5. CASE DecodeRaises
  BY <1>1, <1>5, EscapeKeeps DEF DecodeRaises
<1>6. CASE PublishFeatures
  BY <1>6, PublishKeeps
<1>7. CASE PublishFails
  BY <1>1, <1>7, EscapeKeeps DEF PublishFails
<1>8. CASE Ack
  BY <1>1, <1>8, FinishKeeps DEF Ack
<1>9. CASE AckLost
  BY <1>1, <1>9, FinishKeeps DEF AckLost
<1>10. CASE Cancel
  BY <1>1, <1>10, EscapeKeeps DEF Cancel
<1>11. CASE Crash
  BY <1>1, <1>11, EndKeeps DEF Crash
<1>12. CASE Close
  BY <1>12, CloseKeeps
<1>13. CASE Rerun
  BY <1>13, RerunKeeps
<1>14. CASE Restart
  BY <1>14, RestartKeeps
<1>15. CASE UNCHANGED vars
  BY <1>15 DEF vars, broker, runVars, engineMem, history, counts, IInv, TypeOK, InHand,
               Settled, PublishedFor, AckedIsPublished, EmitsInTime, EmissionSpacing,
               LossesAccounted, Missed, Queued
<1> QED BY <1>2, <1>3, <1>4, <1>5, <1>6, <1>7, <1>8, <1>9, <1>10, <1>11, <1>12, <1>13, <1>14, <1>15

LEMMA Inductive == Spec => []IInv
BY Initially, StepKeeps, PTL DEF Spec

(* No ack before the record is folded and its vector published or withheld, *)
(* for all interleavings of crashes, failed publishes, redeliveries, reruns *)
(* and restarts (sources.py, "acks after the record is folded in").         *)
THEOREM AckAfterPublish == Spec => []AckedIsPublished
<1>1. IInv => AckedIsPublished
  BY DEF IInv
<1> QED BY <1>1, Inductive, PTL

(* The vectors that one engine emits for an entity are an interval apart,   *)
(* in whatever order its records come, and however often run() is rerun on  *)
(* it (engine.py, "at most one FeatureVector per entity per interval").     *)
THEOREM VectorsKeepTheirDistance == Spec => []EmissionSpacing
<1>1. IInv => EmissionSpacing
  BY DEF IInv
<1> QED BY <1>1, Inductive, PTL

(* Each delivery of a record given up unfolded went to a subscription that  *)
(* an earlier run() left bound, or was lost when a run() ended or the       *)
(* broker would not wait (nats-streams.sh, --max-deliver).                  *)
THEOREM NothingGivenUpForNothing == Spec => []GivenUpHasCause
<1>1. IInv => GivenUpHasCause
  BY DEF IInv, LossesAccounted, Missed, GivenUpHasCause
<1> QED BY <1>1, Inductive, PTL
-------------------------------------------------------------------------------
(* What a driver may do.                                                    *)
Commands == [does : {"impair", "clear", "end of burst", "show", "write file"}, wait : Nat]
AllTools == UNION {Tools[x] : x \in Scenario}

(* The sleeps of a live driver up to its i-th command.                      *)
Slept(s, tool, i) ==
    CASE s = "A" -> IF i <= 5 THEN 90 * i ELSE 450
      [] s = "B" -> IF i <= 2 * Cycles THEN 80 * (i \div 2) + 60 * (i % 2) ELSE 80 * Cycles
      [] s = "C" -> 40 * (i \div 2) + 12 * (i % 2)
      [] s = "D" -> IF i <= 1 THEN 0 ELSE 300

DriverTypeOK ==
    /\ calls \in Nat /\ live \in BOOLEAN
    /\ todo \in Seq(Scenario \X AllTools)
    /\ program \in Seq(Commands)
    /\ now \in Nat /\ effect \in Nat /\ lag \in Nat
    /\ labels \in [Scenario -> {NoLabel} \cup [precursor : Nat, fault : Nat, end : Nat]]
    /\ lab \subseteq Scenario /\ leftover \subseteq Scenario /\ dirty \subseteq Scenario

(* A call runs every driver once, and has labelled none of those to come.   *)
QueueOK ==
    /\ \A i \in DOMAIN todo : todo[i][2] \in Tools[todo[i][1]]
    /\ \A i, j \in DOMAIN todo : todo[i][1] = todo[j][1] => i = j
    /\ \A i \in DOMAIN todo : i > 1 => labels[todo[i][1]] = NoLabel

(* What a driver has not labelled in this call, this call has not impaired. *)
LabelledFirst == \A s \in lab : labels[s] = NoLabel => s \in leftover

(* After i commands.                                                        *)
AfterCommands(i) ==
    LET s == AtWork
        full == Program(s, todo[1][2])
    IN /\ program = [n \in 1..(Len(full) - i) |-> full[n + i]]
       /\ labels[s] = Clock(s, labels[s].precursor)
       /\ now = labels[s].precursor + lag + (IF live THEN Slept(s, todo[1][2], i) ELSE 0)
       /\ IF i = 0 THEN s \in lab => s \in leftover ELSE labels[s].precursor <= effect

OnTime ==
    /\ Opened => \E i \in 0..Len(Program(AtWork, todo[1][2])) : AfterCommands(i)
    /\ ~Opened => program = <<>>

(* A target is impaired by a driver that still has its last command to go,  *)
(* or one that was stopped, or whose last command failed.                   *)
Accounted == \A s \in lab \ dirty : live /\ Opened /\ program # <<>> /\ s = AtWork

(* The inductive invariant of the drivers.                                  *)
DInv == DriverTypeOK /\ QueueOK /\ LabelledFirst /\ OnTime /\ Accounted
-------------------------------------------------------------------------------
(* A loop of two steps.                                                     *)
Alternates(p, n, a, b) ==
    /\ p \in Seq(Commands) /\ Len(p) = 2 * n
    /\ \A i \in 1..(2 * n) : p[i] = IF i % 2 = 1 THEN a ELSE b

LEMMA LoopOfTwo ==
    ASSUME NEW n \in Nat, NEW a \in Commands, NEW b \in Commands
    PROVE  Alternates(Loop(n, <<a, b>>), n, a, b)
<1> DEFINE f == [i \in 1..(n * 2) |-> <<a, b>>[((i - 1) % 2) + 1]]
<1>1. Loop(n, <<a, b>>) = f
    <2>1. Len(<<a, b>>) = 2
        OBVIOUS
    <2> QED BY <2>1 DEF Loop
<1>2. n * 2 \in Nat /\ n * 2 = 2 * n
    OBVIOUS
<1>3. ASSUME NEW i \in 1..(2 * n)
      PROVE  f[i] = (IF i % 2 = 1 THEN a ELSE b) /\ f[i] \in Commands
    <2>1. i % 2 = 1 => ((i - 1) % 2) + 1 = 1
        OBVIOUS
    <2>2. i % 2 # 1 => ((i - 1) % 2) + 1 = 2
        OBVIOUS
    <2>3. <<a, b>>[1] = a /\ <<a, b>>[2] = b
        OBVIOUS
    <2> QED BY <1>2, <2>1, <2>2, <2>3
<1>4. f \in [1..(2 * n) -> Commands]
    BY <1>2, <1>3
<1>5. f \in Seq(Commands) /\ Len(f) = 2 * n
    BY <1>2, <1>4
<1>6. \A i \in 1..(2 * n) : f[i] = IF i % 2 = 1 THEN a ELSE b
    BY <1>3
<1> HIDE DEF f
<1> QED BY <1>1, <1>5, <1>6 DEF Alternates

(* What holds of a driver's commands.                                       *)
ProgramOK(s, tool) ==
    LET full == Program(s, tool)
    IN /\ full \in Seq(Commands)
       /\ full # <<>> => full[Len(full)].does \in {"clear", "end of burst"}
       /\ Slept(s, tool, 0) = 0
       /\ \A i \in 1..Len(full) : /\ Slept(s, tool, i) = Slept(s, tool, i - 1) + full[i].wait
                                   /\ Slept(s, tool, i - 1) \in Nat
                                   /\ Slept(s, tool, i) \in 0..Hold[s]

(* The last command of every program takes the impairment back, and a       *)
(* driver sleeps no longer than its label holds.                            *)
LEMMA ProgramsRestore ==
    ASSUME NEW s \in Scenario, NEW tool \in Tools[s]
    PROVE  ProgramOK(s, tool)
<1>1. Cycles \in Nat /\ Bursts \in Nat
    BY DriverAssumption
<1>2. CASE s = "A"
    <2> DEFINE l == [i \in 1..5 |-> Cmd("impair", 90)]
    <2>1. Loop(5, <<Cmd("impair", 90)>>) = l
        <3>1. Len(<<Cmd("impair", 90)>>) = 1 /\ 5 * 1 = 5
            OBVIOUS
        <3>2. \A i \in 1..5 : ((i - 1) % 1) + 1 = 1
            OBVIOUS
        <3>3. Loop(5, <<Cmd("impair", 90)>>) = [i \in 1..5 |-> <<Cmd("impair", 90)>>[((i - 1) % 1) + 1]]
            BY <3>1 DEF Loop
        <3> QED BY <3>2, <3>3
    <2>2. Program(s, tool) = Append(l, Cmd("clear", 0))
        BY <1>2, <2>1 DEF Program, Congestion
    <2>3. l \in Seq(Commands) /\ Len(l) = 5 /\ \A i \in 1..5 : l[i] = Cmd("impair", 90)
        BY DEF Commands, Cmd
    <2>4. /\ Program(s, tool) \in Seq(Commands) /\ Len(Program(s, tool)) = 6
          /\ Program(s, tool)[6] = Cmd("clear", 0)
          /\ \A i \in 1..5 : Program(s, tool)[i] = Cmd("impair", 90)
        <3> HIDE DEF l
        <3>1. Cmd("clear", 0) \in Commands
            BY DEF Cmd, Commands
        <3>2. PICK c \in Commands : c = Cmd("clear", 0)
            BY <3>1
        <3>3. /\ Append(l, c) \in Seq(Commands) /\ Len(Append(l, c)) = Len(l) + 1
              /\ \A i \in 1..Len(l) : Append(l, c)[i] = l[i]
              /\ Append(l, c)[Len(l) + 1] = c
            <4>1. l \in Seq(Commands)
                BY <2>3
            <4> QED BY <3>2, <4>1, AppendProperties
        <3>4. 5 + 1 = 6
            OBVIOUS
        <3> QED BY <2>2, <2>3, <3>2, <3>3, <3>4
    <2>5. Cmd("impair", 90).wait = 90 /\ Cmd("clear", 0).wait = 0 /\ Cmd("clear", 0).does = "clear"
        BY DEF Cmd
    <2>6. \A i \in 0..6 : Slept(s, tool, i) = IF i <= 5 THEN 90 * i ELSE 450
        BY <1>2 DEF Slept
    <2>7. Hold[s] = 450
        BY <1>2 DEF Hold
    <2>8. ASSUME NEW i \in 1..6
          PROVE  /\ Slept(s, tool, i) = Slept(s, tool, i - 1) + Program(s, tool)[i].wait
                 /\ Slept(s, tool, i - 1) \in Nat
                 /\ Slept(s, tool, i) \in 0..Hold[s]
        <3>1. CASE i \in 1..5
            <4>1. Slept(s, tool, i) = 90 * i /\ Slept(s, tool, i - 1) = 90 * (i - 1)
                BY <2>6, <3>1
            <4>2. Program(s, tool)[i].wait = 90
                BY <2>4, <2>5, <3>1
            <4> QED BY <2>7, <3>1, <4>1, <4>2
        <3>2. CASE i = 6
            <4>1. Slept(s, tool, i) = 450 /\ Slept(s, tool, i - 1) = 450
                BY <2>6, <3>2
            <4>2. Program(s, tool)[i].wait = 0
                BY <2>4, <2>5, <3>2
            <4> QED BY <2>7, <4>1, <4>2
        <3> QED BY <3>1, <3>2
    <2>9. Slept(s, tool, 0) = 0
        BY <2>6
    <2> QED BY <2>4, <2>5, <2>8, <2>9 DEF ProgramOK
<1>3. CASE s = "B" /\ tool = "exabgp"
    <2>1. Program(s, tool) = <<>>
        BY <1>3 DEF Program, BgpFlap
    <2>2. Slept(s, tool, 0) = 0
        BY <1>1, <1>3 DEF Slept
    <2> QED BY <2>1, <2>2 DEF ProgramOK
<1>4. CASE s = "B" /\ tool # "exabgp"
    <2> DEFINE l == Loop(Cycles, <<Cmd("clear", 60), Cmd("impair", 20)>>)
    <2>1. Program(s, tool) = Append(l, Cmd("clear", 0))
        BY <1>4 DEF Program, BgpFlap
    <2>2. Cmd("clear", 60) \in Commands /\ Cmd("impair", 20) \in Commands /\ Cmd("clear", 0) \in Commands
        BY DEF Cmd, Commands
    <2>3. /\ l \in Seq(Commands) /\ Len(l) = 2 * Cycles
          /\ \A i \in 1..(2 * Cycles) : l[i] = IF i % 2 = 1 THEN Cmd("clear", 60) ELSE Cmd("impair", 20)
        <3>1. PICK a \in Commands, b \in Commands : a = Cmd("clear", 60) /\ b = Cmd("impair", 20)
            BY <2>2
        <3>2. l = Loop(Cycles, <<a, b>>)
            BY <3>1
        <3>3. Alternates(l, Cycles, a, b)
            <4> HIDE DEF l
            <4> QED BY <1>1, <3>2, LoopOfTwo
        <3> QED BY <3>1, <3>3 DEF Alternates
    <2>4. /\ Program(s, tool) \in Seq(Commands) /\ Len(Program(s, tool)) = 2 * Cycles + 1
          /\ Program(s, tool)[2 * Cycles + 1] = Cmd("clear", 0)
          /\ \A i \in 1..(2 * Cycles) :
                Program(s, tool)[i] = IF i % 2 = 1 THEN Cmd("clear", 60) ELSE Cmd("impair", 20)
        <3> HIDE DEF l
        <3> QED BY <1>1, <2>1, <2>2, <2>3, AppendProperties
    <2>5. /\ Cmd("clear", 60).wait = 60 /\ Cmd("impair", 20).wait = 20
          /\ Cmd("clear", 0).wait = 0 /\ Cmd("clear", 0).does = "clear"
        BY DEF Cmd
    <2>6. \A i \in 0..(2 * Cycles + 1) : Slept(s, tool, i) = IF i <= 2 * Cycles THEN 80 * (i \div 2) + 60 * (i % 2) ELSE 80 * Cycles
        BY <1>4 DEF Slept
    <2>7. Hold[s] = 80 * Cycles
        BY <1>1, <1>4 DEF Hold
    <2>8. ASSUME NEW i \in 1..(2 * Cycles + 1)
          PROVE  /\ Slept(s, tool, i) = Slept(s, tool, i - 1) + Program(s, tool)[i].wait
                 /\ Slept(s, tool, i - 1) \in Nat
                 /\ Slept(s, tool, i) \in 0..Hold[s]
        <3>1. CASE i = 2 * Cycles + 1
            <4>1. i - 1 = 2 * Cycles /\ (i - 1) \div 2 = Cycles /\ (i - 1) % 2 = 0
                BY <1>1, <3>1
            <4>2. Slept(s, tool, i) = 80 * Cycles
                BY <1>1, <2>6, <3>1
            <4>3. Slept(s, tool, i - 1) = 80 * Cycles
                BY <1>1, <2>6, <4>1
            <4>4. Program(s, tool)[i].wait = 0
                BY <2>4, <2>5, <3>1
            <4> QED BY <1>1, <2>7, <4>2, <4>3, <4>4
        <3>2. CASE i # 2 * Cycles + 1 /\ i % 2 = 1
            <4>1. PICK k \in 0..(Cycles - 1) : i = 2 * k + 1
                BY <1>1, <3>2
            <4>2. /\ i \in 1..(2 * Cycles) /\ i \div 2 = k /\ i % 2 = 1
                  /\ i - 1 = 2 * k /\ (i - 1) \div 2 = k /\ (i - 1) % 2 = 0
                BY <1>1, <4>1
            <4>3. Slept(s, tool, i) = 80 * k + 60 /\ Slept(s, tool, i - 1) = 80 * k
                BY <1>1, <2>6, <4>2
            <4>4. Program(s, tool)[i].wait = 60
                BY <2>4, <2>5, <4>2
            <4> QED BY <1>1, <2>7, <4>3, <4>4
        <3>3. CASE i # 2 * Cycles + 1 /\ i % 2 = 0
            <4>0. (i \div 2) - 1 \in 0..(Cycles - 1) /\ i = 2 * ((i \div 2) - 1) + 2
                BY <1>1, <3>3
            <4>1. PICK k \in 0..(Cycles - 1) : i = 2 * k + 2
                BY <4>0
            <4>2. /\ i \in 1..(2 * Cycles) /\ i \div 2 = k + 1 /\ i % 2 = 0
                  /\ i - 1 = 2 * k + 1 /\ (i - 1) \div 2 = k /\ (i - 1) % 2 = 1
                BY <1>1, <4>1
            <4>3. Slept(s, tool, i) = 80 * k + 80 /\ Slept(s, tool, i - 1) = 80 * k + 60
                BY <1>1, <2>6, <4>2
            <4>4. Program(s, tool)[i].wait = 20
                BY <2>4, <2>5, <4>2
            <4> QED BY <1>1, <2>7, <4>3, <4>4
        <3> QED BY <3>1, <3>2, <3>3
    <2>9. Slept(s, tool, 0) = 0
        BY <1>1, <2>6
    <2> QED BY <1>1, <2>4, <2>5, <2>8, <2>9 DEF ProgramOK
<1>5. CASE s = "C"
    <2>1. Program(s, tool) = Loop(Bursts, <<Cmd("impair", 12), Cmd("end of burst", 28)>>)
        BY <1>5 DEF Program, Tunnel
    <2>2. Cmd("impair", 12) \in Commands /\ Cmd("end of burst", 28) \in Commands
        BY DEF Cmd, Commands
    <2>3. /\ Program(s, tool) \in Seq(Commands) /\ Len(Program(s, tool)) = 2 * Bursts
          /\ \A i \in 1..(2 * Bursts) :
                Program(s, tool)[i] = IF i % 2 = 1 THEN Cmd("impair", 12) ELSE Cmd("end of burst", 28)
        <3>1. PICK a \in Commands, b \in Commands : a = Cmd("impair", 12) /\ b = Cmd("end of burst", 28)
            BY <2>2
        <3>2. Program(s, tool) = Loop(Bursts, <<a, b>>)
            BY <2>1, <3>1
        <3>3. Alternates(Program(s, tool), Bursts, a, b)
            BY <1>1, <3>2, LoopOfTwo
        <3> QED BY <3>1, <3>3 DEF Alternates
    <2>4. /\ Cmd("impair", 12).wait = 12 /\ Cmd("end of burst", 28).wait = 28
          /\ Cmd("end of burst", 28).does = "end of burst"
        BY DEF Cmd
    <2>5. \A i \in 0..(2 * Bursts) : Slept(s, tool, i) = 40 * (i \div 2) + 12 * (i % 2)
        BY <1>5 DEF Slept
    <2>6. Hold[s] = 40 * Bursts
        BY <1>1, <1>5 DEF Hold
    <2>7. ASSUME NEW i \in 1..(2 * Bursts)
          PROVE  /\ Slept(s, tool, i) = Slept(s, tool, i - 1) + Program(s, tool)[i].wait
                 /\ Slept(s, tool, i - 1) \in Nat
                 /\ Slept(s, tool, i) \in 0..Hold[s]
        <3>1. CASE i % 2 = 1
            <4>1. PICK k \in 0..(Bursts - 1) : i = 2 * k + 1
                BY <1>1, <3>1
            <4>2. /\ i \div 2 = k /\ i % 2 = 1
                  /\ i - 1 = 2 * k /\ (i - 1) \div 2 = k /\ (i - 1) % 2 = 0
                BY <1>1, <4>1
            <4>3. Slept(s, tool, i) = 40 * k + 12 /\ Slept(s, tool, i - 1) = 40 * k
                <5>1. i \in 0..(2 * Bursts) /\ i - 1 \in 0..(2 * Bursts)
                    BY <1>1
                <5>2. Slept(s, tool, i) = 40 * (i \div 2) + 12 * (i % 2)
                    BY <2>5, <5>1
                <5>3. Slept(s, tool, i - 1) = 40 * ((i - 1) \div 2) + 12 * ((i - 1) % 2)
                    BY <2>5, <5>1
                <5> QED BY <4>2, <5>2, <5>3
            <4>4. Program(s, tool)[i].wait = 12
                BY <2>3, <2>4, <4>2
            <4> QED BY <1>1, <2>6, <4>3, <4>4
        <3>2. CASE i % 2 = 0
            <4>0. (i \div 2) - 1 \in 0..(Bursts - 1) /\ i = 2 * ((i \div 2) - 1) + 2
                BY <1>1, <3>2
            <4>1. PICK k \in 0..(Bursts - 1) : i = 2 * k + 2
                BY <4>0
            <4>2. /\ i \div 2 = k + 1 /\ i % 2 = 0
                  /\ i - 1 = 2 * k + 1 /\ (i - 1) \div 2 = k /\ (i - 1) % 2 = 1
                BY <1>1, <4>1
            <4>3. Slept(s, tool, i) = 40 * k + 40 /\ Slept(s, tool, i - 1) = 40 * k + 12
                <5>1. i \in 0..(2 * Bursts) /\ i - 1 \in 0..(2 * Bursts)
                    BY <1>1
                <5>2. Slept(s, tool, i) = 40 * (i \div 2) + 12 * (i % 2)
                    BY <2>5, <5>1
                <5>3. Slept(s, tool, i - 1) = 40 * ((i - 1) \div 2) + 12 * ((i - 1) % 2)
                    BY <2>5, <5>1
                <5> QED BY <4>2, <5>2, <5>3
            <4>4. Program(s, tool)[i].wait = 28
                <5>1. i % 2 # 1
                    BY <4>2
                <5>2. Program(s, tool)[i] = Cmd("end of burst", 28)
                    BY <2>3, <5>1, Zenon
                <5> QED BY <2>4, <5>2
            <4> QED BY <1>1, <2>6, <4>3, <4>4
        <3> QED BY <3>1, <3>2
    <2>8. Slept(s, tool, 0) = 0
        BY <1>1, <2>5
    <2>9. Program(s, tool) # <<>> => Program(s, tool)[Len(Program(s, tool))] = Cmd("end of burst", 28)
        <3>1. 2 * Bursts # 0 => 2 * Bursts \in 1..(2 * Bursts) /\ (2 * Bursts) % 2 = 0
            BY <1>1
        <3>2. Program(s, tool) # <<>> => 2 * Bursts # 0
            BY <2>3, EmptySeq
        <3>3. Program(s, tool) # <<>> => 2 * Bursts \in 1..(2 * Bursts)
            BY <3>1, <3>2
        <3>4. Program(s, tool) # <<>> => Program(s, tool)[2 * Bursts] = Cmd("end of burst", 28)
            <4> SUFFICES ASSUME Program(s, tool) # <<>> PROVE Program(s, tool)[2 * Bursts] = Cmd("end of burst", 28)
                OBVIOUS
            <4>1. PICK i \in 1..(2 * Bursts) : i = 2 * Bursts /\ i % 2 = 0
                BY <3>1, <3>2, <3>3
            <4>2. Program(s, tool)[i] = Cmd("end of burst", 28)
                <5>1. i % 2 # 1
                    BY <4>1
                <5> QED BY <2>3, <5>1, Zenon
            <4> QED BY <4>1, <4>2
        <3> QED BY <2>3, <3>4
    <2> QED BY <2>3, <2>4, <2>7, <2>8, <2>9 DEF ProgramOK
<1>6. CASE s = "D"
    <2> DEFINE does == IF tool = "vtysh" THEN "impair" ELSE "write file"
    <2>1. Program(s, tool) = <<Cmd("show", 0), Cmd(does, 300), Cmd("clear", 0)>>
        BY <1>6 DEF Program, Drift
    <2>2. {Cmd("show", 0), Cmd(does, 300), Cmd("clear", 0)} \subseteq Commands
        BY DEF Cmd, Commands
    <2>3. /\ Cmd("show", 0).wait = 0 /\ Cmd(does, 300).wait = 300
          /\ Cmd("clear", 0).wait = 0 /\ Cmd("clear", 0).does = "clear"
        BY DEF Cmd
    <2>4. \A i \in 0..3 : Slept(s, tool, i) = IF i <= 1 THEN 0 ELSE 300
        BY <1>6 DEF Slept
    <2>5. Hold[s] = 300
        BY <1>6 DEF Hold
    <2>6. /\ Program(s, tool) \in Seq(Commands) /\ Len(Program(s, tool)) = 3
          /\ Program(s, tool)[1] = Cmd("show", 0) /\ Program(s, tool)[2] = Cmd(does, 300)
          /\ Program(s, tool)[3] = Cmd("clear", 0)
        <3> HIDE DEF does
        <3> QED BY <2>1, <2>2
    <2> HIDE DEF does
    <2>7. ASSUME NEW i \in 1..3
          PROVE  /\ Slept(s, tool, i) = Slept(s, tool, i - 1) + Program(s, tool)[i].wait
                 /\ Slept(s, tool, i - 1) \in Nat
                 /\ Slept(s, tool, i) \in 0..Hold[s]
        <3>1. i = 1 \/ i = 2 \/ i = 3
            OBVIOUS
        <3> QED BY <2>3, <2>4, <2>5, <2>6, <3>1
    <2>8. Slept(s, tool, 0) = 0
        BY <2>4
    <2>9. 1..Len(Program(s, tool)) = 1..3 /\ Program(s, tool)[Len(Program(s, tool))].does = "clear"
        BY <2>3, <2>6
    <2> QED BY <2>6, <2>7, <2>8, <2>9, Zenon DEF ProgramOK
<1> QED BY <1>2, <1>3, <1>4, <1>5, <1>6 DEF Scenario
-------------------------------------------------------------------------------
LEMMA QueuesOK ==
    ASSUME NEW q \in Queues
    PROVE  /\ q \in Seq(Scenario \X AllTools)
           /\ \A i \in DOMAIN q : q[i][2] \in Tools[q[i][1]]
           /\ \A i, j \in DOMAIN q : q[i][1] = q[j][1] => i = j
<1>1. CASE q = RunAll
    <2>1. DOMAIN q = 1..4 /\ q[1] = <<"A", "tc">> /\ q[2] = <<"B", "clab">> /\ q[3] = <<"C", "pumba">>
             /\ q[4] = <<"D", "vtysh">>
        BY <1>1 DEF RunAll
    <2>2. {<<"A", "tc">>, <<"B", "clab">>, <<"C", "pumba">>, <<"D", "vtysh">>} \subseteq Scenario \X AllTools
        BY DEF Scenario, AllTools, Tools
    <2>3. q \in Seq(Scenario \X AllTools)
        BY <1>1, <2>2 DEF RunAll
    <2>4. "clab" \in Tools["B"] /\ "tc" \in Tools["A"] /\ "pumba" \in Tools["C"] /\ "vtysh" \in Tools["D"]
        BY DEF Tools
    <2>5. \A i \in 1..4 : i = 1 \/ i = 2 \/ i = 3 \/ i = 4
        OBVIOUS
    <2>6. \A i \in DOMAIN q : q[i][2] \in Tools[q[i][1]]
        BY <2>1, <2>4, <2>5
    <2>7. \A i, j \in DOMAIN q : q[i][1] = q[j][1] => i = j
        BY <2>1, <2>5
    <2> QED BY <2>3, <2>6, <2>7
<1>2. CASE q # RunAll
    <2>1. PICK s \in Scenario, tool \in AllTools : q = <<<<s, tool>>>> /\ q[1][2] \in Tools[q[1][1]]
        BY <1>2 DEF Queues, Single, AllTools
    <2>2. q \in Seq(Scenario \X AllTools) /\ DOMAIN q = 1..1
        BY <2>1
    <2> QED BY <2>1, <2>2
<1> QED BY <1>1, <1>2

LEMMA AtWorkOK ==
    ASSUME DriverTypeOK, QueueOK, todo # <<>>
    PROVE  /\ AtWork = todo[1][1] /\ AtWork \in Scenario
           /\ 1 \in DOMAIN todo /\ todo[1][2] \in Tools[AtWork]
           /\ ProgramOK(AtWork, todo[1][2])
<1>1. todo \in Seq(Scenario \X AllTools) /\ 1 \in DOMAIN todo
    BY DEF DriverTypeOK
<1>2. AtWork = todo[1][1] /\ AtWork \in Scenario
    BY <1>1 DEF AtWork
<1>3. todo[1][2] \in Tools[AtWork]
    BY <1>1, <1>2 DEF QueueOK
<1> QED BY <1>1, <1>2, <1>3, ProgramsRestore

(* A label is one.                                                          *)
LEMMA ClockOK ==
    ASSUME NEW s \in Scenario, NEW t \in Nat
    PROVE  /\ Clock(s, t) \in [precursor : Nat, fault : Nat, end : Nat]
           /\ Clock(s, t) # NoLabel
           /\ Clock(s, t).precursor = t
           /\ Clock(s, t).end = t + Precursor[s] + Hold[s]
           /\ Precursor[s] \in Nat /\ Hold[s] \in Nat
<1>1. Cycles \in Nat /\ Bursts \in Nat
    BY DriverAssumption
<1>2. Precursor[s] \in Nat /\ Hold[s] \in Nat
    BY <1>1 DEF Precursor, Hold, Scenario
<1>3. /\ Clock(s, t) \in [precursor : Nat, fault : Nat, end : Nat]
      /\ Clock(s, t).precursor = t /\ Clock(s, t).end = t + Precursor[s] + Hold[s]
    BY <1>2 DEF Clock
<1> QED BY <1>2, <1>3, NoLabelAssumption

(* The commands left after i of them, and after the next.                   *)
Left(full, i) == [n \in 1..(Len(full) - i) |-> full[n + i]]

LEMMA LeftShrinks ==
    ASSUME NEW full \in Seq(Commands), NEW i \in 0..Len(full)
    PROVE  /\ Left(full, 0) = full
           /\ Left(full, i) \in Seq(Commands) /\ Len(Left(full, i)) = Len(full) - i
           /\ Left(full, i) # <<>> => /\ i + 1 \in 1..Len(full)
                                     /\ Head(Left(full, i)) = full[i + 1]
                                     /\ Tail(Left(full, i)) = Left(full, i + 1)
<1>1. Len(full) \in Nat
    OBVIOUS
<1>2. Left(full, 0) = full
    BY DEF Left
<1>3. /\ Left(full, i) \in Seq(Commands) /\ Len(Left(full, i)) = Len(full) - i
      /\ \A n \in 1..(Len(full) - i) : Left(full, i)[n] = full[n + i]
    BY <1>1 DEF Left
<1>4. ASSUME Left(full, i) # <<>>
      PROVE  i + 1 \in 1..Len(full) /\ Head(Left(full, i)) = full[i + 1]
    BY <1>1, <1>3, <1>4
<1>5. ASSUME Left(full, i) # <<>>
      PROVE  Tail(Left(full, i)) = Left(full, i + 1)
    <2>1. i + 1 \in 0..Len(full)
        BY <1>1, <1>4, <1>5
    <2>2. /\ Left(full, i + 1) \in Seq(Commands) /\ Len(Left(full, i + 1)) = Len(full) - (i + 1)
          /\ \A n \in 1..(Len(full) - (i + 1)) : Left(full, i + 1)[n] = full[n + (i + 1)]
        BY <1>1, <2>1 DEF Left
    <2>3. /\ Tail(Left(full, i)) \in Seq(Commands)
          /\ Len(Tail(Left(full, i))) = Len(full) - (i + 1)
          /\ \A n \in 1..(Len(full) - (i + 1)) : Tail(Left(full, i))[n] = Left(full, i)[n + 1]
        BY <1>1, <1>3, <1>5, <2>1, HeadTailProperties
    <2>4. \A n \in 1..(Len(full) - (i + 1)) : Tail(Left(full, i))[n] = Left(full, i + 1)[n]
        <3> SUFFICES ASSUME NEW n \in 1..(Len(full) - (i + 1))
                     PROVE  Tail(Left(full, i))[n] = Left(full, i + 1)[n]
            OBVIOUS
        <3>1. n + 1 \in 1..(Len(full) - i) /\ (n + 1) + i = n + (i + 1)
            BY <1>1, <2>1
        <3> QED BY <1>3, <2>2, <2>3, <3>1
    <2> QED BY <2>2, <2>3, <2>4, SeqEqual
<1> QED BY <1>2, <1>3, <1>4, <1>5
-------------------------------------------------------------------------------
LEMMA DriverInitially == DriverInit => DInv
<1> SUFFICES ASSUME DriverInit PROVE DInv
    OBVIOUS
<1> USE DEF DriverInit
<1>1. DriverTypeOK
    <2>1. todo \in Seq(Scenario \X AllTools) /\ program \in Seq(Commands)
        BY EmptySeq
    <2>2. labels \in [Scenario -> {NoLabel} \cup [precursor : Nat, fault : Nat, end : Nat]]
        OBVIOUS
    <2> QED BY <2>1, <2>2 DEF DriverTypeOK
<1>2. QueueOK
    BY DEF QueueOK
<1>3. LabelledFirst /\ OnTime /\ Accounted
    BY DEF LabelledFirst, OnTime, Accounted, Opened
<1> QED BY <1>1, <1>2, <1>3 DEF DInv

LEMMA CallKeeps ==
    ASSUME DInv, NEW queue \in Queues, NEW run \in BOOLEAN, Call(queue, run)
    PROVE  DInv'
<1> USE DEF Call
<1>1. DriverTypeOK'
    BY QueuesOK DEF DInv, DriverTypeOK
<1>2. QueueOK'
    <2>1. \A i \in DOMAIN queue : queue[i][1] \in Scenario
        BY QueuesOK
    <2> QED BY <2>1, QueuesOK DEF QueueOK
<1>3. LabelledFirst'
    BY DEF LabelledFirst
<1>4. ~Opened /\ ~Opened'
    <2>1. todo' # <<>> => AtWork' \in Scenario
        <3>1. DriverTypeOK' /\ QueueOK'
            BY <1>1, <1>2
        <3> QED BY <3>1, QueuesOK DEF AtWork
    <2> QED BY <2>1 DEF Opened
<1>5. OnTime' /\ Accounted'
    BY <1>4 DEF DInv, OnTime, Accounted
<1> QED BY <1>1, <1>2, <1>3, <1>5 DEF DInv

LEMMA OpenLabelKeeps ==
    ASSUME DInv, OpenLabel
    PROVE  DInv'
<1> USE DEF OpenLabel
<1> DEFINE s == AtWork
           tool == todo[1][2]
<1>0. /\ todo # <<>> /\ AtWork' = s /\ s = todo[1][1] /\ s \in Scenario
      /\ 1 \in DOMAIN todo /\ ProgramOK(s, tool) /\ now \in Nat
    BY AtWorkOK DEF DInv, AtWork, DriverTypeOK
<1>1. labels' = [labels EXCEPT ![s] = Clock(s, now)] /\ labels'[s] = Clock(s, now)
    BY <1>0 DEF DInv, DriverTypeOK
<1>2. DriverTypeOK'
    <2>1. labels' \in [Scenario -> {NoLabel} \cup [precursor : Nat, fault : Nat, end : Nat]]
        BY <1>0, <1>1, ClockOK DEF DInv, DriverTypeOK
    <2>2. program' \in Seq(Commands)
        BY <1>0 DEF ProgramOK
    <2>3. lag' \in Nat
        OBVIOUS
    <2> QED BY <2>1, <2>2, <2>3 DEF DInv, DriverTypeOK
<1>3. QueueOK'
    <2> SUFFICES ASSUME NEW i \in DOMAIN todo, i > 1 PROVE labels'[todo[i][1]] = NoLabel
        BY DEF DInv, QueueOK
    <2>1. todo[i][1] # s /\ todo[i][1] \in Scenario
        BY <1>0 DEF DInv, QueueOK, DriverTypeOK
    <2> QED BY <1>1, <2>1 DEF DInv, QueueOK, DriverTypeOK
<1>4. labels[s] = NoLabel
    BY <1>0 DEF Opened
<1>5. LabelledFirst'
    BY <1>0, <1>1, ClockOK DEF DInv, LabelledFirst, DriverTypeOK
<1>6. Opened'
    BY <1>0, <1>1, ClockOK DEF Opened
<1>7. OnTime'
    <2>1. /\ Program(s, tool) \in Seq(Commands) /\ Slept(s, tool, 0) = 0
          /\ 0 \in 0..Len(Program(s, tool)) /\ Left(Program(s, tool), 0) = Program(s, tool)
        <3>1. Program(s, tool) \in Seq(Commands) /\ Slept(s, tool, 0) = 0
            BY <1>0 DEF ProgramOK
        <3>2. Len(Program(s, tool)) \in Nat
            BY <3>1, LenProperties
        <3>3. 0 \in 0..Len(Program(s, tool))
            BY <3>2
        <3> QED BY <3>1, <3>3, LeftShrinks
    <2>2. labels'[s] = Clock(s, labels'[s].precursor) /\ labels'[s].precursor = now
        BY <1>0, <1>1, ClockOK
    <2>3. s \in lab => s \in leftover
        BY <1>4 DEF DInv, LabelledFirst
    <2>4. now = now + 0 + 0
        BY <1>0
    <2>5. AfterCommands(0)'
        BY <1>0, <2>1, <2>2, <2>3, <2>4 DEF AfterCommands, Left
    <2> QED BY <1>0, <1>6, <2>1, <2>5 DEF OnTime
<1>8. Accounted'
    BY DEF DInv, Accounted
<1> QED BY <1>2, <1>3, <1>5, <1>7, <1>8 DEF DInv

LEMMA CommandKeeps ==
    ASSUME DInv, NEW delay \in Delays, NEW works \in BOOLEAN, Command(delay, works)
    PROVE  DInv'
<1> DEFINE s == AtWork
           tool == todo[1][2]
           full == Program(s, tool)
           c == Head(program)
<1>0. delay \in Nat /\ Opened /\ todo # <<>> /\ program # <<>> /\ labels[s] # NoLabel
    BY DriverAssumption DEF Command, Opened
<1>1. /\ AtWork' = s /\ s = todo[1][1] /\ s \in Scenario
      /\ ProgramOK(s, tool) /\ Opened' /\ todo' = todo
    BY <1>0, AtWorkOK DEF DInv, AtWork, Command, Opened
<1>2. PICK i \in 0..Len(full) : AfterCommands(i)
    BY <1>0 DEF DInv, OnTime
<1>3. full \in Seq(Commands) /\ program = Left(full, i)
    BY <1>1, <1>2 DEF AfterCommands, Left, ProgramOK
<1>4. /\ i + 1 \in 1..Len(full) /\ c = full[i + 1] /\ Tail(program) = Left(full, i + 1)
      /\ Len(program) = Len(full) - i /\ c \in Commands
      /\ i + 1 \in 0..Len(full) /\ (i + 1) - 1 = i /\ i + 1 # 0
    <2> HIDE DEF full
    <2>1. /\ i + 1 \in 1..Len(full) /\ c = full[i + 1] /\ Tail(program) = Left(full, i + 1)
          /\ Len(program) = Len(full) - i
        BY <1>0, <1>3, LeftShrinks
    <2> QED BY <1>3, <2>1
<1>5. DriverTypeOK'
    <2>1. Tail(program) \in Seq(Commands)
        BY <1>3, <1>4, LeftShrinks
    <2>2. c.wait \in Nat
        BY <1>4 DEF Commands
    <2>3. lab' \subseteq Scenario /\ dirty' \subseteq Scenario
        BY <1>1 DEF DInv, DriverTypeOK, Command, LabAfter
    <2>4. now' \in Nat /\ effect' \in Nat /\ lag' \in Nat
        <3>1. now \in Nat /\ lag \in Nat
            BY DEF DInv, DriverTypeOK
        <3>2. effect' = now + delay /\ lag' = lag + delay
              /\ (now' = now + delay + c.wait \/ now' = now + delay + 0)
            BY DEF Command
        <3> QED BY <1>0, <2>2, <3>1, <3>2
    <2> QED BY <1>1, <2>1, <2>3, <2>4 DEF DInv, DriverTypeOK, Command
<1>6. QueueOK'
    BY <1>1 DEF DInv, QueueOK, Command
<1>7. lab' \subseteq lab \cup {s}
    BY DEF Command, LabAfter
<1>8. LabelledFirst'
    BY <1>0, <1>7 DEF DInv, LabelledFirst, Command
<1>9. OnTime'
    <2>1. /\ Slept(s, tool, i + 1) = Slept(s, tool, i) + c.wait
          /\ Slept(s, tool, i) \in Nat
        BY <1>1, <1>4 DEF ProgramOK
    <2>2. /\ labels[s] = Clock(s, labels[s].precursor)
          /\ now = labels[s].precursor + lag + (IF live THEN Slept(s, tool, i) ELSE 0)
        BY <1>2 DEF AfterCommands
    <2>3. labels[s].precursor \in Nat /\ lag \in Nat /\ now \in Nat /\ c.wait \in Nat /\ live \in BOOLEAN
        BY <1>0, <1>1, <1>4 DEF DInv, DriverTypeOK, Commands
    <2>4. /\ now' = now + delay + (IF live THEN c.wait ELSE 0)
          /\ lag' = lag + delay /\ effect' = now + delay
          /\ program' = Tail(program) /\ labels' = labels /\ live' = live
        BY DEF Command
    <2>5. PICK p \in Nat, a \in Nat, w \in Nat :
              p = labels[s].precursor /\ a = Slept(s, tool, i) /\ w = c.wait
        BY <2>1, <2>3
    <2>6. PICK b \in Nat, v \in Nat : b = (IF live THEN a ELSE 0) /\ v = (IF live THEN w ELSE 0)
        OBVIOUS
    <2>7. now = p + lag + b /\ now' = now + delay + v
        BY <2>2, <2>4, <2>5, <2>6
    <2>8. now' = p + (lag + delay) + (b + v) /\ p <= now + delay
        BY <1>0, <2>3, <2>7, SMTT(30)
    <2>9. b + v = IF live THEN a + w ELSE 0
        BY <2>6
    <2>10. now' = labels[s].precursor + lag' + (IF live THEN Slept(s, tool, i + 1) ELSE 0)
        BY <2>1, <2>4, <2>5, <2>8, <2>9
    <2>11. labels[s].precursor <= effect'
        BY <2>4, <2>5, <2>8
    <2>12. AfterCommands(i + 1)'
        BY <1>1, <1>4, <2>2, <2>4, <2>10, <2>11 DEF AfterCommands, Left
    <2> QED BY <1>1, <1>4, <2>12 DEF OnTime
<1>10. Accounted'
    <2> SUFFICES ASSUME NEW x \in lab' \ dirty'
                 PROVE  live' /\ Opened' /\ program' # <<>> /\ x = AtWork'
        BY DEF Accounted
    <2>1. live
        BY DEF DInv, Accounted, Command
    <2>2. \A y \in lab \ dirty : y = s
        BY DEF DInv, Accounted
    <2>3. CASE Len(program) > 1
        <3>1. dirty' = dirty /\ live' = live /\ program' = Tail(program)
            BY <2>3 DEF Command
        <3>2. x = s
            BY <1>7, <2>2, <3>1
        <3>3. Len(Tail(program)) = Len(program) - 1 /\ Len(program) \in Nat
            BY <1>0, <1>3, <1>4, LeftShrinks
        <3>4. Tail(program) # <<>>
            <4>1. Len(Tail(program)) # 0
                <5>1. PICK m \in Nat : m = Len(program) /\ m > 1 /\ Len(Tail(program)) = m - 1
                    BY <2>3, <3>3, Zenon
                <5> QED BY <5>1
            <4>2. Len(<<>>) = 0
                OBVIOUS
            <4> QED BY <4>1, <4>2
        <3> QED BY <1>1, <2>1, <3>1, <3>2, <3>4
    <2>4. CASE ~(Len(program) > 1)
        <3>1. i + 1 = Len(full)
            BY <1>3, <1>4, <2>4
        <3>2. c.does \in {"clear", "end of burst"}
            BY <1>1, <1>4, <3>1 DEF ProgramOK
        <3>3. CASE works
            <4>1. lab' = lab \ {s} /\ dirty' = dirty \ {s}
                BY <2>1, <2>4, <3>2, <3>3 DEF Command, LabAfter
            <4> QED BY <2>2, <4>1
        <3>4. CASE ~works
            <4>1. lab' = lab /\ dirty' = dirty \cup {s}
                BY <2>1, <2>4, <3>4 DEF Command
            <4> QED BY <2>2, <4>1
        <3> QED BY <3>3, <3>4
    <2> QED BY <2>3, <2>4
<1> QED BY <1>5, <1>6, <1>8, <1>9, <1>10 DEF DInv

LEMMA ReturnKeeps ==
    ASSUME DInv, Return
    PROVE  DInv'
<1> USE DEF Return
<1>0. todo # <<>> /\ todo \in Seq(Scenario \X AllTools) /\ todo' = Tail(todo)
    BY DEF Opened, DInv, DriverTypeOK
<1>1. /\ todo' \in Seq(Scenario \X AllTools) /\ Len(todo') = Len(todo) - 1 /\ Len(todo) \in Nat
      /\ \A i \in DOMAIN todo' : i + 1 \in DOMAIN todo /\ todo'[i] = todo[i + 1] /\ i + 1 > 1 /\ i \in Nat
    BY <1>0, HeadTailProperties
<1>2. DriverTypeOK'
    BY <1>1 DEF DInv, DriverTypeOK
<1>3. QueueOK'
    <2>1. \A i \in DOMAIN todo' : todo'[i][2] \in Tools[todo'[i][1]]
        BY <1>1 DEF DInv, QueueOK
    <2>2. \A i, j \in DOMAIN todo' : todo'[i][1] = todo'[j][1] => i = j
        <3> SUFFICES ASSUME NEW i \in DOMAIN todo', NEW j \in DOMAIN todo', todo'[i][1] = todo'[j][1]
                     PROVE  i = j
            OBVIOUS
        <3>1. i + 1 = j + 1
            BY <1>1 DEF DInv, QueueOK
        <3> QED BY <1>1, <3>1
    <2>3. \A i \in DOMAIN todo' : labels'[todo'[i][1]] = NoLabel
        BY <1>1 DEF DInv, QueueOK
    <2> QED BY <2>1, <2>2, <2>3 DEF QueueOK
<1>4. ~Opened'
    <2> SUFFICES ASSUME todo' # <<>> PROVE labels'[AtWork'] = NoLabel
        BY DEF Opened
    <2>1. 1 \in DOMAIN todo' /\ AtWork' = todo'[1][1]
        BY <1>1 DEF AtWork
    <2> QED BY <1>1, <2>1 DEF DInv, QueueOK
<1>5. LabelledFirst' /\ OnTime' /\ Accounted'
    BY <1>4 DEF DInv, LabelledFirst, OnTime, Accounted
<1> QED BY <1>2, <1>3, <1>5 DEF DInv

LEMMA InterruptKeeps ==
    ASSUME DInv, Interrupt
    PROVE  DInv'
<1> USE DEF Interrupt
<1>0. AtWork \in Scenario
    BY AtWorkOK DEF DInv, Opened
<1>1. DriverTypeOK'
    BY <1>0 DEF DInv, DriverTypeOK
<1>2. QueueOK'
    BY DEF QueueOK
<1>3. LabelledFirst'
    BY DEF DInv, LabelledFirst
<1>4. OnTime'
    BY DEF OnTime, Opened
<1>5. Accounted'
    BY DEF DInv, Accounted
<1> QED BY <1>1, <1>2, <1>3, <1>4, <1>5 DEF DInv

LEMMA DriverStepKeeps == DInv /\ [DriverNext]_driverVars => DInv'
<1> SUFFICES ASSUME DInv, [DriverNext]_driverVars PROVE DInv'
    OBVIOUS
<1>1. CASE UNCHANGED driverVars
    BY <1>1 DEF driverVars, DInv, DriverTypeOK, QueueOK, LabelledFirst, OnTime, AfterCommands, Accounted, Opened, AtWork
<1> QED BY <1>1, CallKeeps, OpenLabelKeeps, CommandKeeps, ReturnKeeps, InterruptKeeps DEF DriverNext

LEMMA DriverInductive == DriverSpec => []DInv
BY DriverInitially, DriverStepKeeps, PTL DEF DriverSpec

(* Between calls, only what a driver left behind that was interrupted, or   *)
(* whose last command failed, is still impaired, whatever commands failed   *)
(* before that (sim/faults, the last command of every main()).              *)
THEOREM LabRestored == DriverSpec => []LabIsRestored
<1>1. DInv => LabIsRestored
    BY DEF DInv, Accounted, Opened, LabIsRestored
<1> QED BY <1>1, DriverInductive, PTL

(* However long commands take, as long as they take no longer than the      *)
(* precursor in all, the label opened before them bounds the impairment     *)
(* (_labels.py): a driver sleeps no longer than its label holds.            *)
THEOREM LabelsBoundImpairment == DriverSpec => []WindowBoundsImpairment
<1>1. DInv => WindowBoundsImpairment
    <2> SUFFICES ASSUME DInv, AtWork \in lab \ leftover, lag <= Precursor[AtWork]
                 PROVE  /\ Opened /\ labels[AtWork].precursor <= effect
                        /\ now <= labels[AtWork].end
        BY DEF WindowBoundsImpairment
    <2> DEFINE s == AtWork
               tool == todo[1][2]
    <2>1. todo # <<>>
        BY NoLabelAssumption DEF DInv, DriverTypeOK, AtWork
    <2>2. labels[s] # NoLabel
        BY DEF DInv, LabelledFirst
    <2>3. Opened
        BY <2>1, <2>2 DEF Opened
    <2>4. PICK i \in 0..Len(Program(s, tool)) : AfterCommands(i)
        BY <2>3 DEF DInv, OnTime
    <2>5. s \in Scenario /\ ProgramOK(s, tool) /\ lag \in Nat /\ live \in BOOLEAN
        BY <2>1, AtWorkOK DEF DInv, DriverTypeOK
    <2>6. i # 0 /\ labels[s].precursor <= effect
        BY <2>4 DEF AfterCommands
    <2>7. Slept(s, tool, i) \in 0..Hold[s]
        <3>1. i \in 1..Len(Program(s, tool))
            <4>1. Len(Program(s, tool)) \in Nat
                BY <2>5, LenProperties DEF ProgramOK
            <4> QED BY <2>6, <4>1
        <3> QED BY <2>5, <3>1 DEF ProgramOK
    <2>8. /\ labels[s] = Clock(s, labels[s].precursor)
          /\ now = labels[s].precursor + lag + (IF live THEN Slept(s, tool, i) ELSE 0)
        BY <2>4 DEF AfterCommands
    <2>9. labels[s].precursor \in Nat
        BY <2>2, <2>5 DEF DInv, DriverTypeOK
    <2>10. /\ labels[s].end = labels[s].precursor + Precursor[s] + Hold[s]
           /\ Precursor[s] \in Nat /\ Hold[s] \in Nat
        BY <2>5, <2>8, <2>9, ClockOK
    <2>11. now <= labels[s].end
        <3>1. PICK p \in Nat, a \in 0..Hold[s] :
                  p = labels[s].precursor /\ a = (IF live THEN Slept(s, tool, i) ELSE 0)
            BY <2>7, <2>9, <2>10
        <3>2. now = p + lag + a /\ labels[s].end = p + Precursor[s] + Hold[s]
            BY <2>8, <2>10, <3>1
        <3> QED BY <2>5, <2>10, <3>2
    <2> QED BY <2>3, <2>6, <2>11
<1> QED BY <1>1, DriverInductive, PTL

-------------------------------------------------------------------------------
(***************************************************************************)
(* The generator.  First arithmetic: the shares, ramps and waves it is     *)
(* made of.                                                                *)
(***************************************************************************)
LEMMA Larger == \A a, b \in Int : Max({a, b}) \in Int /\ Max({a, b}) = IF a > b THEN a ELSE b
<1> SUFFICES ASSUME NEW a \in Int, NEW b \in Int
             PROVE  Max({a, b}) \in Int /\ Max({a, b}) = IF a > b THEN a ELSE b
    OBVIOUS
<1> DEFINE m == IF a > b THEN a ELSE b
<1>1. m \in {a, b} /\ \A y \in {a, b} : m >= y
    OBVIOUS
<1>2. \A w \in {a, b} : (\A y \in {a, b} : w >= y) => w = m
    OBVIOUS
<1>3. m \in Int
    OBVIOUS
<1> HIDE DEF m
<1>4. Max({a, b}) = m
    BY <1>1, <1>2 DEF Max
<1> QED BY <1>3, <1>4 DEF m

LEMMA Smaller == \A a, b \in Int : Min({a, b}) \in Int /\ Min({a, b}) = IF a < b THEN a ELSE b
<1> SUFFICES ASSUME NEW a \in Int, NEW b \in Int
             PROVE  Min({a, b}) \in Int /\ Min({a, b}) = IF a < b THEN a ELSE b
    OBVIOUS
<1> DEFINE m == IF a < b THEN a ELSE b
<1>1. m \in {a, b} /\ \A y \in {a, b} : m <= y
    OBVIOUS
<1>2. \A w \in {a, b} : (\A y \in {a, b} : w <= y) => w = m
    OBVIOUS
<1>3. m \in Int
    OBVIOUS
<1> HIDE DEF m
<1>4. Min({a, b}) = m
    BY <1>1, <1>2 DEF Min
<1> QED BY <1>3, <1>4 DEF m

LEMMA ClampIs ==
    ASSUME NEW x \in Int, NEW lo \in Int, NEW hi \in Int, lo <= hi
    PROVE  Clamp(x, lo, hi) = IF x < lo THEN lo ELSE IF x > hi THEN hi ELSE x
<1>1. PICK m \in Int : m = Max({lo, x}) /\ m = IF lo > x THEN lo ELSE x
    BY Larger
<1>2. Min({hi, m}) = IF hi < m THEN hi ELSE m
    BY Smaller
<1>3. Clamp(x, lo, hi) = Min({hi, m})
    BY <1>1, Zenon DEF Clamp
<1> QED BY <1>1, <1>2, <1>3

LEMMA OfIs ==
    ASSUME NEW x \in Int, NEW p \in Int
    PROVE  Of(x, p) \in Int /\ (p = 0 \/ x = 0 => Of(x, p) = 0)
<1>1. PICK q \in Int : q = x * p
    OBVIOUS
<1>2. p = 0 \/ x = 0 => q = 0
    BY <1>1
<1>3. Of(x, p) = q \div 1000
    BY <1>1, ZenonT(60) DEF Of
<1> QED BY <1>2, <1>3

LEMMA RampIs ==
    ASSUME NEW t \in Int, NEW t0 \in Int, NEW t1 \in Int, t0 <= t1
    PROVE  /\ Ramp(t, t0, t1) \in 0..1000
           /\ t < t0 => Ramp(t, t0, t1) = 0
           /\ t >= t1 => Ramp(t, t0, t1) = 1000
<1>1. CASE t0 = t1
    BY <1>1 DEF Ramp
<1>2. CASE t0 < t1
    <2>1. PICK a \in Int, b \in Nat \ {0} : a = t - t0 /\ b = t1 - t0
        BY <1>2
    <2>2. PICK q \in Int : q = (1000 * a) \div b
        BY <2>1
    <2>3. Ramp(t, t0, t1) = Clamp(q, 0, 1000)
        BY <1>2, <2>1, <2>2 DEF Ramp
    <2>4. Clamp(q, 0, 1000) = IF q < 0 THEN 0 ELSE IF q > 1000 THEN 1000 ELSE q
        BY ClampIs
    <2>5. t < t0 => q <= 0
        <3>1. a < 0 => q <= 0
            BY <2>2
        <3> QED BY <2>1, <3>1
    <2>6. t >= t1 => q >= 1000
        <3>1. a >= b => q >= 1000
            BY <2>2
        <3> QED BY <2>1, <3>1
    <2> QED BY <2>3, <2>4, <2>5, <2>6
<1> QED BY <1>1, <1>2

LEMMA SmoothstepIs ==
    ASSUME NEW x \in Int
    PROVE  Smoothstep(x) \in Int /\ (x = 0 => Smoothstep(x) = 0)
<1>1. PICK q \in Int : q = x * x * (3000 - 2 * x)
    OBVIOUS
<1>2. x = 0 => q = 0
    BY <1>1
<1>3. Smoothstep(x) = q \div 1000000
    BY <1>1 DEF Smoothstep
<1> QED BY <1>2, <1>3

Timed(spec) == /\ spec.precursor \in Int /\ spec.fault \in Int /\ spec.end \in Int
               /\ spec.precursor <= spec.fault /\ spec.fault <= spec.end

LEMMA PhasesAre ==
    ASSUME NEW spec, Timed(spec), NEW t \in Int, NEW n \in Nat
    PROVE  /\ Pre(spec, t) \in 0..1000
           /\ t < spec.precursor => Pre(spec, t) = 0 /\ ~InFault(spec, t)
           /\ t >= spec.fault => Pre(spec, t) = 1000
           /\ After(spec, t, n) \in 0..1000
           /\ t >= spec.end + n => After(spec, t, n) = 0 /\ ~InFault(spec, t)
<1>1. PICK p, f, e, g \in Int : /\ p = spec.precursor /\ f = spec.fault /\ e = spec.end
                                /\ g = e + n /\ p <= f /\ f <= e /\ e <= g
    <2>1. spec.end + n \in Int /\ spec.end <= spec.end + n
        BY DEF Timed
    <2> QED BY <2>1 DEF Timed
<1>2. /\ Ramp(t, p, f) \in 0..1000
      /\ t < p => Ramp(t, p, f) = 0
      /\ t >= f => Ramp(t, p, f) = 1000
    <2>1. p <= f
        BY <1>1
    <2> QED BY <2>1, RampIs
<1>4. Ramp(t, e, g) \in 0..1000 /\ (t >= g => Ramp(t, e, g) = 1000)
    <2>1. e <= g
        BY <1>1
    <2> QED BY <2>1, RampIs
<1>7. Pre(spec, t) = Ramp(t, p, f)
    BY <1>1, Zenon DEF Pre
<1>8. After(spec, t, n) = 1000 - Ramp(t, e, g)
    BY <1>1 DEF After
<1>9. (t < p => ~InFault(spec, t)) /\ (t >= g => ~InFault(spec, t))
    BY <1>1 DEF InFault
<1> QED BY <1>1, <1>2, <1>4, <1>7, <1>8, <1>9

(* What a scenario adds to a metric: nothing before its onset, at most its  *)
(* residue of noise once it has cleared.                                    *)
Adds(x, t, onset, cleared, residue) ==
    /\ x \in Int
    /\ t < onset => x = 0
    /\ t >= cleared => x \in {0, residue}

(* Two shares of something, switched by a third.                            *)
Switched(u, b, v, d, w) == Of(Of(u, b) + Of(v, d), w)

LEMMA SwitchedIs ==
    ASSUME NEW u \in Int, NEW b \in Int, NEW v \in Int, NEW d \in Int, NEW w \in Int
    PROVE  /\ Switched(u, b, v, d, w) \in Int
           /\ (b = 0 /\ d = 0) \/ w = 0 => Switched(u, b, v, d, w) = 0
<1>1. PICK x \in Int : x = Of(u, b) /\ (b = 0 => x = 0)
    <2>1. Of(u, b) \in Int /\ (b = 0 => Of(u, b) = 0)
        BY OfIs
    <2> QED BY <2>1
<1>2. PICK y \in Int : y = Of(v, d) /\ (d = 0 => y = 0)
    <2>1. Of(v, d) \in Int /\ (d = 0 => Of(v, d) = 0)
        BY OfIs
    <2> QED BY <2>1
<1>3. PICK k \in Int : k = x + y
    OBVIOUS
<1>4. Of(k, w) \in Int /\ (k = 0 \/ w = 0 => Of(k, w) = 0)
    BY OfIs
<1>5. Switched(u, b, v, d, w) = Of(k, w)
    BY <1>1, <1>2, <1>3, Zenon DEF Switched
<1> QED BY <1>1, <1>2, <1>3, <1>4, <1>5

LEMMA CongestionAdds ==
    ASSUME NEW spec, Timed(spec), NEW t \in Int, NEW metric, NEW draw \in Int
    PROVE  Adds(InjectCongestion(spec, t, metric, draw), t, spec.precursor, spec.end + 6000,
                IF metric = "jitter_ms" THEN draw * 150 ELSE 0)
<1>1. PICK p, f, e, c \in Int : /\ p = spec.precursor /\ f = spec.fault /\ e = spec.end
                                /\ c = spec.end + 6000 /\ p <= f /\ f <= e
    BY DEF Timed
<1>2. PICK pre, active \in Int :
          /\ pre = Pre(spec, t) /\ active = After(spec, t, 6000)
          /\ t < p => pre = 0
          /\ t >= c => pre = 1000 /\ active = 0
    <2>1. 6000 \in Nat
        OBVIOUS
    <2>2. /\ Pre(spec, t) \in Int /\ After(spec, t, 6000) \in Int
          /\ t < spec.precursor => Pre(spec, t) = 0
          /\ t >= spec.fault => Pre(spec, t) = 1000
          /\ t >= spec.end + 6000 => After(spec, t, 6000) = 0
        BY <2>1, PhasesAre, SMTT(30)
    <2> QED BY <1>1, <2>2
<1>3. PICK smooth \in Int : smooth = Smoothstep(pre) /\ (t < p => smooth = 0)
    <2>1. Smoothstep(pre) \in Int /\ (pre = 0 => Smoothstep(pre) = 0)
        BY SmoothstepIs
    <2> QED BY <1>2, <2>1
<1>4. PICK fault \in Int : fault = Ramp(t, spec.fault, spec.fault + 9000) /\ (t < p => fault = 0)
    <2>1. PICK g \in Int : g = spec.fault + 9000 /\ f <= g
        BY <1>1
    <2>2. f <= g
        BY <2>1
    <2>3. Ramp(t, f, g) \in 0..1000 /\ (t < f => Ramp(t, f, g) = 0)
        BY <2>2, RampIs
    <2>4. Ramp(t, spec.fault, spec.fault + 9000) = Ramp(t, f, g)
        BY <1>1, <2>1
    <2> QED BY <1>1, <2>3, <2>4
<1>5. PICK high, higher \in Int : /\ high = Max({0, pre - 400}) /\ higher = Max({0, pre - 850})
                                  /\ t < p => high = 0 /\ higher = 0
    <2>1. pre - 400 \in Int /\ pre - 850 \in Int
        OBVIOUS
    <2>2. /\ Max({0, pre - 400}) \in Int /\ Max({0, pre - 850}) \in Int
          /\ pre = 0 => Max({0, pre - 400}) = 0 /\ Max({0, pre - 850}) = 0
        BY <2>1, Larger
    <2> QED BY <1>2, <2>2
<1>6. PICK noise \in Int : /\ noise = draw * Of(150, pre)
                           /\ t < p => noise = 0
                           /\ t >= c => noise = draw * 150
    <2>1. PICK k \in Int : k = Of(150, pre) /\ (pre = 0 => k = 0) /\ (pre = 1000 => k = 150)
        <3>1. Of(150, pre) \in Int /\ (pre = 0 => Of(150, pre) = 0)
            BY OfIs
        <3>2. Of(150, 1000) = 150
            BY DEF Of
        <3> QED BY <3>1, <3>2
    <2>2. draw * k \in Int /\ (k = 0 => draw * k = 0) /\ (k = 150 => draw * k = draw * 150)
        OBVIOUS
    <2> QED BY <1>2, <2>1, <2>2
<1>7. PICK over \in Int : over = Of(8000, smooth)
    <2>1. Of(8000, smooth) \in Int
        BY OfIs
    <2> QED BY <2>1
<1> DEFINE util  == Switched(5500, smooth, 3000, fault, active)
           noisy == Of(util, 1000 + 20 * draw)
           queue == Switched(over, smooth, 12000, fault, active)
           drops == Switched(4000, high, 20000, fault, active)
           delay == Switched(2200, smooth, 6000, fault, active)
           shake == Switched(400, smooth, 1200, fault, active)
           loss  == Switched(600, higher, 900, fault, active)
<1>8. util \in Int /\ ((smooth = 0 /\ fault = 0) \/ active = 0 => util = 0)
    BY SwitchedIs
<1>9. noisy \in Int /\ (util = 0 => noisy = 0)
    <2>1. PICK u, w \in Int : u = util /\ w = 1000 + 20 * draw
        BY <1>8
    <2>2. Of(u, w) \in Int /\ (u = 0 => Of(u, w) = 0)
        BY OfIs
    <2> QED BY <2>1, <2>2
<1>10. queue \in Int /\ ((smooth = 0 /\ fault = 0) \/ active = 0 => queue = 0)
    BY SwitchedIs
<1>11. drops \in Int /\ ((high = 0 /\ fault = 0) \/ active = 0 => drops = 0)
    BY SwitchedIs
<1>12. delay \in Int /\ ((smooth = 0 /\ fault = 0) \/ active = 0 => delay = 0)
    BY SwitchedIs
<1>13. shake \in Int /\ ((smooth = 0 /\ fault = 0) \/ active = 0 => shake = 0)
    BY SwitchedIs
<1>14. loss \in Int /\ ((higher = 0 /\ fault = 0) \/ active = 0 => loss = 0)
    BY SwitchedIs
<1> DEFINE x == CASE metric = "if_util_pct" -> noisy
                  [] metric = "queue_depth" -> queue
                  [] metric = "if_out_discards" -> drops
                  [] metric = "latency_ms" -> delay
                  [] metric = "jitter_ms" -> shake + noise
                  [] metric = "loss_pct" -> loss
                  [] OTHER -> 0
<1>15. InjectCongestion(spec, t, metric, draw) = x
    BY <1>2, <1>3, <1>4, <1>5, <1>6, <1>7 DEF InjectCongestion, Switched
<1> HIDE DEF util, noisy, queue, drops, delay, shake, loss
<1>16. /\ x \in Int
       /\ t < p => x = 0
       /\ t >= c => x = IF metric = "jitter_ms" THEN draw * 150 ELSE 0
    <2>1. CASE metric = "jitter_ms"
        BY <1>2, <1>3, <1>4, <1>6, <1>13, <2>1
    <2>2. CASE metric # "jitter_ms"
        BY <1>2, <1>3, <1>4, <1>5, <1>8, <1>9, <1>10, <1>11, <1>12, <1>14, <2>2
    <2> QED BY <2>1, <2>2
<1> HIDE DEF x
<1> QED BY <1>1, <1>15, <1>16 DEF Adds

(* What waves off and on during the fault.                                  *)
LEMMA WaveIs ==
    ASSUME NEW spec, NEW t, NEW period, NEW n, Wave(spec, t, period, n)
    PROVE  InFault(spec, t)
BY DEF Wave

LEMMA BgpFlapAdds ==
    ASSUME NEW spec, Timed(spec), NEW t \in Int, NEW metric, NEW draw \in Int
    PROVE  Adds(InjectBgpFlap(spec, t, metric, draw), t, spec.precursor, spec.end + 6000, 0)
<1>1. PICK p, f, e, c \in Int : /\ p = spec.precursor /\ f = spec.fault /\ e = spec.end
                                /\ c = spec.end + 6000 /\ p <= f /\ f <= e
    BY DEF Timed
<1>2. PICK pre, active \in Int :
          /\ pre = Pre(spec, t) /\ active = After(spec, t, 4500)
          /\ t < p => pre = 0 /\ ~InFault(spec, t)
          /\ t >= c => active = 0
    <2>1. 4500 \in Nat
        OBVIOUS
    <2>2. /\ Pre(spec, t) \in Int /\ After(spec, t, 4500) \in Int
          /\ t < spec.precursor => Pre(spec, t) = 0
          /\ t >= spec.end + 4500 => After(spec, t, 4500) = 0
        BY <2>1, PhasesAre, SMTT(30)
    <2>3. t < spec.precursor => ~InFault(spec, t)
        BY <2>1, PhasesAre, SMTT(30)
    <2> QED BY <1>1, <2>2, <2>3
<1>3. PICK smooth \in Int : smooth = Smoothstep(pre) /\ (t < p => smooth = 0)
    <2>1. Smoothstep(pre) \in Int /\ (pre = 0 => Smoothstep(pre) = 0)
        BY SmoothstepIs
    <2> QED BY <1>2, <2>1
<1> DEFINE onIn(on, in) == IF Wave(spec, t, 8000, 2800) THEN on ELSE IF InFault(spec, t) THEN in ELSE 0
<1>4. \A on, in \in Int : onIn(on, in) \in Int /\ (t < p => onIn(on, in) = 0)
    <2>1. t < p => ~Wave(spec, t, 8000, 2800)
        BY <1>2, WaveIs
    <2> QED BY <1>2, <2>1
<1>5. PICK s80, s15, s4 \in Int : /\ s80 = Of(80000, smooth) /\ s15 = Of(1500, smooth)
                                  /\ s4 = Of(40, smooth)
                                  /\ t < p => s80 = 0 /\ s15 = 0 /\ s4 = 0
    <2>1. Of(80000, smooth) \in Int /\ (smooth = 0 => Of(80000, smooth) = 0)
        BY OfIs
    <2>2. Of(1500, smooth) \in Int /\ (smooth = 0 => Of(1500, smooth) = 0)
        BY OfIs
    <2>3. Of(40, smooth) \in Int /\ (smooth = 0 => Of(40, smooth) = 0)
        BY OfIs
    <2> QED BY <1>3, <2>1, <2>2, <2>3
<1>6. PICK noise \in Int : /\ noise = draw * Of(400, pre + (IF InFault(spec, t) THEN 1000 ELSE 0))
                           /\ t < p => noise = 0
    <2>1. PICK g \in Int : g = pre + (IF InFault(spec, t) THEN 1000 ELSE 0) /\ (t < p => g = 0)
        BY <1>2
    <2>2. Of(400, g) \in Int /\ (g = 0 => Of(400, g) = 0)
        BY OfIs
    <2>3. PICK sigma \in Int : sigma = Of(400, g) /\ (t < p => sigma = 0)
        BY <2>1, <2>2
    <2>4. draw * sigma \in Int /\ (sigma = 0 => draw * sigma = 0)
        OBVIOUS
    <2> QED BY <2>1, <2>3, <2>4
<1>7. PICK high, higher \in Int : /\ high = Max({0, pre - 500}) /\ higher = Max({0, pre - 600})
                                  /\ t < p => high = 0 /\ higher = 0
    <2>1. pre - 500 \in Int /\ pre - 600 \in Int
        OBVIOUS
    <2>2. /\ Max({0, pre - 500}) \in Int /\ Max({0, pre - 600}) \in Int
          /\ pre = 0 => Max({0, pre - 500}) = 0 /\ Max({0, pre - 600}) = 0
        BY <2>1, Larger
    <2> QED BY <1>2, <2>2
<1>8. PICK h8, h3, h4 \in Int : /\ h8 = Of(800, high) /\ h3 = Of(300, higher) /\ h4 = Of(400, higher)
                                /\ t < p => h8 = 0 /\ h3 = 0 /\ h4 = 0
    <2>1. Of(800, high) \in Int /\ (high = 0 => Of(800, high) = 0)
        BY OfIs
    <2>2. Of(300, higher) \in Int /\ (higher = 0 => Of(300, higher) = 0)
        BY OfIs
    <2>3. Of(400, higher) \in Int /\ (higher = 0 => Of(400, higher) = 0)
        BY OfIs
    <2> QED BY <1>7, <2>1, <2>2, <2>3
<1>9. \A k \in Int : Of(k, active) \in Int /\ (k = 0 \/ active = 0 => Of(k, active) = 0)
    BY OfIs
<1>10. /\ onIn(150000, 40000) \in Int /\ (t < p => onIn(150000, 40000) = 0)
       /\ onIn(9000, 1000) \in Int /\ (t < p => onIn(9000, 1000) = 0)
       /\ onIn(2500, 200) \in Int /\ (t < p => onIn(2500, 200) = 0)
       /\ onIn(100, 0) \in Int /\ (t < p => onIn(100, 0) = 0)
       /\ onIn(600, 100) \in Int /\ (t < p => onIn(600, 100) = 0)
       /\ onIn(1000, 150) \in Int /\ (t < p => onIn(1000, 150) = 0)
       /\ onIn(50, 0) \in Int /\ (t < p => onIn(50, 0) = 0)
    BY <1>4
<1> HIDE DEF onIn
<1>11. PICK o1 \in Int : o1 = onIn(150000, 40000) /\ (t < p => o1 = 0)
    BY <1>10
<1>12. PICK o2 \in Int : o2 = onIn(9000, 1000) /\ (t < p => o2 = 0)
    BY <1>10
<1>13. PICK o3 \in Int : o3 = onIn(2500, 200) /\ (t < p => o3 = 0)
    BY <1>10
<1>14. PICK o4 \in Int : o4 = onIn(100, 0) /\ (t < p => o4 = 0)
    BY <1>10
<1>15. PICK o5 \in Int : o5 = onIn(600, 100) /\ (t < p => o5 = 0)
    BY <1>10
<1>16. PICK o6 \in Int : o6 = onIn(1000, 150) /\ (t < p => o6 = 0)
    BY <1>10
<1>17. PICK o7 \in Int : o7 = onIn(50, 0) /\ (t < p => o7 = 0)
    BY <1>10
<1>18. PICK penalty \in Int : penalty = s80 + onIn(150000, 40000) /\ (t < p => penalty = 0)
    BY <1>5, <1>11
<1>19. PICK update \in Int : update = Max({0, s15 + onIn(9000, 1000) + noise}) /\ (t < p => update = 0)
    <2>1. PICK sum \in Int : sum = s15 + o2 + noise
        OBVIOUS
    <2>2. Max({0, sum}) \in Int /\ (sum = 0 => Max({0, sum}) = 0)
        BY Larger
    <2> QED BY <1>5, <1>6, <1>12, <2>1, <2>2
<1>20. PICK withdraw \in Int : withdraw = onIn(2500, 200) + h8 /\ (t < p => withdraw = 0)
    BY <1>8, <1>13
<1>21. PICK spf \in Int : spf = onIn(600, 100) + h3 /\ (t < p => spf = 0)
    BY <1>8, <1>15
<1>22. PICK lsa \in Int : lsa = onIn(1000, 150) + h4 /\ (t < p => lsa = 0)
    BY <1>8, <1>16
<1>23. PICK asym \in Int : asym = Min({100, s4 + onIn(50, 0)}) /\ (t < p => asym = 0)
    <2>1. PICK sum \in Int : sum = s4 + o7
        OBVIOUS
    <2>2. Min({100, sum}) \in Int /\ (sum = 0 => Min({100, sum}) = 0)
        BY Smaller
    <2> QED BY <1>5, <1>17, <2>1, <2>2
<1> DEFINE k == CASE metric = "bgp_flap_penalty"  -> penalty
                  [] metric = "bgp_update_rate"   -> update
                  [] metric = "bgp_withdraw_rate" -> withdraw
                  [] metric = "adj_flap_count"    -> o4
                  [] metric = "ospf_spf_rate"     -> spf
                  [] metric = "ospf_lsa_rate"     -> lsa
                  [] metric = "path_asymmetry"    -> asym
                  [] OTHER -> 0
<1>24. k \in Int /\ (t < p => k = 0)
    BY <1>14, <1>18, <1>19, <1>20, <1>21, <1>22, <1>23
<1>25. InjectBgpFlap(spec, t, metric, draw) = Of(k, active)
    <2>1. Of(0, active) = 0
        BY <1>9
    <2> QED BY <1>2, <1>3, <1>5, <1>6, <1>7, <1>8, <1>14, <1>18, <1>19, <1>20, <1>21, <1>22, <1>23, <2>1
           DEF InjectBgpFlap, onIn
<1> HIDE DEF k
<1>26. PICK x \in Int : x = Of(k, active) /\ (k = 0 \/ active = 0 => x = 0)
    BY <1>9, <1>24
<1> QED BY <1>1, <1>2, <1>24, <1>25, <1>26 DEF Adds

LEMMA TunnelDegradationAdds ==
    ASSUME NEW spec, Timed(spec), NEW t \in Int, NEW metric, NEW draw \in Int
    PROVE  Adds(InjectTunnelDegradation(spec, t, metric, draw), t, spec.precursor, spec.end + 6000, 0)
<1>1. PICK p, f, e, c \in Int : /\ p = spec.precursor /\ f = spec.fault /\ e = spec.end
                                /\ c = spec.end + 6000 /\ p <= f /\ f <= e
    BY DEF Timed
<1>2. PICK pre, active \in Int :
          /\ pre = Pre(spec, t) /\ active = After(spec, t, 6000)
          /\ t < p => pre = 0 /\ ~InFault(spec, t)
          /\ t >= c => active = 0
    <2>1. 6000 \in Nat
        OBVIOUS
    <2>2. /\ Pre(spec, t) \in Int /\ After(spec, t, 6000) \in Int
          /\ t < spec.precursor => Pre(spec, t) = 0
          /\ t >= spec.end + 6000 => After(spec, t, 6000) = 0
        BY <2>1, PhasesAre, SMTT(30)
    <2>3. t < spec.precursor => ~InFault(spec, t)
        BY <2>1, PhasesAre, SMTT(30)
    <2> QED BY <1>1, <2>2, <2>3
<1>3. PICK smooth \in Int : smooth = Smoothstep(pre) /\ (t < p => smooth = 0)
    <2>1. Smoothstep(pre) \in Int /\ (pre = 0 => Smoothstep(pre) = 0)
        BY SmoothstepIs
    <2> QED BY <1>2, <2>1
<1> DEFINE onIn(on, in) == IF Wave(spec, t, 4000, 1000) THEN on ELSE IF InFault(spec, t) THEN in ELSE 0
<1>4. \A on, in \in Int : onIn(on, in) \in Int /\ (t < p => onIn(on, in) = 0)
    <2>1. t < p => ~Wave(spec, t, 4000, 1000)
        BY <1>2, WaveIs
    <2> QED BY <1>2, <2>1
<1>5. PICK s1, s8, s9, s10 \in Int : /\ s1 = Of(180, smooth) /\ s8 = Of(800, smooth)
                                     /\ s9 = Of(90000, smooth) /\ s10 = Of(1000, smooth)
                                     /\ t < p => s1 = 0 /\ s8 = 0 /\ s9 = 0 /\ s10 = 0
    <2>1. Of(180, smooth) \in Int /\ (smooth = 0 => Of(180, smooth) = 0)
        BY OfIs
    <2>2. Of(800, smooth) \in Int /\ (smooth = 0 => Of(800, smooth) = 0)
        BY OfIs
    <2>3. Of(90000, smooth) \in Int /\ (smooth = 0 => Of(90000, smooth) = 0)
        BY OfIs
    <2>4. Of(1000, smooth) \in Int /\ (smooth = 0 => Of(1000, smooth) = 0)
        BY OfIs
    <2> QED BY <1>3, <2>1, <2>2, <2>3, <2>4
<1> DEFINE sigma(n) == Of(n, pre + (IF InFault(spec, t) THEN 1000 ELSE 0))
<1>6. \A n \in Int : draw * sigma(n) \in Int /\ (t < p => draw * sigma(n) = 0)
    <2> SUFFICES ASSUME NEW n \in Int
                 PROVE  draw * sigma(n) \in Int /\ (t < p => draw * sigma(n) = 0)
        OBVIOUS
    <2>1. PICK g \in Int : g = pre + (IF InFault(spec, t) THEN 1000 ELSE 0) /\ (t < p => g = 0)
        BY <1>2
    <2>2. Of(n, g) \in Int /\ (g = 0 => Of(n, g) = 0)
        BY OfIs
    <2>3. PICK s \in Int : s = Of(n, g) /\ (t < p => s = 0)
        BY <2>1, <2>2
    <2>4. draw * s \in Int /\ (s = 0 => draw * s = 0)
        OBVIOUS
    <2> QED BY <2>1, <2>3, <2>4
<1>7. PICK shake \in Int : shake = draw * Of(12000, pre) /\ (t < p => shake = 0)
    <2>1. Of(12000, pre) \in Int /\ (pre = 0 => Of(12000, pre) = 0)
        BY OfIs
    <2>2. PICK s \in Int : s = Of(12000, pre) /\ (t < p => s = 0)
        BY <1>2, <2>1
    <2>3. draw * s \in Int /\ (s = 0 => draw * s = 0)
        OBVIOUS
    <2> QED BY <2>2, <2>3
<1>8. /\ onIn(1200, 200) \in Int /\ (t < p => onIn(1200, 200) = 0)
      /\ onIn(2500, 600) \in Int /\ (t < p => onIn(2500, 600) = 0)
      /\ onIn(150000, 0) \in Int /\ (t < p => onIn(150000, 0) = 0)
      /\ onIn(4000, 0) \in Int /\ (t < p => onIn(4000, 0) = 0)
    BY <1>4
<1>9. /\ draw * sigma(60) \in Int /\ (t < p => draw * sigma(60) = 0)
      /\ draw * sigma(200) \in Int /\ (t < p => draw * sigma(200) = 0)
    BY <1>6
<1> HIDE DEF onIn, sigma
<1>10. PICK n60 \in Int : n60 = draw * sigma(60) /\ (t < p => n60 = 0)
    BY <1>9
<1>11. PICK n200 \in Int : n200 = draw * sigma(200) /\ (t < p => n200 = 0)
    BY <1>9
<1>12. PICK o1 \in Int : o1 = onIn(1200, 200) /\ (t < p => o1 = 0)
    BY <1>8
<1>13. PICK o2 \in Int : o2 = onIn(2500, 600) /\ (t < p => o2 = 0)
    BY <1>8
<1>14. PICK o3 \in Int : o3 = onIn(150000, 0) /\ (t < p => o3 = 0)
    BY <1>8
<1>15. PICK o4 \in Int : o4 = onIn(4000, 0) /\ (t < p => o4 = 0)
    BY <1>8
<1>16. PICK loss \in Int : loss = Max({0, s1 + o1 + n60}) /\ (t < p => loss = 0)
    <2>1. PICK sum \in Int : sum = s1 + o1 + n60
        OBVIOUS
    <2>2. Max({0, sum}) \in Int /\ (sum = 0 => Max({0, sum}) = 0)
        BY Larger
    <2> QED BY <1>5, <1>10, <1>12, <2>1, <2>2
<1>17. PICK jitter \in Int : jitter = s8 + o2 + n200 /\ (t < p => jitter = 0)
    BY <1>5, <1>11, <1>13
<1>18. PICK rekey \in Int : rekey = s9 + o3 - shake /\ (t < p => rekey = 0)
    BY <1>5, <1>7, <1>14
<1>19. PICK latency \in Int : latency = s10 + o4 /\ (t < p => latency = 0)
    BY <1>5, <1>15
<1> DEFINE k == CASE metric = "tunnel_loss_pct"  -> loss
                  [] metric = "tunnel_jitter_ms" -> jitter
                  [] metric = "tunnel_rekey_interval_s" -> rekey
                  [] metric = "latency_ms"       -> latency
                  [] OTHER -> 0
<1>20. k \in Int /\ (t < p => k = 0)
    BY <1>16, <1>17, <1>18, <1>19
<1>21. InjectTunnelDegradation(spec, t, metric, draw) =
           IF metric = "tunnel_rekey_interval_s" THEN -Of(k, active) ELSE Of(k, active)
    <2>1. 0 \in Int
        OBVIOUS
    <2>2. Of(0, active) = 0
        BY <2>1, OfIs
    <2>3. InjectTunnelDegradation(spec, t, metric, draw) =
              CASE metric = "tunnel_loss_pct"  -> Of(loss, active)
                [] metric = "tunnel_jitter_ms" -> Of(jitter, active)
                [] metric = "tunnel_rekey_interval_s" -> -Of(rekey, active)
                [] metric = "latency_ms"       -> Of(latency, active)
                [] OTHER -> 0
        BY <1>2, <1>3, <1>5, <1>7, <1>10, <1>11, <1>12, <1>13, <1>14, <1>15, <1>16, <1>17,
           <1>18, <1>19 DEF InjectTunnelDegradation, onIn, sigma
    <2> QED BY <2>2, <2>3
<1> HIDE DEF k
<1>22. Of(k, active) \in Int /\ (k = 0 \/ active = 0 => Of(k, active) = 0)
    BY <1>20, OfIs
<1>23. PICK x \in Int : x = Of(k, active) /\ (k = 0 \/ active = 0 => x = 0)
    BY <1>22
<1> QED BY <1>1, <1>2, <1>20, <1>21, <1>23 DEF Adds

LEMMA PolicyDriftAdds ==
    ASSUME NEW spec, Timed(spec), NEW t \in Int, NEW metric, NEW draw \in Int
    PROVE  Adds(InjectPolicyDrift(spec, t, metric, draw), t, Min({spec.precursor, spec.fault - PushLead}),
                spec.end + 6000, IF metric = "config_drift_score" THEN draw ELSE 0)
<1>1. PICK p, f, e, c \in Int : /\ p = spec.precursor /\ f = spec.fault /\ e = spec.end
                                /\ c = spec.end + 6000 /\ p <= f /\ f <= e
    BY DEF Timed
<1>2. PICK on \in Int : on = Min({spec.precursor, spec.fault - PushLead}) /\ on <= f - 1500
    <2>1. PICK g \in Int : g = f - 1500
        OBVIOUS
    <2>2. Min({p, g}) \in Int /\ Min({p, g}) = IF p < g THEN p ELSE g
        BY Smaller
    <2> QED BY <1>1, <2>1, <2>2 DEF PushLead
<1>3. PICK step \in Int :
          /\ step = Smoothstep(Ramp(t, spec.fault - PushLead, spec.fault + 1500))
          /\ t < on => step = 0
    <2>1. PICK g, h \in Int : g = f - 1500 /\ h = f + 1500 /\ g <= h
        OBVIOUS
    <2>2. g <= h
        BY <2>1
    <2>3. Ramp(t, g, h) \in 0..1000 /\ (t < g => Ramp(t, g, h) = 0)
        BY <2>2, RampIs
    <2>4. PICK r \in Int : r = Ramp(t, g, h) /\ (t < g => r = 0)
        BY <2>3
    <2>5. Smoothstep(r) \in Int /\ (r = 0 => Smoothstep(r) = 0)
        BY SmoothstepIs
    <2> QED BY <1>1, <1>2, <2>1, <2>4, <2>5 DEF PushLead
<1>4. PICK active \in Int : active = After(spec, t, 3000) /\ (t >= c => active = 0)
    <2>1. 3000 \in Nat
        OBVIOUS
    <2>2. After(spec, t, 3000) \in Int /\ (t >= spec.end + 3000 => After(spec, t, 3000) = 0)
        BY <2>1, PhasesAre, SMTT(30)
    <2> QED BY <1>1, <2>2
<1>5. PICK ramp \in Int : ramp = Ramp(t, spec.fault, spec.fault + 24000)
    <2>1. PICK g \in Int : g = f + 24000 /\ f <= g
        OBVIOUS
    <2>2. f <= g
        BY <2>1
    <2>3. Ramp(t, f, g) \in 0..1000 /\ (t < f => Ramp(t, f, g) = 0)
        BY <2>2, RampIs
    <2> QED BY <1>1, <2>1, <2>3
<1>6. PICK s9, s12, s3 \in Int : /\ s9 = Of(90, step) /\ s12 = Of(1200, step) /\ s3 = Of(35, step)
                                 /\ t < on => s9 = 0 /\ s12 = 0 /\ s3 = 0
    <2>1. Of(90, step) \in Int /\ (step = 0 => Of(90, step) = 0)
        BY OfIs
    <2>2. Of(1200, step) \in Int /\ (step = 0 => Of(1200, step) = 0)
        BY OfIs
    <2>3. Of(35, step) \in Int /\ (step = 0 => Of(35, step) = 0)
        BY OfIs
    <2> QED BY <1>3, <2>1, <2>2, <2>3
<1>7. PICK drift \in Int : drift = Min({100, s9}) /\ (t < on => drift = 0)
    <2>1. Min({100, s9}) \in Int /\ (s9 = 0 => Min({100, s9}) = 0)
        BY Smaller
    <2> QED BY <1>6, <2>1
<1>8. PICK asym \in Int : asym = Min({100, s3}) /\ (t < on => asym = 0)
    <2>1. Min({100, s3}) \in Int /\ (s3 = 0 => Min({100, s3}) = 0)
        BY Smaller
    <2> QED BY <1>6, <2>1
<1>9. PICK util \in Int : util = Of(s12, ramp) /\ (t < on => util = 0)
    <2>1. Of(s12, ramp) \in Int /\ (s12 = 0 => Of(s12, ramp) = 0)
        BY OfIs
    <2> QED BY <1>6, <2>1
<1> DEFINE k == CASE metric = "config_drift_score" -> drift
                  [] metric = "if_util_pct"    -> util
                  [] metric = "path_asymmetry" -> asym
                  [] OTHER -> 0
<1>10. k \in Int /\ (t < on => k = 0)
    BY <1>7, <1>8, <1>9
<1>11. InjectPolicyDrift(spec, t, metric, draw) =
           Of(k, active) + (IF metric = "config_drift_score" /\ step > 0 THEN draw ELSE 0)
    <2>1. 0 \in Int
        OBVIOUS
    <2>2. Of(0, active) = 0
        BY <2>1, OfIs
    <2>3. PICK a, b, d \in Int : a = Of(drift, active) /\ b = Of(util, active) /\ d = Of(asym, active)
        <3>1. Of(drift, active) \in Int /\ Of(util, active) \in Int /\ Of(asym, active) \in Int
            BY OfIs
        <3> QED BY <3>1
    <2>4. InjectPolicyDrift(spec, t, metric, draw) =
              CASE metric = "config_drift_score" -> a + (IF step > 0 THEN draw ELSE 0)
                [] metric = "if_util_pct"    -> b
                [] metric = "path_asymmetry" -> d
                [] OTHER -> 0
        BY <1>3, <1>4, <1>5, <1>6, <1>7, <1>8, <1>9, <2>3 DEF InjectPolicyDrift
    <2> QED BY <2>2, <2>3, <2>4
<1> HIDE DEF k
<1>12. Of(k, active) \in Int /\ (k = 0 \/ active = 0 => Of(k, active) = 0)
    BY <1>10, OfIs
<1>13. PICK x \in Int : x = Of(k, active) /\ (k = 0 \/ active = 0 => x = 0)
    BY <1>12
<1> QED BY <1>1, <1>2, <1>3, <1>4, <1>10, <1>11, <1>13 DEF Adds
-------------------------------------------------------------------------------
(* The baselines and what is sampled from them: each stays within its       *)
(* limits.                                                                  *)
Rec == [base : Int, sigma : Int, floor : Int, ceil : Int, gain : Int,
        seasonal : BOOLEAN, additive : BOOLEAN, scaled : BOOLEAN]

Limits(b, lo, hi) == b \in Rec /\ b.floor = lo /\ b.ceil = hi

LEMMA EditedIs ==
    ASSUME NEW r \in Rec, NEW x \in Int, NEW y \in Int, NEW o \in BOOLEAN, NEW p \in BOOLEAN
    PROVE  /\ Limits([r EXCEPT !.floor = x, !.ceil = y], x, y)
           /\ Limits([r EXCEPT !.ceil = y], r.floor, y)
           /\ Limits([r EXCEPT !.additive = o], r.floor, r.ceil)
           /\ Limits([r EXCEPT !.scaled = o], r.floor, r.ceil)
           /\ Limits([r EXCEPT !.additive = o, !.seasonal = p], r.floor, r.ceil)
           /\ Limits([r EXCEPT !.additive = o, !.ceil = y], r.floor, y)
           /\ Limits([r EXCEPT !.seasonal = o, !.gain = x], r.floor, r.ceil)
           /\ Limits([r EXCEPT !.floor = x, !.ceil = y, !.seasonal = o], x, y)
BY DEF Limits, Rec

LEMMA KindsAre ==
    ASSUME NEW base \in Int, NEW sigma \in Int, NEW gain \in Int
    PROVE  /\ Limits(Baseline(base, sigma, gain), 0, Inf)
           /\ Limits(Physical(base, sigma, gain), 0, Inf)
           /\ Limits(Count(base, sigma), 0, Inf)
           /\ Limits(Loss(base), 0, 10000)
<1>1. Inf \in Int
    BY SMT DEF Inf
<1>2. \A g, d \in Int : Limits(Baseline(base, d, g), 0, Inf)
    BY <1>1, SMT DEF Baseline, Limits, Rec
<1>3. \A g, d \in Int : Limits(Physical(base, d, g), 0, Inf)
    <2> SUFFICES ASSUME NEW g \in Int, NEW d \in Int
                 PROVE  Limits(Physical(base, d, g), 0, Inf)
        OBVIOUS
    <2>1. PICK r \in Rec : r = Baseline(base, d, g) /\ r.floor = 0 /\ r.ceil = Inf
        BY <1>2, ZenonT(60) DEF Limits
    <2>2. 0 \in Int /\ FALSE \in BOOLEAN
        OBVIOUS
    <2>3. Limits([r EXCEPT !.scaled = FALSE], r.floor, r.ceil)
        BY <2>2, EditedIs, Zenon
    <2> QED BY <2>1, <2>3, Zenon DEF Physical
<1>4. Limits(Count(base, sigma), 0, Inf)
    <2>1. 0 \in Int
        OBVIOUS
    <2>2. PICK r \in Rec : r = Physical(base, sigma, 0) /\ r.floor = 0 /\ r.ceil = Inf
        BY <1>3, <2>1, ZenonT(60) DEF Limits
    <2>3. Limits([r EXCEPT !.additive = TRUE, !.seasonal = FALSE], r.floor, r.ceil)
        BY <2>1, EditedIs, Zenon
    <2>4. Count(base, sigma) = [r EXCEPT !.additive = TRUE, !.seasonal = FALSE]
        BY <2>2, ZenonT(60) DEF Count
    <2> QED BY <2>2, <2>3, <2>4, ZenonT(60)
<1>5. Limits(Loss(base), 0, 10000)
    <2>1. 50 \in Int /\ 300 \in Int
        OBVIOUS
    <2>2. PICK r \in Rec : r = Physical(base, 50, 300) /\ r.floor = 0
        BY <1>3, <2>1, ZenonT(60) DEF Limits
    <2>3. PICK y \in Int : y = 10000
        OBVIOUS
    <2>4. Limits([r EXCEPT !.additive = TRUE, !.ceil = y], r.floor, y)
        BY EditedIs, Zenon
    <2>5. Limits([r EXCEPT !.additive = TRUE, !.ceil = y], 0, y)
        BY <2>2, <2>4, ZenonT(60)
    <2>6. Loss(base) = [r EXCEPT !.additive = TRUE, !.ceil = y]
        BY <2>2, <2>3 DEF Loss
    <2> QED BY <2>3, <2>5, <2>6
<1> QED BY <1>2, <1>3, <1>4, <1>5

Sound(b) == b \in Rec /\ b.floor <= b.ceil

LEMMA BaselinesAre == \A m \in DOMAIN DefaultBaselines : Sound(DefaultBaselines[m])
<1>0. Inf = 10000000
    BY SMT DEF Inf
<1>1. Sound([Baseline(4200, 60, 900) EXCEPT !.floor = 50, !.ceil = 10000])
    <2>1. PICK r \in Rec : r = Baseline(4200, 60, 900) /\ r.floor = 0 /\ r.ceil = Inf
        BY KindsAre, SMT DEF Limits
    <2>2. PICK x, y \in Int : x = 50 /\ y = 10000
        OBVIOUS
    <2>3. Limits([r EXCEPT !.floor = x, !.ceil = y], x, y)
        BY EditedIs, Zenon
    <2> QED BY <1>0, <2>1, <2>2, <2>3, SMT DEF Sound, Limits
<1>2. Sound([Baseline(30, 80, 700) EXCEPT !.additive = TRUE])
    <2>1. PICK r \in Rec : r = Baseline(30, 80, 700) /\ r.floor = 0 /\ r.ceil = Inf
        BY KindsAre, SMT DEF Limits
    <2>2. 0 \in Int
        OBVIOUS
    <2>3. Limits([r EXCEPT !.additive = TRUE], r.floor, r.ceil)
        BY <2>2, EditedIs, Zenon
    <2> QED BY <1>0, <2>1, <2>2, <2>3, SMT DEF Sound, Limits
<1>3. Sound(Count(5, 30))
    BY <1>0, KindsAre, SMT DEF Sound, Limits
<1>4. Sound([Physical(1800, 40, 350) EXCEPT !.floor = 100, !.ceil = 200000])
    <2>1. PICK r \in Rec : r = Physical(1800, 40, 350) /\ r.floor = 0 /\ r.ceil = Inf
        BY KindsAre, SMT DEF Limits
    <2>2. PICK x, y \in Int : x = 100 /\ y = 200000
        OBVIOUS
    <2>3. Limits([r EXCEPT !.floor = x, !.ceil = y], x, y)
        BY EditedIs, Zenon
    <2> QED BY <1>0, <2>1, <2>2, <2>3, SMT DEF Sound, Limits
<1>5. Sound([Physical(250, 120, 400) EXCEPT !.floor = 10, !.ceil = 50000])
    <2>1. PICK r \in Rec : r = Physical(250, 120, 400) /\ r.floor = 0 /\ r.ceil = Inf
        BY KindsAre, SMT DEF Limits
    <2>2. PICK x, y \in Int : x = 10 /\ y = 50000
        OBVIOUS
    <2>3. Limits([r EXCEPT !.floor = x, !.ceil = y], x, y)
        BY EditedIs, Zenon
    <2> QED BY <1>0, <2>1, <2>2, <2>3, SMT DEF Sound, Limits
<1>6. Sound(Loss(5))
    BY <1>0, KindsAre, SMT DEF Sound, Limits
<1>7. Sound(Baseline(600, 150, 800))
    BY <1>0, KindsAre, SMT DEF Sound, Limits
<1>8. Sound([Count(120, 90) EXCEPT !.seasonal = TRUE, !.gain = 500])
    <2>1. PICK r \in Rec : r = Count(120, 90) /\ r.floor = 0 /\ r.ceil = Inf
        BY KindsAre, SMT DEF Limits
    <2>2. PICK x, y \in Int : x = 500
        OBVIOUS
    <2>3. Limits([r EXCEPT !.seasonal = TRUE, !.gain = x], r.floor, r.ceil)
        BY EditedIs, Zenon
    <2> QED BY <1>0, <2>1, <2>2, <2>3, SMT DEF Sound, Limits
<1>9. Sound(Count(20, 60))
    BY <1>0, KindsAre, SMT DEF Sound, Limits
<1>10. Sound([Count(0, 0) EXCEPT !.ceil = 1000000])
    <2>1. PICK r \in Rec : r = Count(0, 0) /\ r.floor = 0 /\ r.ceil = Inf
        BY KindsAre, SMT DEF Limits
    <2>2. Limits([r EXCEPT !.ceil = 1000000], r.floor, 1000000)
        BY SMT DEF Limits, Rec
    <2> QED BY <1>0, <2>1, <2>2, SMT DEF Sound, Limits
<1>11. Sound([Count(0, 0) EXCEPT !.ceil = 1000000])
    <2>1. PICK r \in Rec : r = Count(0, 0) /\ r.floor = 0 /\ r.ceil = Inf
        BY KindsAre, SMT DEF Limits
    <2>2. Limits([r EXCEPT !.ceil = 1000000], r.floor, 1000000)
        BY SMT DEF Limits, Rec
    <2> QED BY <1>0, <2>1, <2>2, SMT DEF Sound, Limits
<1>12. Sound([Count(80, 70) EXCEPT !.ceil = 1000000])
    <2>1. PICK r \in Rec : r = Count(80, 70) /\ r.floor = 0 /\ r.ceil = Inf
        BY KindsAre, SMT DEF Limits
    <2>2. Limits([r EXCEPT !.ceil = 1000000], r.floor, 1000000)
        BY SMT DEF Limits, Rec
    <2> QED BY <1>0, <2>1, <2>2, SMT DEF Sound, Limits
<1>13. Sound([Count(30, 50) EXCEPT !.ceil = 1000000])
    <2>1. PICK r \in Rec : r = Count(30, 50) /\ r.floor = 0 /\ r.ceil = Inf
        BY KindsAre, SMT DEF Limits
    <2>2. Limits([r EXCEPT !.ceil = 1000000], r.floor, 1000000)
        BY SMT DEF Limits, Rec
    <2> QED BY <1>0, <2>1, <2>2, SMT DEF Sound, Limits
<1>14. Sound([Count(2, 40) EXCEPT !.ceil = 100])
    <2>1. PICK r \in Rec : r = Count(2, 40) /\ r.floor = 0 /\ r.ceil = Inf
        BY KindsAre, SMT DEF Limits
    <2>2. Limits([r EXCEPT !.ceil = 100], r.floor, 100)
        BY SMT DEF Limits, Rec
    <2> QED BY <1>0, <2>1, <2>2, SMT DEF Sound, Limits
<1>15. Sound(Loss(8))
    BY <1>0, KindsAre, SMT DEF Sound, Limits
<1>16. Sound([Physical(300, 140, 400) EXCEPT !.floor = 10, !.ceil = 50000])
    <2>1. PICK r \in Rec : r = Physical(300, 140, 400) /\ r.floor = 0 /\ r.ceil = Inf
        BY KindsAre, SMT DEF Limits
    <2>2. PICK x, y \in Int : x = 10 /\ y = 50000
        OBVIOUS
    <2>3. Limits([r EXCEPT !.floor = x, !.ceil = y], x, y)
        BY EditedIs, Zenon
    <2> QED BY <1>0, <2>1, <2>2, <2>3, SMT DEF Sound, Limits
<1>17. Sound([Physical(360000, 10, 0) EXCEPT !.floor = 6000, !.ceil = 8640000, !.seasonal = FALSE])
    <2>1. PICK r \in Rec : r = Physical(360000, 10, 0) /\ r.floor = 0 /\ r.ceil = Inf
        BY KindsAre, SMT DEF Limits
    <2>2. PICK x, y \in Int : x = 6000 /\ y = 8640000
        OBVIOUS
    <2>3. Limits([r EXCEPT !.floor = x, !.ceil = y, !.seasonal = FALSE], x, y)
        BY EditedIs, Zenon
    <2> QED BY <1>0, <2>1, <2>2, <2>3, SMT DEF Sound, Limits
<1>18. Sound([Count(0, 0) EXCEPT !.ceil = 100])
    <2>1. PICK r \in Rec : r = Count(0, 0) /\ r.floor = 0 /\ r.ceil = Inf
        BY KindsAre, SMT DEF Limits
    <2>2. Limits([r EXCEPT !.ceil = 100], r.floor, 100)
        BY SMT DEF Limits, Rec
    <2> QED BY <1>0, <2>1, <2>2, SMT DEF Sound, Limits
<1>19. Sound(DefaultBaselines.if_util_pct)
    BY <1>1, SMT DEF DefaultBaselines
<1>20. Sound(DefaultBaselines.if_out_discards)
    BY <1>2, SMT DEF DefaultBaselines
<1>21. Sound(DefaultBaselines.if_in_errors)
    BY <1>3, SMT DEF DefaultBaselines
<1>22. Sound(DefaultBaselines.latency_ms)
    BY <1>4, SMT DEF DefaultBaselines
<1>23. Sound(DefaultBaselines.jitter_ms)
    BY <1>5, SMT DEF DefaultBaselines
<1>24. Sound(DefaultBaselines.loss_pct)
    BY <1>6, SMT DEF DefaultBaselines
<1>25. Sound(DefaultBaselines.queue_depth)
    BY <1>7, SMT DEF DefaultBaselines
<1>26. Sound(DefaultBaselines.bgp_update_rate)
    BY <1>8, SMT DEF DefaultBaselines
<1>27. Sound(DefaultBaselines.bgp_withdraw_rate)
    BY <1>9, SMT DEF DefaultBaselines
<1>28. Sound(DefaultBaselines.bgp_flap_penalty)
    BY <1>10, SMT DEF DefaultBaselines
<1>29. Sound(DefaultBaselines.adj_flap_count)
    BY <1>11, SMT DEF DefaultBaselines
<1>30. Sound(DefaultBaselines.ospf_lsa_rate)
    BY <1>12, SMT DEF DefaultBaselines
<1>31. Sound(DefaultBaselines.ospf_spf_rate)
    BY <1>13, SMT DEF DefaultBaselines
<1>32. Sound(DefaultBaselines.path_asymmetry)
    BY <1>14, SMT DEF DefaultBaselines
<1>33. Sound(DefaultBaselines.tunnel_loss_pct)
    BY <1>15, SMT DEF DefaultBaselines
<1>34. Sound(DefaultBaselines.tunnel_jitter_ms)
    BY <1>16, SMT DEF DefaultBaselines
<1>35. Sound(DefaultBaselines.tunnel_rekey_interval_s)
    BY <1>17, SMT DEF DefaultBaselines
<1>36. Sound(DefaultBaselines.config_drift_score)
    BY <1>18, SMT DEF DefaultBaselines
<1>37. DOMAIN DefaultBaselines =
          {"if_util_pct", "if_out_discards", "if_in_errors", "latency_ms", "jitter_ms", "loss_pct",
           "queue_depth", "bgp_update_rate", "bgp_withdraw_rate", "bgp_flap_penalty", "adj_flap_count",
           "ospf_lsa_rate", "ospf_spf_rate", "path_asymmetry", "tunnel_loss_pct", "tunnel_jitter_ms",
           "tunnel_rekey_interval_s", "config_drift_score"}
    BY SMT DEF DefaultBaselines
<1> QED BY <1>19, <1>20, <1>21, <1>22, <1>23, <1>24, <1>25, <1>26, <1>27, <1>28,
            <1>29, <1>30, <1>31, <1>32, <1>33, <1>34, <1>35, <1>36, <1>37

LEMMA SinIs ==
    ASSUME NEW k \in Int
    PROVE  Sin(k) \in Int
<1> DEFINE quarter == <<0, 259, 500, 707, 866, 966, 1000>>
           half(n) == quarter[1 + Min({n, 12 - n})]
<1>1. \A n \in 0..12 : half(n) \in Int
    <2> SUFFICES ASSUME NEW n \in 0..12
                 PROVE  half(n) \in Int
        OBVIOUS
    <2>1. PICK i \in Int : i = Min({n, 12 - n}) /\ i \in 0..6
        <3>1. n \in Int /\ 12 - n \in Int
            OBVIOUS
        <3>2. Min({n, 12 - n}) \in Int /\ Min({n, 12 - n}) = IF n < 12 - n THEN n ELSE 12 - n
            BY <3>1, Smaller
        <3> QED BY <3>2
    <2>2. \A j \in 1..7 : quarter[j] \in Int
        OBVIOUS
    <2>3. 1 + i \in 1..7
        BY <2>1
    <2> QED BY <2>1, <2>2, <2>3
<1>2. k % 24 \in 0..23
    OBVIOUS
<1>3. PICK n \in 0..23 : n = k % 24
    BY <1>2
<1> HIDE DEF half
<1>4. (n <= 12 => half(n) \in Int) /\ (n > 12 => half(n - 12) \in Int)
    BY <1>1
<1>5. Sin(k) = IF n <= 12 THEN half(n) ELSE -half(n - 12)
    BY <1>3 DEF Sin, half
<1> QED BY <1>4, <1>5

LEMMA DiurnalIs ==
    ASSUME NEW hour \in Int, NEW weekend \in BOOLEAN
    PROVE  DiurnalMultiplier(hour, weekend) \in Int /\ DiurnalMultiplier(hour, weekend) <= 1050
<1>1. PICK k, n \in Int : k = (hour - 15 + 6) - 6 /\ n = hour - 13
    OBVIOUS
<1>2. PICK s \in Int : s = Sin(k)
    BY SinIs
<1>3. Of(420, s) \in Int
    BY OfIs
<1>4. Lunch(n) \in Int
    BY DEF Lunch
<1>5. PICK low \in Int : low = (550 + Of(420, s)) - Lunch(n)
    BY <1>3, <1>4
<1>6. Max({180, low}) \in Int
    BY Larger
<1>7. PICK load \in Int : load = Max({180, low})
    BY <1>6
<1>8. Of(load, 700) \in Int
    BY OfIs
<1>9. PICK v \in Int : v = IF weekend THEN Of(load, 700) ELSE load
    BY <1>8
<1>10. Min({1050, v}) \in Int /\ Min({1050, v}) = IF 1050 < v THEN 1050 ELSE v
    BY Smaller
<1>11. DiurnalMultiplier(hour, weekend) = Min({1050, v})
    <2>1. load = Max({180, (550 + Of(420, Sin((hour - 15 + 6) - 6))) - Lunch(hour - 13)})
        BY <1>1, <1>2, <1>5, <1>7
    <2>2. DiurnalMultiplier(hour, weekend) = Min({1050, IF weekend THEN Of(load, 700) ELSE load})
        BY <2>1, SMT DEF DiurnalMultiplier
    <2> QED BY <1>9, <2>2
<1> QED BY <1>10, <1>11

LEMMA SampleIs ==
    ASSUME NEW b \in Rec, b.floor <= b.ceil, NEW draw \in Int, NEW dm \in Int, NEW weight \in Int
    PROVE  Sample(b, draw, dm, weight) \in Int /\ Sample(b, draw, dm, weight) \in b.floor..b.ceil
<1>1. PICK base, sigma, floor, ceil, gain \in Int :
          /\ base = b.base /\ sigma = b.sigma /\ floor = b.floor /\ ceil = b.ceil /\ gain = b.gain
          /\ floor <= ceil
    BY DEF Rec
<1>2. PICK load \in Int : load = IF b.scaled THEN Of(base, weight) ELSE base
    <2>1. Of(base, weight) \in Int
        BY OfIs
    <2> QED BY <2>1
<1>3. PICK share \in Int : share = (1000 - gain) + Of(dm, gain)
    <2>1. Of(dm, gain) \in Int
        BY OfIs
    <2> QED BY <2>1
<1>4. PICK level \in Int : level = IF b.seasonal THEN Of(load, share) ELSE load
    <2>1. Of(load, share) \in Int
        BY OfIs
    <2> QED BY <2>1
<1>5. PICK noise \in Int : noise = draw * sigma
    OBVIOUS
<1>6. PICK more \in Int : more = 1000 + noise
    OBVIOUS
<1>7. PICK x \in Int : x = IF b.additive THEN level + noise ELSE Of(level, more)
    <2>1. Of(level, more) \in Int
        BY OfIs
    <2> QED BY <2>1
<1>8. Clamp(x, floor, ceil) = IF x < floor THEN floor ELSE IF x > ceil THEN ceil ELSE x
    BY <1>1, ClampIs
<1>9. Sample(b, draw, dm, weight) = Clamp(x, floor, ceil)
    BY <1>1, <1>2, <1>3, <1>4, <1>5, <1>6, <1>7 DEF Sample
<1> QED BY <1>1, <1>8, <1>9
-------------------------------------------------------------------------------
(* The schedule: an injector adds nothing before its onset, and nothing but *)
(* a residue of noise once it has cleared.                                  *)
Scripts == {"A", "B", "C", "D"}

LEMMA ScheduledInOrder ==
    ASSUME config.duration \in Nat, NEW s \in Scripts
    PROVE  Timed(SpecOf(s)) /\ (config.duration >= 100 => SpecOf(s).fault < SpecOf(s).end)
<1>1. PICK d \in Nat : d = config.duration
    OBVIOUS
<1>2. \A l \in {<<12, 28, 45>>, <<30, 40, 55>>, <<50, 62, 80>>, <<70, 78, 92>>} :
         LET p == (d * l[1]) \div 100
             f == (d * l[2]) \div 100
             e == (d * l[3]) \div 100
         IN p \in Int /\ f \in Int /\ e \in Int /\ p <= f /\ f <= e /\ (d >= 100 => f < e)
    OBVIOUS
<1>3. Layout[s] \in {<<12, 28, 45>>, <<30, 40, 55>>, <<50, 62, 80>>, <<70, 78, 92>>}
    BY DEF Layout, Scripts
<1>4. /\ SpecOf(s).precursor = (d * Layout[s][1]) \div 100
      /\ SpecOf(s).fault = (d * Layout[s][2]) \div 100
      /\ SpecOf(s).end = (d * Layout[s][3]) \div 100
    BY <1>1, Zenon DEF SpecOf
<1> QED BY <1>1, <1>2, <1>3, <1>4 DEF Timed

(* What the injectors leave behind of a draw.                               *)
LeftBehind(s, metric, draw) ==
    CASE s = "A" /\ metric = "jitter_ms" -> draw * 150
      [] s = "D" /\ metric = "config_drift_score" -> draw
      [] OTHER -> 0

Injected(s, t, e, metric, draw) ==
    IF s \in config.scenarios THEN ApplyInjection(SpecOf(s), t, e, metric, draw) ELSE 0

Touches(s, t, e) == /\ s \in config.scenarios
                    /\ e \in {SpecOf(s).target} \cup SpecOf(s).fanout
                    /\ t >= Onset(s)

LEMMA InjectedIs ==
    ASSUME config.duration \in Nat, NEW s \in Scripts, NEW t \in Int, NEW e, NEW metric, NEW draw \in Int
    PROVE  /\ Injected(s, t, e, metric, draw) \in Int
           /\ Injected(s, t, e, metric, draw) # 0 => Touches(s, t, e)
           /\ t >= Cleared(s) => Injected(s, t, e, metric, draw) \in {0, LeftBehind(s, metric, draw)}
           /\ Onset(s) \in Int /\ Cleared(s) \in Int
<1> DEFINE spec == SpecOf(s)
           x    == ApplyInjection(spec, t, e, metric, draw)
<1>1. /\ spec.scenario = s
      /\ spec.precursor \in Int /\ spec.fault \in Int /\ spec.end \in Int
      /\ Timed(spec)
    BY ScheduledInOrder DEF SpecOf, Timed
<1>2. Cleared(s) = spec.end + 6000
    BY DEF Cleared, Label
<1>3. Onset(s) \in Int
    <2>1. PICK p, f \in Int : p = spec.precursor /\ f = spec.fault - PushLead
        BY <1>1 DEF PushLead
    <2>2. Min({p, f}) \in Int
        BY Smaller
    <2> QED BY <2>1, <2>2 DEF Onset, Label
<1> HIDE DEF spec
<1>4. CASE e \notin {spec.target} \cup spec.fanout
    <2>1. x = 0
        BY <1>4 DEF ApplyInjection
    <2> QED BY <1>1, <1>2, <1>3, <2>1 DEF Injected, spec
<1>5. CASE e \in {spec.target} \cup spec.fanout
    <2>1. Adds(x, t, Onset(s), Cleared(s), LeftBehind(s, metric, draw))
        <3>1. CASE s = "A"
            <4>1. x = InjectCongestion(spec, t, metric, draw)
                BY <1>1, <1>5, <3>1 DEF ApplyInjection
            <4>2. Onset(s) = spec.precursor
                BY <3>1 DEF Onset, Label, spec
            <4>3. LeftBehind(s, metric, draw) = IF metric = "jitter_ms" THEN draw * 150 ELSE 0
                BY <3>1 DEF LeftBehind
            <4> QED BY <1>1, <1>2, <4>1, <4>2, <4>3, CongestionAdds
        <3>2. CASE s = "B"
            <4>1. x = InjectBgpFlap(spec, t, metric, draw)
                BY <1>1, <1>5, <3>2 DEF ApplyInjection
            <4>2. Onset(s) = spec.precursor
                BY <3>2 DEF Onset, Label, spec
            <4>3. LeftBehind(s, metric, draw) = 0
                BY <3>2 DEF LeftBehind
            <4> QED BY <1>1, <1>2, <4>1, <4>2, <4>3, BgpFlapAdds
        <3>3. CASE s = "C"
            <4>1. x = InjectTunnelDegradation(spec, t, metric, draw)
                BY <1>1, <1>5, <3>3 DEF ApplyInjection
            <4>2. Onset(s) = spec.precursor
                BY <3>3 DEF Onset, Label, spec
            <4>3. LeftBehind(s, metric, draw) = 0
                BY <3>3 DEF LeftBehind
            <4> QED BY <1>1, <1>2, <4>1, <4>2, <4>3, TunnelDegradationAdds
        <3>4. CASE s = "D"
            <4>1. x = InjectPolicyDrift(spec, t, metric, draw)
                BY <1>1, <1>5, <3>4 DEF ApplyInjection
            <4>2. Onset(s) = Min({spec.precursor, spec.fault - PushLead})
                BY <3>4 DEF Onset, Label, spec
            <4>3. LeftBehind(s, metric, draw) = IF metric = "config_drift_score" THEN draw ELSE 0
                BY <3>4 DEF LeftBehind
            <4> QED BY <1>1, <1>2, <4>1, <4>2, <4>3, PolicyDriftAdds
        <3> QED BY <3>1, <3>2, <3>3, <3>4 DEF Scripts
    <2>2. PICK on, c \in Int : on = Onset(s) /\ c = Cleared(s)
        BY <1>1, <1>2, <1>3
    <2>3. /\ x \in Int
          /\ t < on => x = 0
          /\ t >= c => x \in {0, LeftBehind(s, metric, draw)}
        BY <2>1, <2>2, Zenon DEF Adds
    <2>4. CASE s \in config.scenarios
        <3>1. Injected(s, t, e, metric, draw) = x
            BY <2>4, Zenon DEF Injected, spec
        <3>2. e \in {SpecOf(s).target} \cup SpecOf(s).fanout
            BY <1>5, Zenon DEF spec
        <3>3. t >= on => Touches(s, t, e)
            BY <2>2, <2>4, <3>2, Zenon DEF Touches
        <3> HIDE DEF x
        <3> QED BY <2>2, <2>3, <3>1, <3>3
    <2>5. CASE s \notin config.scenarios
        BY <2>2, <2>5 DEF Injected
    <2> QED BY <2>4, <2>5
<1> QED BY <1>4, <1>5
-------------------------------------------------------------------------------
(* The streams: what one differs by from its healthy self is due to a       *)
(* scenario that touches it.                                                *)
LEMMA SitesAre == \A d \in DeviceNames : Devices[d].site \in DOMAIN SiteWeight
<1> DEFINE W == {"dc", "hub", "br1", "br2", "br3", "core"}
           hub == [DatacenterPe({"rr_dc", "pe_dc1"}, {"eth1", "eth2", "eth3"})
                       EXCEPT !.site = "hub", !.siteType = "hub"]
<1>1. W \subseteq DOMAIN SiteWeight
    BY SMT DEF SiteWeight
<1>2. /\ Core.site = "core"
      /\ \A p, i : DatacenterPe(p, i).site = "dc"
      /\ \A s, y, u, v : Ce(s, y, u, v).site = s
      /\ \A o, p : Control(o, p).site = "dc"
    BY SMT DEF Core, DatacenterPe, Ce, Control
<1>3. hub.site = "hub"
    <2>1. \A p, i : "site" \in DOMAIN DatacenterPe(p, i)
        BY SMT DEF DatacenterPe
    <2>2. \A f : "site" \in DOMAIN f => [f EXCEPT !.site = "hub", !.siteType = "hub"].site = "hub"
        BY SMT
    <2> QED BY <2>1, <2>2, Zenon
<1> HIDE DEF hub
<1>4. DOMAIN Devices = {"p1", "p2", "p3", "p4", "pe_dc1", "pe_dc2", "ce_dc", "rr_dc", "pe_hub",
                        "ce_hub", "ce_br1", "ce_br2", "ce_br3", "sdwan_ctl"}
    BY SMT DEF Devices
<1>5. /\ Devices.p1.site \in W /\ Devices.p2.site \in W /\ Devices.p3.site \in W
      /\ Devices.p4.site \in W
    BY <1>2, SMT DEF Devices
<1>6. Devices.pe_dc1.site \in W /\ Devices.pe_dc2.site \in W
    BY <1>2, SMT DEF Devices
<1>7. Devices.ce_dc.site \in W /\ Devices.ce_hub.site \in W
    BY <1>2, SMT DEF Devices
<1>8. Devices.ce_br1.site \in W /\ Devices.ce_br2.site \in W /\ Devices.ce_br3.site \in W
    BY <1>2, SMT DEF Devices
<1>9. Devices.rr_dc.site \in W /\ Devices.sdwan_ctl.site \in W
    BY <1>2, SMT DEF Devices
<1>10. Devices.pe_hub.site \in W
    <2>1. Devices.pe_hub = hub
        BY Zenon DEF Devices, hub
    <2> QED BY <1>3, <2>1, Zenon
<1> HIDE DEF W
<1> QED BY <1>1, <1>4, <1>5, <1>6, <1>7, <1>8, <1>9, <1>10, Zenon DEF DeviceNames

LEMMA SiteOfEntity ==
    ASSUME NEW d, NEW sub
    PROVE  /\ Site(DeviceEntityId(d)) = Devices[d].site
           /\ Site(SubEntityId(d, sub)) = Devices[d].site
<1> DEFINE S == {Devices[d].site, d, Devices[d].role, sub}
<1>1. DeviceEntityId(d) \in Seq(S) /\ Len(DeviceEntityId(d)) = 3 /\ DeviceEntityId(d)[1] = Devices[d].site
    BY DEF DeviceEntityId
<1>2. Append(DeviceEntityId(d), sub)[1] = DeviceEntityId(d)[1]
    <2>1. ASSUME NEW T, NEW s \in Seq(T), NEW x \in T, Len(s) = 3
          PROVE  Append(s, x)[1] = s[1]
        <3>1. 1 \in 1..Len(s)
            BY <2>1
        <3>2. \A i \in 1..Len(s) : Append(s, x)[i] = s[i]
            BY AppendProperties
        <3> QED BY <3>1, <3>2, Zenon
    <2> HIDE DEF S
    <2>2. sub \in S
        BY DEF S
    <2> QED BY <1>1, <2>1, <2>2, Zenon
<1> QED BY <1>1, <1>2, Zenon DEF Site, SubEntityId

IsStream(e, metric) == Site(e) \in DOMAIN SiteWeight /\ metric \in DOMAIN DefaultBaselines

LEMMA StreamsAre ==
    ASSUME NEW d \in DeviceNames, NEW x \in Streams(d)
    PROVE  IsStream(x[1], x[2])
<1>1. InterfaceMetrics \cup TunnelMetrics \cup PeerMetrics \cup {"latency_ms", "config_drift_score"}
          \subseteq DOMAIN DefaultBaselines
    BY SMT DEF InterfaceMetrics, TunnelMetrics, PeerMetrics, DefaultBaselines
<1>2. \E e, m : x = <<e, m>> /\ m \in DOMAIN DefaultBaselines
                /\ (e = DeviceEntityId(d) \/ \E sub : e = SubEntityId(d, sub))
    <2> DEFINE Own(e) == e = DeviceEntityId(d) \/ \E sub : e = SubEntityId(d, sub)
    <2>1. \A E, M : /\ x \in E \X M
                    /\ M \subseteq DOMAIN DefaultBaselines
                    /\ \A e \in E : Own(e)
                    => \E e, m : x = <<e, m>> /\ m \in DOMAIN DefaultBaselines /\ Own(e)
        <3> HIDE DEF Own
        <3> SUFFICES ASSUME NEW E, NEW M, x \in E \X M, M \subseteq DOMAIN DefaultBaselines,
                            \A e \in E : Own(e)
                     PROVE  \E e, m : x = <<e, m>> /\ m \in DOMAIN DefaultBaselines /\ Own(e)
            OBVIOUS
        <3>1. PICK e \in E, m \in M : x = <<e, m>>
            BY SMT
        <3> QED BY <3>1, Zenon
    <2>2. /\ \A e \in {DeviceEntityId(d)} : Own(e)
          /\ \A e \in {SubEntityId(d, i) : i \in Devices[d].interfaces} : Own(e)
          /\ \A e \in Tunnels(d) : Own(e)
          /\ \A e \in Peers(d) : Own(e)
        BY Zenon DEF Tunnels, Peers
    <2>3. /\ {"config_drift_score"} \subseteq DOMAIN DefaultBaselines
          /\ InterfaceMetrics \subseteq DOMAIN DefaultBaselines
          /\ TunnelMetrics \cup {"latency_ms"} \subseteq DOMAIN DefaultBaselines
          /\ PeerMetrics \subseteq DOMAIN DefaultBaselines
        BY <1>1, Zenon
    <2> SUFFICES \E e, m : x = <<e, m>> /\ m \in DOMAIN DefaultBaselines /\ Own(e)
        OBVIOUS
    <2> HIDE DEF Own
    <2>4. CASE x \in {DeviceEntityId(d)} \X {"config_drift_score"}
        <3>1. PICK e \in {DeviceEntityId(d)}, m \in {"config_drift_score"} : x = <<e, m>>
            BY <2>4, SMT
        <3> QED BY <2>2, <2>3, <3>1, Zenon
    <2>5. CASE x \in {SubEntityId(d, i) : i \in Devices[d].interfaces} \X InterfaceMetrics
        BY <2>1, <2>2, <2>3, <2>5, Zenon
    <2>6. CASE x \in Tunnels(d) \X (TunnelMetrics \cup {"latency_ms"})
        BY <2>1, <2>2, <2>3, <2>6, Zenon
    <2>7. CASE x \in Peers(d) \X PeerMetrics
        BY <2>1, <2>2, <2>3, <2>7, Zenon
    <2> QED BY <2>4, <2>5, <2>6, <2>7, Zenon DEF Streams
<1>3. PICK e, m : x = <<e, m>> /\ m \in DOMAIN DefaultBaselines
                  /\ (e = DeviceEntityId(d) \/ \E sub : e = SubEntityId(d, sub))
    BY <1>2
<1>4. Site(e) = Devices[d].site
    BY <1>3, SiteOfEntity, Zenon
<1> QED BY <1>3, <1>4, SitesAre, Zenon DEF IsStream

ConfigOK == config \in Configs

LEMMA ConfigIs ==
    ASSUME ConfigOK
    PROVE  /\ config.step \in Nat \ {0} /\ config.duration \in Nat \ {0}
           /\ config.hour \in 0..23 /\ config.weekend \in BOOLEAN
           /\ config.scenarios \subseteq Scripts
BY ConfigAssumption, Zenon DEF ConfigOK, Scripts

LEMMA HourIs ==
    ASSUME ConfigOK, NEW t \in Nat
    PROVE  Hour(t) \in Int
<1>1. PICK h, q \in Int : h = config.hour /\ q = t \div 360000
    BY ConfigIs
<1>2. (h + q) % 24 \in Int
    OBVIOUS
<1> QED BY <1>1, <1>2 DEF Hour

LEMMA HealthyIs ==
    ASSUME ConfigOK, NEW e, NEW metric, IsStream(e, metric), NEW t \in Nat, NEW draw \in Int
    PROVE  /\ Healthy(e, metric, t, draw) \in Int
           /\ DefaultBaselines[metric].floor \in Int /\ DefaultBaselines[metric].ceil \in Int
           /\ DefaultBaselines[metric].floor <= Healthy(e, metric, t, draw)
           /\ Healthy(e, metric, t, draw) <= DefaultBaselines[metric].ceil
<1>1. PICK b \in Rec : b = DefaultBaselines[metric] /\ b.floor <= b.ceil
    BY BaselinesAre, Zenon DEF IsStream, Sound
<1>2. PICK dm \in Int : dm = DiurnalMultiplier(Hour(t), config.weekend)
    <2>1. PICK h \in Int : h = Hour(t)
        BY HourIs
    <2>2. PICK w \in BOOLEAN : w = config.weekend
        BY ConfigIs
    <2>3. DiurnalMultiplier(h, w) \in Int
        BY DiurnalIs
    <2> QED BY <2>1, <2>2, <2>3
<1>3. PICK w \in Int : w = SiteWeight[Site(e)]
    BY DEF IsStream, SiteWeight
<1>4. Sample(b, draw, dm, w) \in Int /\ Sample(b, draw, dm, w) \in b.floor..b.ceil
    BY <1>1, SampleIs
<1>5. Healthy(e, metric, t, draw) = Sample(b, draw, dm, w)
    BY <1>1, <1>2, <1>3, Zenon DEF Healthy
<1>6. b.floor \in Int /\ b.ceil \in Int
    BY DEF Rec
<1> QED BY <1>1, <1>4, <1>5, <1>6

Off(e, metric, t, draw) == Value(e, metric, t, draw) - Healthy(e, metric, t, draw)

(* The noise that is left of a draw once both scenarios that leave some     *)
(* have cleared: no metric is left with that of both.                       *)
Rest(metric, draw) ==
    CASE metric = "jitter_ms" -> draw * 150 [] metric = "config_drift_score" -> draw [] OTHER -> 0

LEMMA ValueIs ==
    ASSUME ConfigOK, NEW e, NEW metric, IsStream(e, metric), NEW t \in Nat, NEW draw \in Int
    PROVE  /\ Value(e, metric, t, draw) \in Int
           /\ Off(e, metric, t, draw) # 0 =>
                 \E s \in Scripts :
                    /\ Touches(s, t, e)
                    /\ \/ t < Cleared(s)
                       \/ Off(e, metric, t, draw) \in 0..Rest(metric, draw) \cup Rest(metric, draw)..0
<1>1. PICK h, lo, hi \in Int : /\ h = Healthy(e, metric, t, draw)
                               /\ lo = DefaultBaselines[metric].floor
                               /\ hi = DefaultBaselines[metric].ceil
                               /\ lo <= h /\ h <= hi
    BY HealthyIs, Zenon
<1>2. \A s \in Scripts : /\ Injected(s, t, e, metric, draw) \in Int
                         /\ Injected(s, t, e, metric, draw) # 0 => Touches(s, t, e)
                         /\ t >= Cleared(s) =>
                               Injected(s, t, e, metric, draw) \in {0, LeftBehind(s, metric, draw)}
                         /\ Cleared(s) \in Int
    <2>1. config.duration \in Nat /\ t \in Int
        BY ConfigIs
    <2> QED BY <2>1, InjectedIs
<1>3. PICK a, b, c, d \in Int : /\ a = Injected("A", t, e, metric, draw)
                                /\ b = Injected("B", t, e, metric, draw)
                                /\ c = Injected("C", t, e, metric, draw)
                                /\ d = Injected("D", t, e, metric, draw)
    BY <1>2, Zenon DEF Scripts
<1>4. PICK sum \in Int : sum = h + a + b + c + d
    OBVIOUS
<1>5. Value(e, metric, t, draw) = Clamp(sum, lo, hi)
    <2>1. Value(e, metric, t, draw) =
              Clamp(Healthy(e, metric, t, draw) + Injected("A", t, e, metric, draw)
                        + Injected("B", t, e, metric, draw) + Injected("C", t, e, metric, draw)
                        + Injected("D", t, e, metric, draw),
                    DefaultBaselines[metric].floor, DefaultBaselines[metric].ceil)
        BY Zenon DEF Value, Injected
    <2> QED BY <1>1, <1>3, <1>4, <2>1, Zenon
<1>6. PICK v \in Int : v = Value(e, metric, t, draw) /\ v = IF sum < lo THEN lo ELSE IF sum > hi THEN hi ELSE sum
    <2>1. Clamp(sum, lo, hi) = IF sum < lo THEN lo ELSE IF sum > hi THEN hi ELSE sum
        <3>1. lo <= hi
            BY <1>1
        <3> QED BY <3>1, ClampIs
    <2> QED BY <1>5, <2>1
<1>7. PICK off \in Int : off = Off(e, metric, t, draw) /\ off = v - h
    BY <1>1, <1>6 DEF Off
<1>8. ASSUME off # 0
      PROVE  \E s \in Scripts :
                /\ Touches(s, t, e)
                /\ (t < Cleared(s) \/ off \in 0..Rest(metric, draw) \cup Rest(metric, draw)..0)
    <2>1. CASE \E s \in Scripts : Touches(s, t, e) /\ t < Cleared(s)
        BY <2>1
    <2>2. CASE \A s \in Scripts : Touches(s, t, e) => ~(t < Cleared(s))
        <3>1. \A s \in Scripts : Injected(s, t, e, metric, draw) \in {0, LeftBehind(s, metric, draw)}
            BY <1>2, <2>2
        <3>2. /\ LeftBehind("B", metric, draw) = 0 /\ LeftBehind("C", metric, draw) = 0
              /\ LeftBehind("A", metric, draw) \in {0, Rest(metric, draw)}
              /\ LeftBehind("D", metric, draw) \in {0, Rest(metric, draw)}
              /\ LeftBehind("A", metric, draw) = 0 \/ LeftBehind("D", metric, draw) = 0
            BY DEF LeftBehind, Rest
        <3>3. PICK r \in Int : r = Rest(metric, draw)
            BY DEF Rest
        <3>4. b = 0 /\ c = 0 /\ a \in {0, r} /\ d \in {0, r} /\ (a = 0 \/ d = 0)
            BY <1>3, <3>1, <3>2, <3>3 DEF Scripts
        <3>5. off \in 0..r \cup r..0
            <4>1. sum = h \/ sum = h + r
                BY <1>4, <3>4
            <4>2. (r >= 0 => 0 <= off /\ off <= r) /\ (r < 0 => r <= off /\ off <= 0)
                BY <1>1, <1>6, <1>7, <4>1
            <4> QED BY <4>2
        <3>6. a # 0 \/ d # 0
            BY <1>1, <1>4, <1>6, <1>7, <1>8, <3>4
        <3>7. \E s \in Scripts : Touches(s, t, e)
            BY <1>2, <1>3, <3>6, Zenon DEF Scripts
        <3> QED BY <3>3, <3>5, <3>7, Zenon
    <2> QED BY <2>1, <2>2
<1> QED BY <1>6, <1>7, <1>8, Zenon
-------------------------------------------------------------------------------
(* The thresholds of the log: by itself no metric reaches them, at any hour *)
(* and with any draw within 16 sigma.                                       *)
(* The fields that sample() computes a value from.                          *)
Shape(b, base, sigma, gain, seasonal, additive, scaled) ==
    /\ b.base = base /\ b.sigma = sigma /\ b.gain = gain
    /\ b.seasonal = seasonal /\ b.additive = additive /\ b.scaled = scaled

LEMMA ShapeOf ==
    ASSUME NEW r \in Rec, NEW x \in Int, NEW y \in Int, NEW o \in BOOLEAN, NEW p \in BOOLEAN
    PROVE  /\ Shape([r EXCEPT !.scaled = o], r.base, r.sigma, r.gain, r.seasonal, r.additive, o)
           /\ Shape([r EXCEPT !.additive = o, !.seasonal = p], r.base, r.sigma, r.gain, p, o, r.scaled)
           /\ Shape([r EXCEPT !.additive = o, !.ceil = y], r.base, r.sigma, r.gain, r.seasonal, o, r.scaled)
           /\ Shape([r EXCEPT !.seasonal = o, !.gain = x], r.base, r.sigma, x, o, r.additive, r.scaled)
           /\ Shape([r EXCEPT !.ceil = y], r.base, r.sigma, r.gain, r.seasonal, r.additive, r.scaled)
           /\ Shape([r EXCEPT !.floor = x, !.ceil = y, !.seasonal = o],
                    r.base, r.sigma, r.gain, o, r.additive, r.scaled)
BY SMT DEF Shape, Rec

LEMMA PhysicalIs ==
    ASSUME NEW base \in Int, NEW sigma \in Int, NEW gain \in Int
    PROVE  /\ Physical(base, sigma, gain) \in Rec
           /\ Shape(Physical(base, sigma, gain), base, sigma, gain, TRUE, FALSE, FALSE)
<1>1. Baseline(base, sigma, gain) \in Rec /\ Physical(base, sigma, gain) \in Rec
    BY KindsAre, SMT DEF Limits
<1>2. PICK r \in Rec : r = Baseline(base, sigma, gain)
    BY <1>1
<1>3. /\ r.base = base /\ r.sigma = sigma /\ r.gain = gain /\ r.seasonal = TRUE
      /\ r.additive = FALSE
    BY <1>2, SMT DEF Baseline
<1>4. Physical(base, sigma, gain) = [r EXCEPT !.scaled = FALSE]
    BY <1>2, Zenon DEF Physical
<1>5. 0 \in Int
    OBVIOUS
<1>6. Shape([r EXCEPT !.scaled = FALSE], r.base, r.sigma, r.gain, r.seasonal, r.additive, FALSE)
    BY ShapeOf, <1>5, Zenon
<1> QED BY <1>1, <1>3, <1>4, <1>5, <1>6, Zenon

(* What MetricBaseline.sample makes of a baseline that is not scaled.       *)
Level(b, dm) == IF b.seasonal THEN Of(b.base, (1000 - b.gain) + Of(dm, b.gain)) ELSE b.base

Factor(b, draw) == 1000 + draw * b.sigma

LEMMA AdditiveSample ==
    ASSUME NEW b, b.scaled = FALSE, b.additive = TRUE, NEW draw, NEW dm, NEW w
    PROVE  Sample(b, draw, dm, w) = Clamp(Level(b, dm) + draw * b.sigma, b.floor, b.ceil)
BY SMT DEF Sample, Level

LEMMA ScaledSample ==
    ASSUME NEW b, b.scaled = FALSE, b.additive = FALSE, NEW draw, NEW dm, NEW w
    PROVE  Sample(b, draw, dm, w) = Clamp(Of(Level(b, dm), Factor(b, draw)), b.floor, b.ceil)
BY SMT DEF Sample, Level, Factor

(* Nothing flaps, and no configuration drifts, by itself.                   *)
LEMMA NothingByItself ==
    ASSUME NEW y \in Nat, NEW draw \in Int, NEW dm \in Int, NEW w
    PROVE  Sample([Count(0, 0) EXCEPT !.ceil = y], draw, dm, w) = 0
<1>1. PICK n \in Int : n = 0
    OBVIOUS
<1>2. PICK r \in Rec : r = Physical(0, 0, 0) /\ Shape(r, n, n, n, TRUE, FALSE, FALSE)
    <2>1. Physical(n, n, n) \in Rec /\ Shape(Physical(n, n, n), n, n, n, TRUE, FALSE, FALSE)
        BY PhysicalIs
    <2> QED BY <1>1, <2>1, Zenon
<1>3. PICK c \in Rec : c = Count(0, 0) /\ c.floor = 0 /\ Shape(c, n, n, n, FALSE, TRUE, FALSE)
    <2>1. Count(0, 0) = [r EXCEPT !.additive = TRUE, !.seasonal = FALSE]
        BY <1>1, <1>2, Zenon DEF Count
    <2>2. Limits(Count(n, n), 0, Inf)
        BY KindsAre
    <2>3. Shape([r EXCEPT !.additive = TRUE, !.seasonal = FALSE], r.base, r.sigma, r.gain, FALSE, TRUE, r.scaled)
        BY ShapeOf, Zenon
    <2>4. r.base = n /\ r.sigma = n /\ r.gain = n /\ r.scaled = FALSE
        BY <1>2, Zenon DEF Shape
    <2> QED BY <1>1, <2>1, <2>2, <2>3, <2>4, ZenonT(60) DEF Limits
<1>4. PICK i \in Int : i = y
    OBVIOUS
<1>5. PICK b \in Rec : /\ b = [Count(0, 0) EXCEPT !.ceil = y] /\ b.floor = 0 /\ b.ceil = y
                       /\ Shape(b, n, n, n, FALSE, TRUE, FALSE)
    <2>1. Limits([c EXCEPT !.ceil = i], c.floor, i)
        BY <1>1, EditedIs, Zenon
    <2>2. Shape([c EXCEPT !.ceil = i], c.base, c.sigma, c.gain, c.seasonal, c.additive, c.scaled)
        BY ShapeOf, Zenon
    <2>3. /\ c.base = n /\ c.sigma = n /\ c.gain = n /\ c.seasonal = FALSE /\ c.additive = TRUE
          /\ c.scaled = FALSE
        BY <1>3, Zenon DEF Shape
    <2> QED BY <1>3, <1>4, <2>1, <2>2, <2>3, ZenonT(60) DEF Limits
<1>6. Sample(b, draw, dm, w) = Clamp(n, b.floor, b.ceil)
    <2>1. /\ b.base = n /\ b.sigma = n /\ b.gain = n /\ b.seasonal = FALSE
          /\ b.additive = TRUE /\ b.scaled = FALSE
        BY <1>5, Zenon DEF Shape
    <2>2. Level(b, dm) = n
        BY <2>1 DEF Level
    <2>3. Sample(b, draw, dm, w) = Clamp(Level(b, dm) + draw * b.sigma, b.floor, b.ceil)
        BY <2>1, AdditiveSample, Zenon
    <2>4. n + draw * n = n
        BY <1>1
    <2> QED BY <2>1, <2>2, <2>3, <2>4, Zenon
<1>7. Clamp(n, n, i) = n
    <2>1. n <= i
        BY <1>1, <1>4
    <2> QED BY <2>1, ClampIs
<1> QED BY <1>1, <1>4, <1>5, <1>6, <1>7, Zenon

(* The time of day, whatever it does.                                       *)
LEMMA DaytimeIs ==
    ASSUME ConfigOK, NEW t \in Nat
    PROVE  /\ DiurnalMultiplier(Hour(t), config.weekend) \in Int
           /\ DiurnalMultiplier(Hour(t), config.weekend) <= 1050
<1>1. PICK h \in Int : h = Hour(t)
    BY HourIs
<1>2. PICK w \in BOOLEAN : w = config.weekend
    BY ConfigIs
<1>3. DiurnalMultiplier(h, w) \in Int /\ DiurnalMultiplier(h, w) <= 1050
    BY DiurnalIs
<1> QED BY <1>1, <1>2, <1>3

LEMMA QuietWithout ==
    ASSUME NEW e, NEW t \in Nat, NEW draw \in Int, ConfigOK
    PROVE  /\ Healthy(e, "adj_flap_count", t, draw) = 0
           /\ Healthy(e, "config_drift_score", t, draw) = 0
<1>1. PICK dm \in Int : dm = DiurnalMultiplier(Hour(t), config.weekend)
    BY DaytimeIs
<1>2. PICK x, y \in Nat : x = 1000000 /\ y = 100
    OBVIOUS
<1>3. /\ DefaultBaselines.adj_flap_count = [Count(0, 0) EXCEPT !.ceil = x]
      /\ DefaultBaselines.config_drift_score = [Count(0, 0) EXCEPT !.ceil = y]
    BY <1>2, SMT DEF DefaultBaselines
<1>4. /\ Sample([Count(0, 0) EXCEPT !.ceil = x], draw, dm, SiteWeight[Site(e)]) = 0
      /\ Sample([Count(0, 0) EXCEPT !.ceil = y], draw, dm, SiteWeight[Site(e)]) = 0
    BY NothingByItself, Zenon
<1> QED BY <1>1, <1>3, <1>4, Zenon DEF Healthy

(* What is lost and announced in the best of times: far from a threshold.   *)
LEMMA LossStaysLow ==
    ASSUME NEW draw \in -16..16, NEW dm \in Int, dm <= 1050, NEW w
    PROVE  Sample(DefaultBaselines.tunnel_loss_pct, draw, dm, w) < 8000
<1>1. PICK base, sigma, gain, top \in Int : base = 8 /\ sigma = 50 /\ gain = 300 /\ top = 10000
    OBVIOUS
<1>2. PICK r \in Rec : r = Physical(base, sigma, gain) /\ Shape(r, base, sigma, gain, TRUE, FALSE, FALSE)
    BY PhysicalIs, ZenonT(60)
<1>3. Limits(Loss(base), 0, top)
    BY <1>1, KindsAre
<1>4. PICK b \in Rec : b = Loss(base) /\ b.floor = 0 /\ b.ceil = top
    BY <1>3, ZenonT(60) DEF Limits
<1>5. b = [r EXCEPT !.additive = TRUE, !.ceil = top]
    BY <1>1, <1>2, <1>4 DEF Loss
<1>6. /\ b.base = base /\ b.sigma = sigma /\ b.gain = gain /\ b.seasonal = TRUE
      /\ b.additive = TRUE /\ b.scaled = FALSE
    <2>1. Shape([r EXCEPT !.additive = TRUE, !.ceil = top],
                r.base, r.sigma, r.gain, r.seasonal, TRUE, r.scaled)
        BY ShapeOf, ZenonT(60)
    <2> QED BY <1>2, <1>5, <2>1, ZenonT(60) DEF Shape
<1>7. PICK share \in Int : share = (1000 - gain) + Of(dm, gain) /\ share <= 1015
    <2>1. PICK q \in Int : q = (dm * 300) \div 1000 /\ q <= 315
        OBVIOUS
    <2>2. Of(dm, gain) = q
        BY <1>1, <2>1 DEF Of
    <2> QED BY <1>1, <2>1, <2>2
<1>8. PICK level \in Int : level = Level(b, dm) /\ level <= 8
    <2>1. Of(base, share) = (8 * share) \div 1000
        BY <1>1 DEF Of
    <2>2. Level(b, dm) = Of(base, share)
        BY <1>6, <1>7 DEF Level
    <2> QED BY <1>7, <2>1, <2>2
<1>9. PICK x \in Int : x = level + draw * sigma /\ x <= 808
    BY <1>1, <1>8
<1>10. Sample(b, draw, dm, w) = Clamp(x, 0, top)
    <2>1. Sample(b, draw, dm, w) = Clamp(Level(b, dm) + draw * b.sigma, b.floor, b.ceil)
        BY <1>6, AdditiveSample, ZenonT(60)
    <2> QED BY <1>4, <1>6, <1>8, <1>9, <2>1
<1>11. Clamp(x, 0, top) = IF x < 0 THEN 0 ELSE IF x > top THEN top ELSE x
    <2>1. 0 <= top /\ 0 \in Int
        BY <1>1
    <2> QED BY <2>1, ClampIs
<1>12. DefaultBaselines.tunnel_loss_pct = b
    BY <1>1, <1>4, SMT DEF DefaultBaselines
<1> QED BY <1>1, <1>9, <1>10, <1>11, <1>12

LEMMA UpdatesStayLow ==
    ASSUME NEW draw \in -16..16, NEW dm \in Int, dm <= 1050, NEW w
    PROVE  Sample(DefaultBaselines.bgp_update_rate, draw, dm, w) <= 3000
<1>1. PICK base, sigma, gain \in Int : base = 120 /\ sigma = 90 /\ gain = 500
    OBVIOUS
<1>2. PICK n \in Int : n = 0
    OBVIOUS
<1>3. PICK r \in Rec : r = Physical(base, sigma, n) /\ Shape(r, base, sigma, n, TRUE, FALSE, FALSE)
    BY PhysicalIs, ZenonT(60)
<1>4. Limits(Count(base, sigma), 0, Inf)
    BY KindsAre
<1>5. PICK c \in Rec : c = Count(base, sigma) /\ c.floor = 0 /\ c.ceil = Inf
    BY <1>4, ZenonT(60) DEF Limits
<1>6. /\ c.base = base /\ c.sigma = sigma /\ c.additive = TRUE /\ c.scaled = FALSE
    <2>1. c = [r EXCEPT !.additive = TRUE, !.seasonal = FALSE]
        BY <1>2, <1>3, <1>5, ZenonT(60) DEF Count
    <2>2. Shape([r EXCEPT !.additive = TRUE, !.seasonal = FALSE],
                r.base, r.sigma, r.gain, FALSE, TRUE, r.scaled)
        BY ShapeOf, ZenonT(60)
    <2> QED BY <1>3, <2>1, <2>2, ZenonT(60) DEF Shape
<1>7. PICK b \in Rec : /\ b = [c EXCEPT !.seasonal = TRUE, !.gain = gain]
                       /\ b.floor = 0 /\ b.ceil = Inf
    <2>1. Limits([c EXCEPT !.seasonal = TRUE, !.gain = gain], c.floor, c.ceil)
        BY EditedIs, ZenonT(60)
    <2> QED BY <1>5, <2>1, ZenonT(60) DEF Limits
<1>8. /\ b.base = base /\ b.sigma = sigma /\ b.gain = gain /\ b.seasonal = TRUE
      /\ b.additive = TRUE /\ b.scaled = FALSE
    <2>1. Shape([c EXCEPT !.seasonal = TRUE, !.gain = gain],
                c.base, c.sigma, gain, TRUE, c.additive, c.scaled)
        BY ShapeOf, ZenonT(60)
    <2>2. Shape(b, c.base, c.sigma, gain, TRUE, c.additive, c.scaled)
        BY <1>7, <2>1, ZenonT(60)
    <2> QED BY <1>6, <2>2 DEF Shape
<1>9. PICK share \in Int : share = (1000 - gain) + Of(dm, gain) /\ share <= 1025
    <2>1. PICK q \in Int : q = (dm * 500) \div 1000 /\ q <= 525
        OBVIOUS
    <2>2. Of(dm, gain) = q
        BY <1>1, <2>1 DEF Of
    <2> QED BY <1>1, <2>1, <2>2
<1>10. PICK level \in Int : level = Level(b, dm) /\ level <= 123
    <2>1. Of(base, share) = (120 * share) \div 1000
        BY <1>1 DEF Of
    <2>2. Level(b, dm) = Of(base, share)
        BY <1>8, <1>9 DEF Level
    <2> QED BY <1>9, <2>1, <2>2
<1>11. PICK x \in Int : x = level + draw * sigma /\ x <= 1563
    BY <1>1, <1>10
<1>12. PICK top \in Int : top = Inf /\ 0 <= top
    BY SMT DEF Inf
<1>13. Sample(b, draw, dm, w) = Clamp(x, 0, top)
    <2>1. x = Level(b, dm) + draw * b.sigma
        BY <1>8, <1>10, <1>11
    <2>2. Sample(b, draw, dm, w) = Clamp(Level(b, dm) + draw * b.sigma, b.floor, b.ceil)
        BY <1>8, AdditiveSample, ZenonT(60)
    <2>3. b.floor = 0 /\ b.ceil = top
        BY <1>7, <1>12
    <2> QED BY <2>1, <2>2, <2>3, ZenonT(60)
<1>14. Clamp(x, 0, top) = IF x < 0 THEN 0 ELSE IF x > top THEN top ELSE x
    <2>1. 0 <= top /\ 0 \in Int
        BY <1>12
    <2> QED BY <2>1, ClampIs
<1>15. DefaultBaselines.bgp_update_rate = b
    BY <1>1, <1>5, <1>7, SMT DEF DefaultBaselines
<1> QED BY <1>11, <1>13, <1>14, <1>15

LEMMA RekeyingStaysSlow ==
    ASSUME NEW draw \in -16..16, NEW dm \in Int, NEW w
    PROVE  Sample(DefaultBaselines.tunnel_rekey_interval_s, draw, dm, w) >= 300000
<1>1. PICK base, sigma, bottom, top \in Int :
          base = 360000 /\ sigma = 10 /\ bottom = 6000 /\ top = 8640000
    OBVIOUS
<1>2. PICK n \in Int : n = 0
    OBVIOUS
<1>3. PICK r \in Rec : r = Physical(base, sigma, n) /\ Shape(r, base, sigma, n, TRUE, FALSE, FALSE)
    BY PhysicalIs, ZenonT(60)
<1>4. PICK b \in Rec : /\ b = [r EXCEPT !.floor = bottom, !.ceil = top, !.seasonal = FALSE]
                       /\ b.floor = bottom /\ b.ceil = top
    <2>1. Limits([r EXCEPT !.floor = bottom, !.ceil = top, !.seasonal = FALSE], bottom, top)
        BY EditedIs, Zenon
    <2> QED BY <2>1, ZenonT(60) DEF Limits
<1>5. b.base = base /\ b.sigma = sigma /\ b.seasonal = FALSE /\ b.additive = FALSE /\ b.scaled = FALSE
    <2>1. Shape([r EXCEPT !.floor = bottom, !.ceil = top, !.seasonal = FALSE],
                r.base, r.sigma, r.gain, FALSE, r.additive, r.scaled)
        BY ShapeOf, Zenon
    <2> QED BY <1>3, <1>4, <2>1, Zenon DEF Shape
<1>6. PICK p \in Int : p = 1000 + draw * sigma /\ p >= 840
    BY <1>1
<1>7. PICK x \in Int : x = Of(base, p) /\ x >= 302400
    <2>1. Of(base, p) = (360000 * p) \div 1000
        BY <1>1 DEF Of
    <2>2. (360000 * p) \div 1000 \in Int /\ (360000 * p) \div 1000 >= 302400
        BY <1>6
    <2> QED BY <2>1, <2>2
<1>8. Level(b, dm) = base
    BY <1>5 DEF Level
<1>9. Sample(b, draw, dm, w) = Clamp(Of(Level(b, dm), Factor(b, draw)), b.floor, b.ceil)
    BY <1>5, ScaledSample, Zenon
<1>10. Sample(b, draw, dm, w) = Clamp(x, bottom, top)
    <2>1. Factor(b, draw) = p
        BY <1>5, <1>6 DEF Factor
    <2> QED BY <1>4, <1>7, <1>8, <1>9, <2>1
<1>11. Clamp(x, bottom, top) = IF x < bottom THEN bottom ELSE IF x > top THEN top ELSE x
    <2>1. bottom <= top
        BY <1>1
    <2> QED BY <2>1, ClampIs
<1>12. DefaultBaselines.tunnel_rekey_interval_s = b
    BY <1>1, <1>2, <1>3, <1>4, SMT DEF DefaultBaselines
<1> QED BY <1>1, <1>7, <1>10, <1>11, <1>12
-------------------------------------------------------------------------------
(* The events: each is about an entity that a scenario still holds.         *)
Excused(e, t) == \E s \in Scripts : Touches(s, t, e) /\ t < Cleared(s)

(* Any change of a metric that no injector leaves noise in is an injection  *)
(* that has not cleared.                                                    *)
LEMMA ChangeIsExcused ==
    ASSUME ConfigOK, NEW e, NEW metric, IsStream(e, metric), NEW t \in Nat, NEW draw \in Int,
           metric \notin {"jitter_ms", "config_drift_score"},
           Value(e, metric, t, draw) # Healthy(e, metric, t, draw)
    PROVE  Excused(e, t)
<1>1. PICK off \in Int : off = Off(e, metric, t, draw) /\ off # 0
    <2>1. Value(e, metric, t, draw) \in Int /\ Healthy(e, metric, t, draw) \in Int
        BY ValueIs, HealthyIs, Zenon
    <2> QED BY <2>1 DEF Off
<1>2. Rest(metric, draw) = 0
    BY DEF Rest
<1>3. \E s \in Scripts : Touches(s, t, e) /\ (t < Cleared(s) \/ off \in 0..0 \cup 0..0)
    BY <1>1, <1>2, ValueIs, Zenon
<1>4. off \notin 0..0 \cup 0..0
    BY <1>1
<1> QED BY <1>3, <1>4, Zenon DEF Excused

LEMMA SubStream ==
    ASSUME NEW d \in DeviceNames, NEW sub, NEW metric \in DOMAIN DefaultBaselines
    PROVE  IsStream(SubEntityId(d, sub), metric)
BY SiteOfEntity, SitesAre, Zenon DEF IsStream

LEMMA MetricsAre ==
    /\ "tunnel_loss_pct" \in DOMAIN DefaultBaselines
    /\ "tunnel_rekey_interval_s" \in DOMAIN DefaultBaselines
    /\ "bgp_update_rate" \in DOMAIN DefaultBaselines
    /\ "adj_flap_count" \in DOMAIN DefaultBaselines
    /\ "config_drift_score" \in DOMAIN DefaultBaselines
BY SMT DEF DefaultBaselines

LEMMA HealthyAt ==
    ASSUME ConfigOK, NEW e, NEW t \in Nat, NEW draw \in -16..16
    PROVE  /\ Healthy(e, "tunnel_loss_pct", t, draw) < 8000
           /\ Healthy(e, "bgp_update_rate", t, draw) <= 3000
           /\ Healthy(e, "tunnel_rekey_interval_s", t, draw) >= 300000
<1>1. PICK dm \in Int : dm = DiurnalMultiplier(Hour(t), config.weekend) /\ dm <= 1050
    BY DaytimeIs
<1>2. dm <= 1050
    BY <1>1
<1> DEFINE w == SiteWeight[Site(e)]
<1>3. /\ Healthy(e, "tunnel_loss_pct", t, draw) = Sample(DefaultBaselines.tunnel_loss_pct, draw, dm, w)
      /\ Healthy(e, "bgp_update_rate", t, draw) = Sample(DefaultBaselines.bgp_update_rate, draw, dm, w)
      /\ Healthy(e, "tunnel_rekey_interval_s", t, draw)
            = Sample(DefaultBaselines.tunnel_rekey_interval_s, draw, dm, w)
    BY <1>1 DEF Healthy
<1> HIDE DEF w
<1>4. Sample(DefaultBaselines.tunnel_loss_pct, draw, dm, w) < 8000
    BY <1>2, LossStaysLow
<1>5. Sample(DefaultBaselines.bgp_update_rate, draw, dm, w) <= 3000
    BY <1>2, UpdatesStayLow
<1>6. Sample(DefaultBaselines.tunnel_rekey_interval_s, draw, dm, w) >= 300000
    BY RekeyingStaysSlow
<1> QED BY <1>3, <1>4, <1>5, <1>6

LEMMA TunnelEventsAreExcused ==
    ASSUME ConfigOK, NEW t \in Nat, NEW draw \in -16..16, NEW ev \in TunnelEvents(t, draw)
    PROVE  Excused(ev[2], t)
<1>1. \A e \in UNION {Tunnels(d) : d \in Observed} :
         /\ IsStream(e, "tunnel_loss_pct") /\ IsStream(e, "tunnel_rekey_interval_s")
    <2>1. \A d \in Observed : d \in DeviceNames
        BY ConfigAssumption, Zenon
    <2> QED BY <2>1, SubStream, MetricsAre, Zenon DEF Tunnels
<1> DEFINE E == UNION {Tunnels(d) : d \in Observed}
           down == {e \in E : Value(e, "tunnel_loss_pct", t, draw) >= 8000}
           churned == {e \in E : Value(e, "tunnel_rekey_interval_s", t, draw) < 300000}
<1>4. ev[2] \in down \cup churned
    <2>1. ev \in ({"tunnel_down"} \X down) \cup ({"REKEY_ANOMALY"} \X churned)
        BY SMT DEF TunnelEvents
    <2> HIDE DEF down, churned
    <2> QED BY <2>1, SMT
<1> HIDE DEF E
<1>2. CASE ev[2] \in down
    <2>1. PICK e \in E : ev[2] = e /\ Value(e, "tunnel_loss_pct", t, draw) >= 8000
        BY <1>2, SMT
    <2>2. IsStream(e, "tunnel_loss_pct")
        BY <1>1, Zenon DEF E
    <2>3. draw \in Int
        OBVIOUS
    <2>4. Healthy(e, "tunnel_loss_pct", t, draw) < 8000
        BY HealthyAt
    <2>5. Value(e, "tunnel_loss_pct", t, draw) \in Int /\ Healthy(e, "tunnel_loss_pct", t, draw) \in Int
        BY <2>2, <2>3, ValueIs, HealthyIs, Zenon
    <2>6. Value(e, "tunnel_loss_pct", t, draw) # Healthy(e, "tunnel_loss_pct", t, draw)
        BY <2>1, <2>4, <2>5
    <2>7. "tunnel_loss_pct" \notin {"jitter_ms", "config_drift_score"}
        OBVIOUS
    <2>8. ev[2] = e
        BY <2>1, SMT
    <2> QED BY <2>8, <2>2, <2>3, <2>6, <2>7, ChangeIsExcused, Zenon
<1>3. CASE ev[2] \in churned
    <2>1. PICK e \in E : ev[2] = e /\ Value(e, "tunnel_rekey_interval_s", t, draw) < 300000
        BY <1>3, SMT
    <2>2. IsStream(e, "tunnel_rekey_interval_s")
        BY <1>1, Zenon DEF E
    <2>3. draw \in Int
        OBVIOUS
    <2>4. Healthy(e, "tunnel_rekey_interval_s", t, draw) >= 300000
        BY HealthyAt
    <2>5. /\ Value(e, "tunnel_rekey_interval_s", t, draw) \in Int
          /\ Healthy(e, "tunnel_rekey_interval_s", t, draw) \in Int
        BY <2>2, <2>3, ValueIs, HealthyIs, Zenon
    <2>6. Value(e, "tunnel_rekey_interval_s", t, draw) # Healthy(e, "tunnel_rekey_interval_s", t, draw)
        BY <2>1, <2>4, <2>5
    <2>7. "tunnel_rekey_interval_s" \notin {"jitter_ms", "config_drift_score"}
        OBVIOUS
    <2>8. ev[2] = e
        BY <2>1, SMT
    <2> QED BY <2>8, <2>2, <2>3, <2>6, <2>7, ChangeIsExcused, Zenon
<1> HIDE DEF down, churned
<1> QED BY <1>2, <1>3, <1>4, Zenon

LEMMA RoutingEventsAreExcused ==
    ASSUME ConfigOK, NEW t \in Nat, NEW draw \in -16..16, NEW ev \in RoutingEvents(t, draw)
    PROVE  Excused(ev[2], t)
<1> DEFINE E == UNION {Peers(d) : d \in Observed}
           churning == {e \in E : Value(e, "bgp_update_rate", t, draw) > 3000}
           flapping == {e \in E : Value(e, "adj_flap_count", t, draw) >= 50}
<1>1. \A e \in E : IsStream(e, "bgp_update_rate") /\ IsStream(e, "adj_flap_count")
    <2>1. \A d \in Observed : d \in DeviceNames
        BY ConfigAssumption, Zenon
    <2> QED BY <2>1, SubStream, MetricsAre, Zenon DEF Peers
<1>2. ev[2] \in churning \cup flapping
    <2>1. ev \in ({"route_withdraw"} \X (churning \cap flapping)) \cup ({"route_announce"} \X (churning \ flapping))
                     \cup ({"ADJCHANGE", "adjacency_down"} \X flapping)
        BY DEF RoutingEvents
    <2> HIDE DEF churning, flapping
    <2> QED BY <2>1
<1>3. draw \in Int
    OBVIOUS
<1> HIDE DEF E
<1>4. CASE ev[2] \in churning
    <2>1. PICK e \in E : ev[2] = e /\ Value(e, "bgp_update_rate", t, draw) > 3000
        BY <1>4
    <2>2. IsStream(e, "bgp_update_rate")
        BY <1>1, Zenon
    <2>3. Healthy(e, "bgp_update_rate", t, draw) <= 3000
        BY HealthyAt
    <2>4. Value(e, "bgp_update_rate", t, draw) \in Int /\ Healthy(e, "bgp_update_rate", t, draw) \in Int
        BY <1>3, <2>2, ValueIs, HealthyIs, Zenon
    <2>5. Value(e, "bgp_update_rate", t, draw) # Healthy(e, "bgp_update_rate", t, draw)
        BY <2>1, <2>3, <2>4
    <2>6. "bgp_update_rate" \notin {"jitter_ms", "config_drift_score"}
        OBVIOUS
    <2>8. ev[2] = e
        BY <2>1, SMT
    <2> QED BY <1>3, <2>8, <2>2, <2>5, <2>6, ChangeIsExcused, Zenon
<1>5. CASE ev[2] \in flapping
    <2>1. PICK e \in E : ev[2] = e /\ Value(e, "adj_flap_count", t, draw) >= 50
        BY <1>5
    <2>2. IsStream(e, "adj_flap_count")
        BY <1>1, Zenon
    <2>3. Healthy(e, "adj_flap_count", t, draw) = 0
        BY <1>3, QuietWithout, Zenon
    <2>4. Value(e, "adj_flap_count", t, draw) \in Int
        BY <1>3, <2>2, ValueIs, Zenon
    <2>5. Value(e, "adj_flap_count", t, draw) # Healthy(e, "adj_flap_count", t, draw)
        BY <2>1, <2>3, <2>4
    <2>6. "adj_flap_count" \notin {"jitter_ms", "config_drift_score"}
        OBVIOUS
    <2>8. ev[2] = e
        BY <2>1, SMT
    <2> QED BY <1>3, <2>8, <2>2, <2>5, <2>6, ChangeIsExcused, Zenon
<1> HIDE DEF churning, flapping
<1> QED BY <1>2, <1>4, <1>5, Zenon

LEMMA DevicesHaveShorterIds ==
    ASSUME NEW c, NEW d, NEW sub
    PROVE  DeviceEntityId(c) # SubEntityId(d, sub)
<1>1. \A x : \E S : DeviceEntityId(x) \in Seq(S) /\ Len(DeviceEntityId(x)) = 3 /\ sub \in S
    <2> TAKE x
    <2> DEFINE S == {Devices[x].site, x, Devices[x].role, sub}
    <2>1. DeviceEntityId(x) \in Seq(S) /\ Len(DeviceEntityId(x)) = 3 /\ sub \in S
        BY DEF DeviceEntityId
    <2> QED BY <2>1, Zenon
<1>2. PICK S : DeviceEntityId(d) \in Seq(S) /\ Len(DeviceEntityId(d)) = 3 /\ sub \in S
    BY <1>1, Zenon
<1>3. Len(Append(DeviceEntityId(d), sub)) = Len(DeviceEntityId(d)) + 1
    BY <1>2, AppendProperties, ZenonT(60)
<1>4. Len(SubEntityId(d, sub)) = 4
    BY <1>2, <1>3 DEF SubEntityId
<1>5. Len(DeviceEntityId(c)) = 3
    BY <1>1, Zenon
<1> QED BY <1>4, <1>5

(* Only scenario D touches a whole device.                                  *)
LEMMA WholeDevices ==
    ASSUME NEW s \in Scripts, NEW t, NEW c, Touches(s, t, DeviceEntityId(c))
    PROVE  s = "D"
<1> SUFFICES ASSUME s # "D"
             PROVE  FALSE
    OBVIOUS
<1>1. SpecOf(s).fanout = {} /\ SpecOf(s).target = Target[s]
    BY DEF SpecOf
<1>2. \E d, sub : Target[s] = SubEntityId(d, sub)
    BY DEF Target, Scripts
<1>3. DeviceEntityId(c) = Target[s]
    BY <1>1 DEF Touches
<1> QED BY <1>2, <1>3, DevicesHaveShorterIds, Zenon

(* The scenarios clear a minute after their window: a device is not read    *)
(* more rarely, and a run has a second.                                     *)
Sampled(c) == c.step <= 6000 /\ c.duration >= 100

LEMMA ControllerEventsAreExcused ==
    ASSUME ConfigOK, Sampled(config), NEW t \in Nat, NEW draw \in Int, NEW ev \in ControllerEvents(t, draw)
    PROVE  Excused(ev[2], t)
<1> DEFINE drifting == {c \in Observed \cap DevicesByRole("controller") :
                          Value(DeviceEntityId(c), "config_drift_score", t, draw) > 0 /\ IsDriftOnset(t)}
<1>1. PICK c \in drifting : ev = <<"CONFIG_I", DeviceEntityId(c)>>
    BY DEF ControllerEvents
<1> DEFINE e == DeviceEntityId(c)
<1>2. ev[2] = e
    BY <1>1
<1>3. c \in DeviceNames
    BY <1>1, ConfigAssumption
<1>4. IsStream(e, "config_drift_score")
    BY <1>3, SiteOfEntity, SitesAre, MetricsAre, Zenon DEF IsStream
<1>5. IsDriftOnset(t) /\ Value(e, "config_drift_score", t, draw) > 0
    BY <1>1
<1>6. Healthy(e, "config_drift_score", t, draw) = 0
    BY QuietWithout, Zenon
<1>7. Value(e, "config_drift_score", t, draw) \in Int
    BY <1>4, ValueIs, Zenon
<1> HIDE DEF e
<1>8. Off(e, "config_drift_score", t, draw) # 0
    BY <1>5, <1>6, <1>7 DEF Off
<1>9. PICK s \in Scripts : Touches(s, t, e)
    BY <1>4, <1>8, ValueIs, Zenon
<1>10. s = "D"
    BY <1>9, WholeDevices, Zenon DEF e
<1>11. t < Cleared("D")
    <2>1. "D" \in Scripts
        BY DEF Scripts
    <2>2. config.duration \in Nat /\ config.step \in Nat
        BY ConfigIs
    <2>8. config.duration >= 100 /\ config.step <= 6000
        BY DEF Sampled
    <2>4. Timed(SpecOf("D")) /\ (config.duration >= 100 => SpecOf("D").fault < SpecOf("D").end)
        BY <2>1, <2>2, ScheduledInOrder, Zenon
    <2>3. SpecOf("D").fault < SpecOf("D").end
        BY <2>4, <2>8
    <2>5. PICK f, n \in Int : f = SpecOf("D").fault /\ n = SpecOf("D").end
        BY <2>4 DEF Timed
    <2>6. t <= f + config.step
        BY <1>5, <2>2, <2>5 DEF IsDriftOnset
    <2>7. Cleared("D") = n + 6000
        BY <2>5 DEF Cleared, Label
    <2> QED BY <2>2, <2>3, <2>5, <2>6, <2>7, <2>8
<1> QED BY <1>2, <1>9, <1>10, <1>11, Zenon DEF Excused
-------------------------------------------------------------------------------
(* The invariant.                                                           *)
Explained(ev) == \E s \in config.scenarios : Affects(s, ev[2]) /\ Now < Cleared(s)

(* NumPy's normal draws do not reach 16 sigma.                              *)
Realistic == Noise \subseteq -16..16 /\ \A c \in Configs : Sampled(c)

(* A run keeps its configuration, and the log speaks of its last tick.      *)
GenInv ==
    /\ ConfigOK
    /\ tick \in Nat
    /\ tick > 0 => z \in Noise /\ \A ev \in events : ev[1] # "flows" => Explained(ev)

LEMMA SameRun ==
    ASSUME config' = config, NEW s
    PROVE  SpecOf(s)' = SpecOf(s) /\ Onset(s)' = Onset(s) /\ Cleared(s)' = Cleared(s)
<1>1. SpecOf(s)' = SpecOf(s)
    BY SMT DEF SpecOf
<1>2. Onset(s)' = Onset(s)
    BY <1>1, SMT DEF Onset, Label
<1>3. Cleared(s)' = Cleared(s)
    BY <1>1, SMT DEF Cleared, Label
<1> QED BY <1>1, <1>2, <1>3, Zenon

LEMMA EmitExplains ==
    ASSUME Realistic, GenInv, Emit
    PROVE  GenInv'
<1> DEFINE t == tick * config.step
<1>1. ConfigOK /\ tick \in Nat /\ tick' = tick + 1 /\ config' = config /\ z' \in Noise
    BY DEF GenInv, Emit, ConfigOK
<1>2. Sampled(config) /\ z' \in -16..16 /\ z' \in Int
    <2>1. Sampled(config) /\ z' \in -16..16
        BY <1>1, Zenon DEF Realistic, ConfigOK
    <2> QED BY <2>1
<1>3. t \in Nat /\ Now' = t
    <2>1. config.step \in Nat
        BY <1>1, ConfigIs
    <2>2. (tick + 1) - 1 = tick
        BY <1>1
    <2>3. tick' - 1 = tick
        BY <1>1, <2>2
    <2>4. config'.step = config.step
        BY <1>1
    <2>5. Now' = tick * config.step
        BY <2>3, <2>4, Zenon DEF Now
    <2>6. tick * config.step \in Nat
        BY <1>1, <2>1
    <2> QED BY <2>5, <2>6, Zenon
<1>4. ConfigOK'
    BY <1>1, Zenon DEF ConfigOK
<1>5. ASSUME NEW ev \in events', ev[1] # "flows"
      PROVE  Explained(ev)'
    <2>1. events' = TunnelEvents(t, z') \cup RoutingEvents(t, z') \cup FlowEvents(tick, t, z')
                      \cup ControllerEvents(t, z')
        BY Zenon DEF Emit
    <2> HIDE DEF t
    <2>2. ev \notin FlowEvents(tick, t, z')
        BY <1>5 DEF FlowEvents
    <2>3. Excused(ev[2], t)
        <3>1. CASE ev \in TunnelEvents(t, z')
            BY <1>1, <1>2, <1>3, <3>1, TunnelEventsAreExcused, Zenon
        <3>2. CASE ev \in RoutingEvents(t, z')
            BY <1>1, <1>2, <1>3, <3>2, RoutingEventsAreExcused, Zenon
        <3>3. CASE ev \in ControllerEvents(t, z')
            BY <1>1, <1>2, <1>3, <3>3, ControllerEventsAreExcused, Zenon
        <3> QED BY <2>1, <2>2, <3>1, <3>2, <3>3, Zenon
    <2>4. PICK s \in Scripts : Touches(s, t, ev[2]) /\ t < Cleared(s)
        BY <2>3, Zenon DEF Excused
    <2>5. Onset(s)' = Onset(s) /\ Cleared(s)' = Cleared(s) /\ SpecOf(s)' = SpecOf(s)
        BY <1>1, SameRun, Zenon
    <2>6. s \in config'.scenarios /\ ev[2] \in {SpecOf(s).target} \cup SpecOf(s).fanout /\ t >= Onset(s)
        BY <1>1, <2>4, Zenon DEF Touches
    <2>7. Affects(s, ev[2])'
        BY <1>3, <2>5, <2>6, Zenon DEF Affects
    <2>8. (Now < Cleared(s))'
        BY <1>3, <2>4, <2>5, Zenon
    <2> QED BY <2>6, <2>7, <2>8, Zenon DEF Explained
<1>6. (tick \in Nat)'
    BY <1>1
<1> QED BY <1>1, <1>4, <1>5, <1>6, Zenon DEF GenInv

LEMMA GenStaysExplained ==
    Realistic /\ GenInv /\ [SourceNext]_labVars => GenInv'
<1> SUFFICES ASSUME Realistic, GenInv, [SourceNext]_labVars
             PROVE  GenInv'
    OBVIOUS
<1>1. CASE SyntheticSource
    BY <1>1, EmitExplains DEF SyntheticSource
<1>2. CASE UNCHANGED genVars
    <2>1. config' = config /\ tick' = tick /\ z' = z /\ events' = events
        BY <1>2 DEF genVars
    <2>2. Now' = Now
        BY <2>1, Zenon DEF Now
    <2>3. \A s : /\ SpecOf(s)' = SpecOf(s) /\ Onset(s)' = Onset(s) /\ Cleared(s)' = Cleared(s)
        BY <2>1, SameRun, Zenon
    <2>4. \A s, e : Affects(s, e)' = Affects(s, e)
        BY <2>2, <2>3, Zenon DEF Affects
    <2>5. \A ev : Explained(ev) => Explained(ev)'
        BY <2>1, <2>2, <2>3, <2>4, Zenon DEF Explained
    <2> QED BY <2>1, <2>5, Zenon DEF GenInv, ConfigOK
<1>3. CASE ContainerlabSource
    BY <1>2, <1>3 DEF ContainerlabSource
<1>4. CASE UNCHANGED labVars
    BY <1>2, <1>4 DEF labVars
<1> QED BY <1>1, <1>3, <1>4 DEF SourceNext

LEMMA ExplainedIsHealthy == GenInv => HealthyStreamsStayHealthy
<1> SUFFICES ASSUME GenInv, tick > 0, Noise \subseteq Int
             PROVE  HealthyStreamsStayHealthy
    BY ConfigAssumption DEF HealthyStreamsStayHealthy
<1>1. ConfigOK /\ tick \in Nat /\ z \in Int
    BY DEF GenInv
<1>2. Now \in Nat
    <2>1. config.step \in Nat
        BY <1>1, ConfigIs
    <2>2. tick - 1 \in Nat
        BY <1>1
    <2> QED BY <2>1, <2>2 DEF Now
<1>3. ASSUME NEW d \in Observed, NEW x \in Streams(d), Off(x[1], x[2], Now, z) # 0
      PROVE  \E s \in config.scenarios :
                /\ Affects(s, x[1])
                /\ \/ Now < Cleared(s)
                   \/ Off(x[1], x[2], Now, z) \in 0..Residue(x[2]) \cup Residue(x[2])..0
    <2>1. IsStream(x[1], x[2])
        BY ConfigAssumption, StreamsAre, Zenon
    <2>2. PICK s \in Scripts :
             /\ Touches(s, Now, x[1])
             /\ \/ Now < Cleared(s)
                \/ Off(x[1], x[2], Now, z) \in 0..Rest(x[2], z) \cup Rest(x[2], z)..0
        BY <1>1, <1>2, <1>3, <2>1, ValueIs, Zenon
    <2>3. Rest(x[2], z) = Residue(x[2])
        BY Zenon DEF Rest, Residue
    <2>4. s \in config.scenarios /\ Affects(s, x[1])
        BY <2>2, Zenon DEF Touches, Affects
    <2> QED BY <2>2, <2>3, <2>4, Zenon
<1>4. \A ev \in events : ev[1] # "flows" => \E s \in config.scenarios : Affects(s, ev[2]) /\ Now < Cleared(s)
    BY Zenon DEF GenInv, Explained
<1> QED BY <1>3, <1>4, Zenon DEF HealthyStreamsStayHealthy, Off

(* "Returning 0.0 for an untouched (entity, metric) keeps every other       *)
(* stream perfectly healthy": whatever the configuration of a run and the   *)
(* noise it draws, a stream differs from its baseline only where a scenario *)
(* reaches it, and the log complains of nothing else.                       *)
THEOREM HealthyStreamsStayHealthyHolds ==
    Realistic => (SourceSpec => []HealthyStreamsStayHealthy)
<1> SUFFICES ASSUME Realistic
             PROVE  SourceSpec => []HealthyStreamsStayHealthy
    OBVIOUS
<1>1. SourceInit => GenInv
    BY DEF SourceInit, GenInit, GenInv, ConfigOK
<1>2. GenInv /\ [SourceNext]_labVars => GenInv'
    BY GenStaysExplained
<1> QED BY <1>1, <1>2, ExplainedIsHealthy, PTL DEF SourceSpec
===============================================================================
