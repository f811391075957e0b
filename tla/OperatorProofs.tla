---------------------------- MODULE OperatorProofs ----------------------------
(***************************************************************************)
(* What the operator's side keeps: ApiServer for any number of requests,    *)
(* whatever their limits, and however often providers are reset, installed  *)
(* or fail to be built; OperatorConsole for every queue the server may list *)
(* and any number of activities of the operator.                           *)
(***************************************************************************)
EXTENDS ApiServer, OperatorConsole, TLAPS

Labels == {"check", "lock", "recheck", "release", "return", "stream", "ended", "failed"}
Objects == 1..Len(ticks)

TypeOK ==
    /\ ticks \in Seq(Nat)
    /\ provider \in Objects \cup {None}
    /\ pc \in [Requests -> Labels]
    /\ got \in [Requests -> Objects \cup {None}]
    /\ frames \in [Requests -> Seq([tick : Nat, eta : Nat])]
    /\ resets \in Nat
    /\ installs \in Nat
    /\ faults \in Nat

(* Who is past get_provider holds an object; without a reset who is about   *)
(* to read _provider finds one there, and without an install either that is *)
(* the object everybody has.                                                *)
HoldsObject ==
    \A r \in Requests :
        /\ got[r] # None <=> pc[r] \in {"stream", "ended"}
        /\ resets = 0 /\ pc[r] \in {"release", "return"} => provider # None
        /\ resets = 0 /\ pc[r] = "failed" => faults > 0
        /\ resets + installs = 0 /\ got[r] # None => got[r] = provider

(* What a stream has sent came from its object, no later than its last tick. *)
SentByObject ==
    \A r \in Requests : \A i \in DOMAIN frames[r] :
        /\ got[r] # None
        /\ frames[r][i] = RiskTick(frames[r][i].tick)
        /\ frames[r][i].tick <= ticks[got[r]]

IInv == TypeOK /\ HoldsObject /\ SentByObject /\ TicksAreFresh
-------------------------------------------------------------------------------
LEMMA RiskTickType ==
    ASSUME NEW n \in Nat
    PROVE  RiskTick(n) \in [tick : Nat, eta : Nat] /\ RiskTick(n).tick = n
BY BoundAssumption DEF RiskTick

LEMMA RiskTickFalls ==
    ASSUME NEW m \in Nat, NEW n \in Nat, m <= n
    PROVE  RiskTick(m).eta >= RiskTick(n).eta
BY BoundAssumption DEF RiskTick

LEMMA ElementType ==
    ASSUME NEW S, NEW q \in Seq(S), NEW i \in DOMAIN q
    PROVE  q[i] \in S
OBVIOUS

LEMMA Initially == Init => IInv
<1> SUFFICES ASSUME Init PROVE IInv
  OBVIOUS
<1>1. TypeOK
  BY DEF Init, TypeOK, Labels, Objects
<1>2. HoldsObject
  BY DEF Init, HoldsObject
<1>3. SentByObject /\ TicksAreFresh
  BY DEF Init, SentByObject, TicksAreFresh
<1> QED BY <1>1, <1>2, <1>3 DEF IInv

(* A step that sends nothing, lets a request get its object only before its *)
(* first frame, and takes no tick back leaves the frames in order.          *)
LEMMA FramesStand ==
    ASSUME IInv, UNCHANGED frames,
           \A r \in Requests : got[r] # None => got'[r] = got[r],
           \A n \in Objects : ticks'[n] = ticks[n]
    PROVE  SentByObject' /\ TicksAreFresh'
<1>1. \A r \in Requests : \A i \in DOMAIN frames[r] : got[r] \in Objects /\ got'[r] = got[r]
  BY DEF IInv, TypeOK, SentByObject
<1>2. SentByObject'
  BY <1>1 DEF IInv, SentByObject, RiskTick
<1>3. TicksAreFresh'
  BY <1>1 DEF IInv, TicksAreFresh
<1> QED BY <1>2, <1>3

(* A new object leaves the ones there were alone.                           *)
LEMMA NewObject ==
    ASSUME TypeOK, ticks' = Append(ticks, 0)
    PROVE  /\ ticks' \in Seq(Nat)
           /\ Len(ticks') = Len(ticks) + 1
           /\ Objects \subseteq Objects'
           /\ Len(ticks') \in Objects'
           /\ \A n \in Objects : ticks'[n] = ticks[n]
<1>1. /\ ticks \in Seq(Nat)
      /\ ticks' \in Seq(Nat)
      /\ Len(ticks') = Len(ticks) + 1
      /\ \A n \in 1..Len(ticks) : ticks'[n] = ticks[n]
  BY DEF TypeOK
<1> QED BY <1>1 DEF Objects

(* A request takes its next step; the others stay where they are.           *)
LEMMA GotoType ==
    ASSUME TypeOK, NEW r \in Requests, NEW label \in Labels, Goto(r, label)
    PROVE  /\ pc' \in [Requests -> Labels]
           /\ pc'[r] = label
           /\ \A q \in Requests : q # r => pc'[q] = pc[q]
BY DEF TypeOK, Goto

LEMMA CheckKeeps == ASSUME IInv, NEW r \in Requests, Check(r) PROVE IInv'
<1> DEFINE label == IF provider = None THEN "lock" ELSE "return"
<1>1. label \in Labels /\ Goto(r, label) /\ UNCHANGED <<deps, got, ticks, stream>> /\ pc[r] = "check"
  BY DEF Check, Labels
<1>2. /\ pc' \in [Requests -> Labels]
      /\ pc'[r] = label
      /\ \A q \in Requests : q # r => pc'[q] = pc[q]
  BY <1>1, GotoType DEF IInv
<1>3. TypeOK'
  BY <1>1, <1>2 DEF IInv, TypeOK, Objects, deps, stream
<1>4. HoldsObject'
  BY <1>1, <1>2 DEF IInv, HoldsObject, deps
<1>5. SentByObject' /\ TicksAreFresh'
  BY <1>1, FramesStand DEF stream
<1> QED BY <1>3, <1>4, <1>5 DEF IInv

LEMMA AcquireKeeps == ASSUME IInv, NEW r \in Requests, Acquire(r) PROVE IInv'
<1>1. /\ Goto(r, "recheck") /\ pc[r] = "lock"
      /\ UNCHANGED <<provider, resets, installs, faults, got, ticks, frames>>
  BY DEF Acquire, stream
<1>2. /\ pc' \in [Requests -> Labels]
      /\ pc'[r] = "recheck"
      /\ \A q \in Requests : q # r => pc'[q] = pc[q]
  BY <1>1, GotoType DEF IInv, Labels
<1>3. TypeOK'
  BY <1>1, <1>2 DEF IInv, TypeOK, Objects
<1>4. HoldsObject'
  BY <1>1, <1>2 DEF IInv, HoldsObject
<1>5. SentByObject' /\ TicksAreFresh'
  BY <1>1, FramesStand
<1> QED BY <1>3, <1>4, <1>5 DEF IInv

(* Whoever finds no object under the lock makes one; unless there was a     *)
(* reset, nobody has another.                                               *)
LEMMA RecheckKeeps == ASSUME IInv, NEW r \in Requests, Recheck(r) PROVE IInv'
<1>1. /\ Goto(r, "release") /\ pc[r] = "recheck"
      /\ UNCHANGED <<resets, installs, faults, got, frames>>
  BY DEF Recheck, stream
<1>2. /\ pc' \in [Requests -> Labels]
      /\ pc'[r] = "release"
      /\ \A q \in Requests : q # r => pc'[q] = pc[q]
  BY <1>1, GotoType DEF IInv, Labels
<1>3. CASE provider = None
  <2>1. ticks' = Append(ticks, 0) /\ provider' = Len(ticks')
    BY <1>3 DEF Recheck
  <2>2. /\ ticks' \in Seq(Nat) /\ Objects \subseteq Objects' /\ provider' \in Objects'
        /\ \A n \in Objects : ticks'[n] = ticks[n]
    BY <2>1, NewObject DEF IInv
  <2>3. provider' # None
    BY <2>2, NoneAssumption DEF Objects
  <2>4. TypeOK'
    BY <1>1, <1>2, <2>2 DEF IInv, TypeOK
  <2>5. HoldsObject'
    BY <1>1, <1>2, <1>3, <2>3 DEF IInv, HoldsObject
  <2>6. SentByObject' /\ TicksAreFresh'
    BY <1>1, <2>2, FramesStand
  <2> QED BY <2>4, <2>5, <2>6 DEF IInv
<1>4. CASE provider # None
  <2>1. UNCHANGED <<provider, ticks>>
    BY <1>4 DEF Recheck
  <2>2. TypeOK'
    BY <1>1, <1>2, <2>1 DEF IInv, TypeOK, Objects
  <2>3. HoldsObject'
    BY <1>1, <1>2, <1>4, <2>1 DEF IInv, HoldsObject
  <2>4. SentByObject' /\ TicksAreFresh'
    BY <1>1, <2>1, FramesStand
  <2> QED BY <2>2, <2>3, <2>4 DEF IInv
<1> QED BY <1>3, <1>4

LEMMA BuildRaisesKeeps == ASSUME IInv, NEW r \in Requests, BuildRaises(r) PROVE IInv'
<1>1. /\ Goto(r, "failed") /\ pc[r] = "recheck" /\ faults' = faults + 1
      /\ UNCHANGED <<provider, resets, installs, got, ticks, frames>>
  BY DEF BuildRaises, stream
<1>2. /\ pc' \in [Requests -> Labels]
      /\ pc'[r] = "failed"
      /\ \A q \in Requests : q # r => pc'[q] = pc[q]
  BY <1>1, GotoType DEF IInv, Labels
<1>3. faults \in Nat /\ faults' \in Nat /\ faults' > 0
  BY <1>1 DEF IInv, TypeOK
<1>4. TypeOK'
  BY <1>1, <1>2, <1>3 DEF IInv, TypeOK, Objects
<1>5. HoldsObject'
  BY <1>1, <1>2, <1>3 DEF IInv, HoldsObject
<1>6. SentByObject' /\ TicksAreFresh'
  BY <1>1, FramesStand
<1> QED BY <1>4, <1>5, <1>6 DEF IInv

LEMMA ReleaseKeeps == ASSUME IInv, NEW r \in Requests, Release(r) PROVE IInv'
<1>1. /\ Goto(r, "return") /\ pc[r] = "release"
      /\ UNCHANGED <<provider, resets, installs, faults, got, ticks, frames>>
  BY DEF Release, stream
<1>2. /\ pc' \in [Requests -> Labels]
      /\ pc'[r] = "return"
      /\ \A q \in Requests : q # r => pc'[q] = pc[q]
  BY <1>1, GotoType DEF IInv, Labels
<1>3. TypeOK'
  BY <1>1, <1>2 DEF IInv, TypeOK, Objects
<1>4. HoldsObject'
  BY <1>1, <1>2 DEF IInv, HoldsObject
<1>5. SentByObject' /\ TicksAreFresh'
  BY <1>1, FramesStand
<1> QED BY <1>3, <1>4, <1>5 DEF IInv

(* The third read: what it finds is what the request has from now on.       *)
LEMMA ReturnKeeps == ASSUME IInv, NEW r \in Requests, Return(r) PROVE IInv'
<1> DEFINE label == IF provider = None THEN "failed" ELSE "stream"
<1>1. /\ label \in Labels /\ Goto(r, label) /\ pc[r] = "return"
      /\ got' = [got EXCEPT ![r] = provider]
      /\ UNCHANGED <<provider, resets, installs, faults, ticks, frames>>
  BY DEF Return, Labels, deps, stream
<1>2. /\ pc' \in [Requests -> Labels]
      /\ pc'[r] = label
      /\ \A q \in Requests : q # r => pc'[q] = pc[q]
  BY <1>1, GotoType DEF IInv
<1>3. got \in [Requests -> Objects \cup {None}] /\ provider \in Objects \cup {None}
  BY DEF IInv, TypeOK
<1>4. /\ got' \in [Requests -> Objects \cup {None}]
      /\ got'[r] = provider
      /\ \A q \in Requests : q # r => got'[q] = got[q]
  BY <1>1, <1>3
<1>5. got[r] = None
  BY <1>1 DEF IInv, HoldsObject
<1>6. TypeOK'
  BY <1>1, <1>2, <1>4 DEF IInv, TypeOK, Objects
<1>7. ASSUME NEW q \in Requests
      PROVE  /\ got'[q] # None <=> pc'[q] \in {"stream", "ended"}
             /\ resets' = 0 /\ pc'[q] \in {"release", "return"} => provider' # None
             /\ resets' = 0 /\ pc'[q] = "failed" => faults' > 0
             /\ resets' + installs' = 0 /\ got'[q] # None => got'[q] = provider'
  <2>1. CASE q = r
    BY <1>1, <1>2, <1>4, <2>1 DEF IInv, HoldsObject
  <2>2. CASE q # r
    BY <1>1, <1>2, <1>4, <2>2 DEF IInv, HoldsObject
  <2> QED BY <2>1, <2>2
<1>8. HoldsObject'
  BY <1>7 DEF HoldsObject
<1>9. SentByObject' /\ TicksAreFresh'
  BY <1>1, <1>4, <1>5, FramesStand
<1> QED BY <1>6, <1>8, <1>9 DEF IInv

LEMMA SetProviderKeeps == ASSUME IInv, SetProvider PROVE IInv'
<1>1. /\ ticks' = Append(ticks, 0) /\ provider' = Len(ticks') /\ installs' = installs + 1
      /\ UNCHANGED <<resets, faults, pc, got, frames>>
  BY DEF SetProvider, stream
<1>2. /\ ticks' \in Seq(Nat) /\ Objects \subseteq Objects' /\ provider' \in Objects'
      /\ \A n \in Objects : ticks'[n] = ticks[n]
  BY <1>1, NewObject DEF IInv
<1>3. /\ installs \in Nat /\ installs' \in Nat /\ resets \in Nat /\ resets' + installs' # 0
      /\ provider' # None
  BY <1>1, <1>2, NoneAssumption DEF IInv, TypeOK, Objects
<1>4. TypeOK'
  BY <1>1, <1>2, <1>3 DEF IInv, TypeOK
<1>5. HoldsObject'
  BY <1>1, <1>3 DEF IInv, HoldsObject
<1>6. SentByObject' /\ TicksAreFresh'
  BY <1>1, <1>2, FramesStand
<1> QED BY <1>4, <1>5, <1>6 DEF IInv

LEMMA ResetProviderKeeps == ASSUME IInv, ResetProvider PROVE IInv'
<1>1. /\ provider' = None /\ resets' = resets + 1
      /\ UNCHANGED <<installs, faults, pc, got, ticks, frames>>
  BY DEF ResetProvider, stream
<1>2. /\ resets \in Nat /\ resets' \in Nat /\ installs \in Nat
      /\ resets' # 0 /\ resets' + installs' # 0
  BY <1>1 DEF IInv, TypeOK
<1>3. TypeOK'
  BY <1>1, <1>2 DEF IInv, TypeOK, Objects
<1>4. HoldsObject'
  BY <1>1, <1>2 DEF IInv, HoldsObject
<1>5. SentByObject' /\ TicksAreFresh'
  BY <1>1, FramesStand
<1> QED BY <1>3, <1>4, <1>5 DEF IInv
-------------------------------------------------------------------------------
(* The frame that is sent is later than every frame its object has sent, on *)
(* this stream or on another.                                               *)
LEMMA SendFrameKeeps == ASSUME IInv, NEW r \in Requests, SendFrame(r) PROVE IInv'
<1> DEFINE p == got[r]
           n == ticks[p] + 1
           label == IF Limit[r] # None /\ Len(frames'[r]) >= Limit[r] THEN "ended" ELSE "stream"
<1>1. /\ pc[r] = "stream" /\ label \in Labels /\ Goto(r, label)
      /\ ticks' = [ticks EXCEPT ![p] = @ + 1]
      /\ frames' = [frames EXCEPT ![r] = Append(@, RiskTick(ticks'[p]))]
      /\ UNCHANGED <<provider, resets, installs, faults, got>>
  BY DEF SendFrame, Labels, deps
<1>2. /\ p \in Objects /\ p # None /\ ticks \in Seq(Nat)
      /\ got \in [Requests -> Objects \cup {None}]
      /\ frames \in [Requests -> Seq([tick : Nat, eta : Nat])]
  BY <1>1 DEF IInv, TypeOK, HoldsObject
<1>3. /\ pc' \in [Requests -> Labels]
      /\ pc'[r] \in {"stream", "ended"}
      /\ \A q \in Requests : q # r => pc'[q] = pc[q]
  <2>1. label \in {"stream", "ended"}
    OBVIOUS
  <2> QED BY <1>1, <2>1, GotoType DEF IInv
<1>4. /\ ticks' \in Seq(Nat) /\ Len(ticks') = Len(ticks)
      /\ n \in Nat /\ ticks[p] \in Nat /\ ticks'[p] = n
      /\ \A o \in Objects : o # p => ticks'[o] = ticks[o]
      /\ \A o \in Objects : ticks'[o] \in Nat /\ ticks[o] \in Nat /\ ticks'[o] >= ticks[o]
  BY <1>1, <1>2 DEF Objects
<1>5. RiskTick(n) \in [tick : Nat, eta : Nat] /\ RiskTick(n).tick = n
  BY <1>4, RiskTickType
<1>6. /\ frames'[r] = Append(frames[r], RiskTick(n))
      /\ frames'[r] \in Seq([tick : Nat, eta : Nat])
      /\ \A q \in Requests : q # r => frames'[q] = frames[q]
      /\ frames' \in [Requests -> Seq([tick : Nat, eta : Nat])]
  <2>1. frames' = [frames EXCEPT ![r] = Append(frames[r], RiskTick(n))]
    BY <1>1, <1>4
  <2>2. Append(frames[r], RiskTick(n)) \in Seq([tick : Nat, eta : Nat])
    BY <1>2, <1>5
  <2> HIDE DEF n
  <2> QED BY <1>2, <2>1, <2>2
<1>7. /\ frames[r] \in Seq([tick : Nat, eta : Nat])
      /\ Len(frames'[r]) = Len(frames[r]) + 1
      /\ frames'[r][Len(frames[r]) + 1] = RiskTick(n)
      /\ \A i \in 1..Len(frames[r]) : frames'[r][i] = frames[r][i]
      /\ DOMAIN frames[r] = 1..Len(frames[r])
      /\ DOMAIN frames'[r] = 1..(Len(frames[r]) + 1)
  <2> HIDE DEF n
  <2> QED BY <1>2, <1>5, <1>6
<1> HIDE DEF n, label
<1>8. TypeOK'
  BY <1>1, <1>3, <1>4, <1>6 DEF IInv, TypeOK, Objects
<1>9. HoldsObject'
  BY <1>1, <1>2, <1>3 DEF IInv, HoldsObject
<1>10. \A q \in Requests : \A i \in DOMAIN frames[q] :
           /\ frames'[q][i] = frames[q][i]
           /\ got[q] \in Objects
           /\ frames[q][i].tick \in Nat
           /\ frames[q][i] = RiskTick(frames[q][i].tick)
           /\ frames[q][i].tick <= ticks[got[q]]
  <2> SUFFICES ASSUME NEW q \in Requests, NEW i \in DOMAIN frames[q]
               PROVE  /\ frames'[q][i] = frames[q][i]
                      /\ got[q] \in Objects
                      /\ frames[q][i].tick \in Nat
                      /\ frames[q][i] = RiskTick(frames[q][i].tick)
                      /\ frames[q][i].tick <= ticks[got[q]]
    OBVIOUS
  <2>1. /\ got[q] # None
        /\ frames[q][i] = RiskTick(frames[q][i].tick)
        /\ frames[q][i].tick <= ticks[got[q]]
    BY DEF IInv, SentByObject
  <2>2. frames'[q][i] = frames[q][i]
    BY <1>6, <1>7
  <2>3. got[q] \in Objects
    BY <1>2, <2>1
  <2>4. frames[q][i] \in [tick : Nat, eta : Nat]
    <3>1. frames[q] \in Seq([tick : Nat, eta : Nat])
      BY <1>2
    <3> QED BY <3>1, ElementType
  <2> QED BY <2>1, <2>2, <2>3, <2>4
(* A frame of any stream is an old one or the new one.                      *)
<1>11. ASSUME NEW q \in Requests, NEW i \in DOMAIN frames'[q]
       PROVE  i \in DOMAIN frames[q] \/ (q = r /\ i = Len(frames[r]) + 1 /\ frames'[q][i] = RiskTick(n))
  <2>1. CASE q = r
    BY <1>7, <2>1
  <2>2. CASE q # r
    BY <1>6, <2>2
  <2> QED BY <2>1, <2>2
<1>12. SentByObject'
  <2> SUFFICES ASSUME NEW q \in Requests, NEW i \in DOMAIN frames'[q]
               PROVE  /\ got'[q] # None
                      /\ frames'[q][i] = RiskTick(frames'[q][i].tick)
                      /\ frames'[q][i].tick <= ticks'[got'[q]]
    BY DEF SentByObject, RiskTick
  <2>1. CASE i \in DOMAIN frames[q]
    <3>1. got[q] # None
      BY <2>1 DEF IInv, SentByObject
    <3> QED BY <1>1, <1>4, <1>10, <2>1, <3>1, SMTT(30)
  <2>2. CASE q = r /\ frames'[q][i] = RiskTick(n)
    BY <1>1, <1>2, <1>4, <1>5, <2>2, SMTT(30)
  <2> QED BY <1>11, <2>1, <2>2
<1>13. TicksAreFresh'
  <2> SUFFICES ASSUME NEW q \in Requests, NEW s \in Requests, got'[q] = got'[s],
                      NEW i \in DOMAIN frames'[q], NEW j \in DOMAIN frames'[s]
               PROVE  /\ frames'[q][i].tick = frames'[s][j].tick => q = s /\ i = j
                      /\ q = s /\ i < j => /\ frames'[q][i].tick < frames'[q][j].tick
                                           /\ frames'[q][i].eta >= frames'[q][j].eta
    BY DEF TicksAreFresh
  <2>1. CASE i \in DOMAIN frames[q] /\ j \in DOMAIN frames[s]
    <3>1. got[q] = got[s]
      BY <1>1
    <3>2. frames'[q][i] = frames[q][i] /\ frames'[s][j] = frames[s][j]
      BY <1>10, <2>1
    <3> QED BY <2>1, <3>1, <3>2 DEF IInv, TicksAreFresh
  <2>2. CASE /\ i \in DOMAIN frames[q]
             /\ s = r /\ j = Len(frames[r]) + 1 /\ frames'[s][j] = RiskTick(n)
    <3>1. got[q] = p /\ frames'[q][i] = frames[q][i] /\ frames[q][i].tick \in Nat
      BY <1>1, <1>10, <2>2
    <3>2. frames[q][i].tick <= ticks[p] /\ frames[q][i] = RiskTick(frames[q][i].tick)
      BY <1>10, <2>2, <3>1
    <3>3. frames[q][i].tick < n
      BY <1>4, <3>1, <3>2 DEF n
    <3>4. frames[q][i].eta >= RiskTick(n).eta
      BY <1>4, <3>1, <3>2, <3>3, RiskTickFalls
    <3> QED BY <1>4, <1>5, <2>2, <3>1, <3>3, <3>4
  <2>3. CASE /\ q = r /\ i = Len(frames[r]) + 1 /\ frames'[q][i] = RiskTick(n)
             /\ j \in DOMAIN frames[s]
    <3>1. got[s] = p /\ frames'[s][j] = frames[s][j] /\ frames[s][j].tick \in Nat
      BY <1>1, <1>10, <2>3
    <3>2. frames[s][j].tick <= ticks[p]
      BY <1>10, <2>3, <3>1
    <3>3. frames[s][j].tick < n
      BY <1>4, <3>1, <3>2 DEF n
    <3>4. ~ (q = s /\ i < j)
      BY <1>7, <2>3
    <3> QED BY <1>4, <1>5, <2>3, <3>1, <3>3, <3>4
  <2>4. CASE q = r /\ i = Len(frames[r]) + 1 /\ s = r /\ j = Len(frames[r]) + 1
    BY <1>7, <2>4
  <2> QED BY <1>11, <2>1, <2>2, <2>3, <2>4
<1> QED BY <1>8, <1>9, <1>12, <1>13 DEF IInv

LEMMA DisconnectKeeps == ASSUME IInv, NEW r \in Requests, Disconnect(r) PROVE IInv'
<1>1. UNCHANGED <<provider, resets, installs, faults, pc, got, ticks, frames>>
  BY DEF Disconnect, deps
<1>2. TypeOK' /\ HoldsObject'
  BY <1>1 DEF IInv, TypeOK, Objects, HoldsObject
<1>3. SentByObject' /\ TicksAreFresh'
  BY <1>1, FramesStand
<1> QED BY <1>2, <1>3 DEF IInv

LEMMA NoticeDisconnectKeeps == ASSUME IInv, NEW r \in Requests, NoticeDisconnect(r) PROVE IInv'
<1>1. /\ Goto(r, "ended") /\ pc[r] = "stream"
      /\ UNCHANGED <<provider, resets, installs, faults, got, ticks, frames>>
  BY DEF NoticeDisconnect, deps, stream
<1>2. /\ pc' \in [Requests -> Labels]
      /\ pc'[r] = "ended"
      /\ \A q \in Requests : q # r => pc'[q] = pc[q]
  BY <1>1, GotoType DEF IInv, Labels
<1>3. TypeOK'
  BY <1>1, <1>2 DEF IInv, TypeOK, Objects
<1>4. HoldsObject'
  BY <1>1, <1>2 DEF IInv, HoldsObject
<1>5. SentByObject' /\ TicksAreFresh'
  BY <1>1, FramesStand
<1> QED BY <1>3, <1>4, <1>5 DEF IInv
-------------------------------------------------------------------------------
LEMMA StepKeeps == IInv /\ [Next]_vars => IInv'
<1> SUFFICES ASSUME IInv, [Next]_vars PROVE IInv'
  OBVIOUS
<1>1. ASSUME NEW r \in Requests, GetProvider(r) PROVE IInv'
  BY <1>1, CheckKeeps, AcquireKeeps, RecheckKeeps, BuildRaisesKeeps, ReleaseKeeps, ReturnKeeps
  DEF GetProvider
<1>2. ASSUME NEW r \in Requests, Gen(r) \/ Disconnect(r) PROVE IInv'
  BY <1>2, SendFrameKeeps, DisconnectKeeps, NoticeDisconnectKeeps DEF Gen
<1>3. CASE SetProvider \/ ResetProvider
  BY <1>3, SetProviderKeeps, ResetProviderKeeps
<1>4. CASE UNCHANGED vars
  <2>1. UNCHANGED <<provider, resets, installs, faults, pc, got, ticks, frames>>
    BY <1>4 DEF vars, deps, stream
  <2>2. TypeOK' /\ HoldsObject'
    BY <2>1 DEF IInv, TypeOK, Objects, HoldsObject
  <2>3. SentByObject' /\ TicksAreFresh'
    BY <2>1, FramesStand
  <2> QED BY <2>2, <2>3 DEF IInv
<1> QED BY <1>1, <1>2, <1>3, <1>4 DEF Next

LEMMA HeldIsShared == IInv => SharedProvider
<1> SUFFICES ASSUME IInv, NEW r \in Requests, NEW s \in Requests
             PROVE  /\ resets = 0 /\ pc[r] = "failed" => faults > 0 /\ got[r] = None
                    /\ resets = 0 /\ pc[r] \in {"stream", "ended"} => got[r] # None
                    /\ /\ resets + installs = 0
                       /\ pc[r] \in {"stream", "ended"}
                       /\ pc[s] \in {"stream", "ended"}
                       => got[r] = got[s]
  BY DEF SharedProvider
<1> QED BY DEF IInv, HoldsObject

(* deps.py, get_provider: until a reset every request gets an object, and   *)
(* without an install everybody gets the same one, however many threads     *)
(* find _provider empty at once.                                            *)
THEOREM OneProviderForAll == Spec => []SharedProvider
<1>1. Spec => []IInv
  BY Initially, StepKeeps, PTL DEF Spec
<1> QED BY <1>1, HeldIsShared, PTL

(* providers.py, risk_tick: however many streams share an object and however *)
(* they interleave, no tick is sent twice and the ETA never goes back up.    *)
THEOREM EveryTickIsFresh == Spec => []TicksAreFresh
<1>1. Spec => []IInv
  BY Initially, StepKeeps, PTL DEF Spec
<1>2. IInv => TicksAreFresh
  BY DEF IInv
<1> QED BY <1>1, <1>2, PTL
-------------------------------------------------------------------------------
(* The page of the console.                                                 *)
Call == [stage : {"query", "timeline", "chat"}, inc : Incidents \cup {Null}]

(* Only a chat question may be about no incident; whatever is selected is   *)
(* in the queue.                                                            *)
ConsoleTypeOK ==
    /\ incidents \in Seq(Incidents)
    /\ selected # Null => \E i \in DOMAIN incidents : incidents[i] = selected
    /\ card # Null => card \in [inc : Incidents, answer : Incidents, eta : Incidents]
    /\ calls \in [Calls -> Call \cup {Null}]
    /\ \A s \in Calls : calls[s] # Null /\ calls[s].stage # "chat" => calls[s].inc \in Incidents

ConsoleInv == ConsoleTypeOK /\ CardIsCoherent
-------------------------------------------------------------------------------
LEMMA ConsoleInitially == ConsoleInit => ConsoleInv
BY DEF ConsoleInit, ConsoleInv, ConsoleTypeOK, CardIsCoherent

LEMMA SelectedIsIncident ==
    ASSUME ConsoleTypeOK, selected # Null
    PROVE  selected \in Incidents
BY DEF ConsoleTypeOK

(* An activity starts, moves on or ends; the others wait on.                *)
LEMMA WaitsType ==
    ASSUME ConsoleTypeOK, NEW s \in Calls, NEW stage \in {"query", "timeline", "chat"},
           NEW inc \in Incidents \cup {Null}, stage # "chat" => inc \in Incidents,
           Waits(s, stage, inc)
    PROVE  /\ calls' \in [Calls -> Call \cup {Null}]
           /\ \A r \in Calls : calls'[r] # Null /\ calls'[r].stage # "chat" => calls'[r].inc \in Incidents
           /\ \A r \in Calls : r # s => calls'[r] = calls[r]
           /\ calls'[s] # Null
<1> DEFINE c == [stage |-> stage, inc |-> inc]
<1>1. c \in Call /\ c.stage = stage /\ c.inc = inc
  BY DEF Call
<1>2. calls' = [calls EXCEPT ![s] = c] /\ calls \in [Calls -> Call \cup {Null}]
  BY DEF Waits, ConsoleTypeOK
<1>3. calls'[s] = c /\ \A r \in Calls : r # s => calls'[r] = calls[r]
  BY <1>2
<1>4. c # Null
  BY <1>1, CallAssumption DEF Call
<1> HIDE DEF c
<1> QED BY <1>1, <1>2, <1>3, <1>4 DEF ConsoleTypeOK

LEMMA EndsType ==
    ASSUME ConsoleTypeOK, NEW s \in Calls, Ends(s)
    PROVE  /\ calls' \in [Calls -> Call \cup {Null}]
           /\ \A r \in Calls : calls'[r] # Null /\ calls'[r].stage # "chat" => calls'[r].inc \in Incidents
           /\ \A r \in Calls : r # s => calls'[r] = calls[r]
<1>1. calls' = [calls EXCEPT ![s] = Null] /\ calls \in [Calls -> Call \cup {Null}]
  BY DEF Ends, ConsoleTypeOK
<1>2. calls'[s] = Null /\ \A r \in Calls : r # s => calls'[r] = calls[r]
  BY <1>1
<1> QED BY <1>1, <1>2 DEF ConsoleTypeOK

(* A rendered answer is about the fault of the incident it is rendered for. *)
LEMMA RenderKeeps ==
    ASSUME NEW inc \in Incidents, NEW answer \in Incidents, answer.issue = inc.issue,
           Render(inc, answer)
    PROVE  /\ CardIsCoherent'
           /\ card' \in [inc : Incidents, answer : Incidents, eta : Incidents]
BY DEF Render, CardIsCoherent

LEMMA BootKeeps == ASSUME ConsoleInv, BootLoads PROVE ConsoleInv'
<1>1. UNCHANGED <<card, graph, timeline, missed>> /\ ConsoleTypeOK /\ CardIsCoherent
  BY DEF BootLoads, ConsoleInv
<1>2. CardIsCoherent'
  BY <1>1 DEF CardIsCoherent
<1>3. ASSUME NEW queue \in Queues, incidents' = queue, SelectIncident(Boot, Head(queue))
      PROVE  ConsoleTypeOK'
  <2>1. queue \in Seq(Incidents) /\ queue # <<>>
    BY QueueAssumption
  <2>2. Head(queue) = queue[1] /\ 1 \in DOMAIN queue /\ Head(queue) \in Incidents
    BY <2>1
  <2>3. selected' = Head(queue) /\ Waits(Boot, "query", Head(queue)) /\ Boot \in Calls
    BY <1>3 DEF SelectIncident, Calls
  <2>4. /\ calls' \in [Calls -> Call \cup {Null}]
        /\ \A r \in Calls : calls'[r] # Null /\ calls'[r].stage # "chat" => calls'[r].inc \in Incidents
    BY <1>1, <2>2, <2>3, WaitsType
  <2> QED BY <1>1, <1>3, <2>1, <2>2, <2>3, <2>4 DEF ConsoleTypeOK
<1>4. ASSUME UNCHANGED <<incidents, selected, calls>>
      PROVE  ConsoleTypeOK'
  BY <1>1, <1>4 DEF ConsoleTypeOK
<1>5. \/ \E queue \in Queues : incidents' = queue /\ SelectIncident(Boot, Head(queue))
      \/ UNCHANGED <<incidents, selected, calls>>
  BY DEF BootLoads
<1>6. ConsoleTypeOK'
  BY <1>3, <1>4, <1>5
<1> QED BY <1>2, <1>6 DEF ConsoleInv

LEMMA ClickKeeps ==
    ASSUME ConsoleInv, NEW s \in Slots, NEW i \in DOMAIN incidents, Click(s, i)
    PROVE  ConsoleInv'
<1>1. /\ UNCHANGED <<phase, incidents, card, graph, timeline, missed>> /\ ConsoleTypeOK /\ CardIsCoherent
      /\ selected' = incidents[i] /\ Waits(s, "query", incidents[i]) /\ s \in Calls
  BY DEF Click, SelectIncident, ConsoleInv, Calls
<1>2. incidents[i] \in Incidents
  BY <1>1 DEF ConsoleTypeOK
<1>3. /\ calls' \in [Calls -> Call \cup {Null}]
      /\ \A r \in Calls : calls'[r] # Null /\ calls'[r].stage # "chat" => calls'[r].inc \in Incidents
  BY <1>1, <1>2, WaitsType
<1>4. ConsoleTypeOK'
  BY <1>1, <1>2, <1>3 DEF ConsoleTypeOK
<1> QED BY <1>1, <1>4 DEF ConsoleInv, CardIsCoherent

LEMMA AskKeeps ==
    ASSUME ConsoleInv, NEW s \in Slots, AskCopilot(s)
    PROVE  ConsoleInv'
<1>1. /\ UNCHANGED <<phase, incidents, selected, card, graph, timeline, missed>>
      /\ ConsoleTypeOK /\ CardIsCoherent /\ Waits(s, "chat", selected) /\ s \in Calls
  BY DEF AskCopilot, ConsoleInv, Calls
<1>2. selected \in Incidents \cup {Null}
  BY <1>1, SelectedIsIncident
<1>3. /\ calls' \in [Calls -> Call \cup {Null}]
      /\ \A r \in Calls : calls'[r] # Null /\ calls'[r].stage # "chat" => calls'[r].inc \in Incidents
  BY <1>1, <1>2, WaitsType
<1>4. ConsoleTypeOK'
  BY <1>1, <1>3 DEF ConsoleTypeOK
<1> QED BY <1>1, <1>4 DEF ConsoleInv, CardIsCoherent

LEMMA QueryKeeps ==
    ASSUME ConsoleInv, NEW s \in Calls, QuerySettles(s)
    PROVE  ConsoleInv'
<1> DEFINE inc == calls[s].inc
<1>1. /\ calls[s] # Null /\ calls[s].stage = "query" /\ Render(inc, inc)
      /\ Waits(s, "timeline", inc) /\ UNCHANGED <<phase, incidents, selected, timeline, missed>>
      /\ ConsoleTypeOK
  BY DEF QuerySettles, ConsoleInv
<1>2. inc \in Incidents
  BY <1>1 DEF ConsoleTypeOK
<1> HIDE DEF inc
<1>3. CardIsCoherent' /\ card' \in [inc : Incidents, answer : Incidents, eta : Incidents]
  BY <1>1, <1>2, RenderKeeps
<1>4. /\ calls' \in [Calls -> Call \cup {Null}]
      /\ \A r \in Calls : calls'[r] # Null /\ calls'[r].stage # "chat" => calls'[r].inc \in Incidents
  BY <1>1, <1>2, WaitsType
<1>5. ConsoleTypeOK'
  BY <1>1, <1>3, <1>4 DEF ConsoleTypeOK
<1> QED BY <1>3, <1>5 DEF ConsoleInv

(* Replies that only end what waited for them.                              *)
LEMMA EndKeeps ==
    ASSUME ConsoleInv, NEW s \in Calls, Ends(s), UNCHANGED <<incidents, selected, card, graph>>
    PROVE  ConsoleInv'
<1>1. /\ calls' \in [Calls -> Call \cup {Null}]
      /\ \A r \in Calls : calls'[r] # Null /\ calls'[r].stage # "chat" => calls'[r].inc \in Incidents
  BY EndsType DEF ConsoleInv
<1>2. ConsoleTypeOK'
  BY <1>1 DEF ConsoleTypeOK, ConsoleInv
<1> QED BY <1>2 DEF ConsoleInv, CardIsCoherent

LEMMA ChatKeeps ==
    ASSUME ConsoleInv, NEW s \in Calls, NEW answer \in Incidents, ChatReturns(s, answer)
    PROVE  ConsoleInv'
<1>1. Ends(s) /\ UNCHANGED <<phase, incidents, timeline, missed>> /\ ConsoleTypeOK
  BY DEF ChatReturns, ConsoleInv
<1>2. CASE UNCHANGED <<selected, card, graph>>
  BY <1>1, <1>2, EndKeeps
<1>3. ASSUME NEW inc \in Match(answer), selected' = inc, Render(inc, answer)
      PROVE  ConsoleInv'
  <2>1. /\ inc \in Incidents /\ inc.issue = answer.issue
        /\ \E i \in DOMAIN incidents : incidents[i] = inc
    BY DEF Match
  <2>2. CardIsCoherent' /\ card' \in [inc : Incidents, answer : Incidents, eta : Incidents]
    BY <1>3, <2>1, RenderKeeps
  <2>3. /\ calls' \in [Calls -> Call \cup {Null}]
        /\ \A r \in Calls : calls'[r] # Null /\ calls'[r].stage # "chat" => calls'[r].inc \in Incidents
    BY <1>1, EndsType
  <2>4. ConsoleTypeOK'
    BY <1>1, <1>3, <2>1, <2>2, <2>3 DEF ConsoleTypeOK
  <2> QED BY <2>2, <2>4 DEF ConsoleInv
<1> QED BY <1>2, <1>3 DEF ChatReturns

LEMMA TickKeeps == ASSUME ConsoleInv, Tick PROVE ConsoleInv'
<1>1. /\ card # Null /\ card' = [card EXCEPT !.eta = selected] /\ selected = Head(incidents)
      /\ incidents # <<>> /\ UNCHANGED <<phase, incidents, selected, graph, timeline, calls, missed>>
      /\ ConsoleTypeOK /\ CardIsCoherent
  BY DEF Tick, ConsoleInv
<1>2. selected \in Incidents
  BY <1>1 DEF ConsoleTypeOK
<1>3. card \in [inc : Incidents, answer : Incidents, eta : Incidents]
  BY <1>1 DEF ConsoleTypeOK
<1>4. /\ card' \in [inc : Incidents, answer : Incidents, eta : Incidents]
      /\ card'.inc = card.inc /\ card'.answer = card.answer
  BY <1>1, <1>2, <1>3
<1>5. ConsoleTypeOK'
  BY <1>1, <1>4 DEF ConsoleTypeOK
<1> QED BY <1>1, <1>4, <1>5 DEF ConsoleInv, CardIsCoherent

LEMMA ConsoleStepKeeps == ConsoleInv /\ [ConsoleNext]_consoleVars => ConsoleInv'
<1> SUFFICES ASSUME ConsoleInv, [ConsoleNext]_consoleVars PROVE ConsoleInv'
  OBVIOUS
<1>1. CASE BootLoads
  BY <1>1, BootKeeps
<1>2. ASSUME NEW s \in Slots, AskCopilot(s) PROVE ConsoleInv'
  BY <1>2, AskKeeps
<1>3. ASSUME NEW s \in Slots, NEW i \in DOMAIN incidents, Click(s, i) PROVE ConsoleInv'
  BY <1>3, ClickKeeps
<1>4. ASSUME NEW s \in Calls, Settle(s) PROVE ConsoleInv'
  <2>1. CASE QuerySettles(s)
    BY <2>1, QueryKeeps
  <2>2. CASE TimelineReturns(s)
    BY <2>2, EndKeeps DEF TimelineReturns
  <2>3. CASE TimelineFails(s)
    BY <2>3, EndKeeps DEF TimelineFails
  <2>4. ASSUME NEW answer \in Incidents, ChatReturns(s, answer) PROVE ConsoleInv'
    BY <2>4, ChatKeeps
  <2>5. CASE ChatFails(s)
    BY <2>5, EndKeeps DEF ChatFails
  <2> QED BY <1>4, <2>1, <2>2, <2>3, <2>4, <2>5 DEF Settle
<1>5. CASE Tick
  BY <1>5, TickKeeps
<1>6. CASE UNCHANGED consoleVars
  BY <1>6 DEF consoleVars, ConsoleInv, ConsoleTypeOK, CardIsCoherent
<1> QED BY <1>1, <1>2, <1>3, <1>4, <1>5, <1>6 DEF ConsoleNext

LEMMA ConsoleInductive == ConsoleSpec => []ConsoleInv
BY ConsoleInitially, ConsoleStepKeeps, PTL DEF ConsoleSpec

(* However replies overtake each other, the card shows one fault and the    *)
(* graph is dimmed around the card's incident (renderAnswers and            *)
(* highlightTopologyForIncident of app.js).                                 *)
THEOREM CardShowsOneFault == ConsoleSpec => []CardIsCoherent
<1>1. ConsoleInv => CardIsCoherent
  BY DEF ConsoleInv
<1> QED BY <1>1, ConsoleInductive, PTL
-------------------------------------------------------------------------------
(* Where faults differ, an answer about the selected incident matches no    *)
(* other.                                                                   *)
LEMMA OwnMatch ==
    ASSUME ConsoleTypeOK, OnePerIssue, selected # Null
    PROVE  Match(selected) \ {selected} = {}
<1>1. PICK i \in DOMAIN incidents : incidents[i] = selected
  BY DEF ConsoleTypeOK
<1>2. ASSUME NEW inc \in Match(selected) PROVE inc = selected
  <2>1. PICK j \in DOMAIN incidents : incidents[j] = inc /\ inc.issue = selected.issue
    BY DEF Match
  <2>2. j = i
    BY <1>1, <2>1 DEF OnePerIssue
  <2> QED BY <1>1, <2>1, <2>2
<1> QED BY <1>2

LEMMA ChatStep ==
    ASSUME ConsoleInv, [ConsoleNext]_consoleVars, NEW s \in Slots, OnePerIssue, selected # Null,
           calls[s] = [stage |-> "chat", inc |-> selected], calls'[s] = Null
    PROVE  selected' = selected
<1> DEFINE c == [stage |-> "chat", inc |-> selected]
<1>1. ConsoleTypeOK /\ s \in Calls /\ s # Boot /\ selected \in Incidents
  BY CallAssumption, SelectedIsIncident DEF ConsoleInv, Calls
<1>2. c \in Call /\ c # Null /\ c.stage = "chat" /\ c.inc = selected
  <2>1. c \in Call
    BY <1>1 DEF Call
  <2>2. c # Null
    BY <2>1, CallAssumption DEF Call
  <2> QED BY <2>1, <2>2
<1>3. calls[s] = c
  OBVIOUS
<1> HIDE DEF c
<1>4. calls'[s] # calls[s]
  BY <1>2, <1>3
<1>5. CASE BootLoads
  <2>1. ASSUME NEW queue \in Queues, SelectIncident(Boot, Head(queue)) PROVE FALSE
    <3>1. calls' = [calls EXCEPT ![Boot] = [stage |-> "query", inc |-> Head(queue)]]
      BY <2>1 DEF SelectIncident, Waits
    <3> QED BY <1>1, <1>4, <3>1 DEF ConsoleTypeOK
  <2> QED BY <1>5, <2>1 DEF BootLoads
<1>6. ASSUME NEW r \in Slots, AskCopilot(r) PROVE selected' = selected
  BY <1>6 DEF AskCopilot
<1>7. ASSUME NEW r \in Slots, NEW i \in DOMAIN incidents, Click(r, i) PROVE FALSE
  <2>1. r # s
    BY <1>2, <1>3, <1>7 DEF Click, Acts
  <2>2. calls' = [calls EXCEPT ![r] = [stage |-> "query", inc |-> incidents[i]]]
    BY <1>7 DEF Click, SelectIncident, Waits
  <2> QED BY <1>1, <1>4, <2>1, <2>2 DEF ConsoleTypeOK
<1>8. ASSUME NEW r \in Calls, NEW answer \in Incidents, ChatReturns(r, answer)
      PROVE  selected' = selected
  <2>1. r = s
    <3>1. calls' = [calls EXCEPT ![r] = Null]
      BY <1>8 DEF ChatReturns, Ends
    <3> QED BY <1>1, <1>4, <3>1 DEF ConsoleTypeOK
  <2>2. answer = selected
    BY <1>2, <1>3, <1>8, <2>1 DEF ChatReturns
  <2>3. Match(answer) \ {selected} = {}
    BY <1>1, <2>2, OwnMatch
  <2> QED BY <1>8, <2>3 DEF ChatReturns
<1>9. CASE \E r \in Calls : QuerySettles(r) \/ TimelineReturns(r) \/ TimelineFails(r) \/ ChatFails(r)
  BY <1>9 DEF QuerySettles, TimelineReturns, TimelineFails, ChatFails
<1>10. CASE Tick \/ UNCHANGED consoleVars
  BY <1>10 DEF Tick, consoleVars
<1> QED BY <1>5, <1>6, <1>7, <1>8, <1>9, <1>10 DEF ConsoleNext, Settle

(* With no two incidents of one fault, an answer about the selected         *)
(* incident leaves the selection alone (app.js, "If the answer is about a   *)
(* specific incident, sync the card/graph").                                *)
THEOREM ChatStays == ConsoleSpec => ChatKeepsItsIncident
<1>1. ConsoleInv /\ [ConsoleNext]_consoleVars => [\A s \in Slots :
          /\ OnePerIssue
          /\ selected # Null
          /\ calls[s] = [stage |-> "chat", inc |-> selected]
          /\ calls'[s] = Null
          => selected' = selected]_consoleVars
  BY ChatStep
<1> QED BY <1>1, ConsoleInductive, PTL DEF ConsoleSpec, ChatKeepsItsIncident
===============================================================================
