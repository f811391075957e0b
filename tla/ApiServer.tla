------------------------------ MODULE ApiServer ------------------------------
(***************************************************************************)
(* The operator API's shared situation provider: the lazily built          *)
(* process-wide object of netra/api/deps.py, and the Server-Sent-Events    *)
(* risk stream of netra/api/routes/stream.py that every console holds      *)
(* open on it.                                                             *)
(*                                                                         *)
(* get_provider is a plain function, so FastAPI runs each request's call   *)
(* in a thread pool; it tests _provider outside the lock, again inside it, *)
(* and reads it once more to return it.  risk_tick is called only from the *)
(* generators, on the event loop, which it does not leave.                 *)
(***************************************************************************)
EXTENDS Integers, Sequences

CONSTANTS
    Requests,   \* requests to /api/stream/risk
    Limit,      \* [Requests -> Nat \cup {None}]: the limit query parameter
    Eta,        \* eta_seconds of the headline, in units of a tick's seconds
    MaxTicks,   \* bound: frames of an unlimited stream
    MaxAdmin,   \* bound: calls of set_provider and reset_provider
    MaxFaults,  \* bound: calls of make_provider that raise
    None        \* Python's None

ASSUME LimitAssumption == Limit \in [Requests -> (Nat \ {0}) \cup {None}]
ASSUME BoundAssumption == /\ Eta \in Nat
                          /\ MaxTicks \in Nat
                          /\ MaxAdmin \in Nat
                          /\ MaxFaults \in Nat
ASSUME NoneAssumption == None \notin Nat /\ None \notin Requests

VARIABLES
    provider,   \* _provider: an object's number, or None
    lock,       \* _lock: the request whose thread holds it, or None
    pc,         \* per request: "check", "lock", "recheck", "release",
                \* "return", "stream", "ended" or "failed"
    got,        \* per request: what get_provider returned
    ticks,      \* provider objects made so far, each with its _tick
    frames,     \* per request: the risk frames sent
    away,       \* requests whose client has disconnected
    built,      \* history: objects that make_provider returned
    resets,     \* history: calls of reset_provider
    installs,   \* history: calls of set_provider
    faults      \* history: calls of make_provider that raised

deps   == <<provider, lock, built, resets, installs, faults>>
stream == <<frames, away>>
vars == <<deps, pc, got, ticks, stream>>
-------------------------------------------------------------------------------
Init == /\ provider = None
        /\ lock = None
        /\ pc = [r \in Requests |-> "check"]
        /\ got = [r \in Requests |-> None]
        /\ ticks = <<>>
        /\ frames = [r \in Requests |-> <<>>]
        /\ away = {}
        /\ built = 0
        /\ resets = 0
        /\ installs = 0
        /\ faults = 0

Goto(r, label) == pc' = [pc EXCEPT ![r] = label]
-------------------------------------------------------------------------------
(* Mutant: a try-lock; with the lock taken, return what is there.           *)
CheckTryLock(r) ==
    /\ pc[r] = "check"
    /\ Goto(r, IF provider = None /\ lock = None THEN "lock" ELSE "return")
    /\ UNCHANGED <<deps, got, ticks, stream>>

(* get_provider, the first test, outside the lock.                          *)
Check(r) ==
    /\ pc[r] = "check"
    /\ Goto(r, IF provider = None THEN "lock" ELSE "return")
    /\ UNCHANGED <<deps, got, ticks, stream>>

Acquire(r) ==
    /\ pc[r] = "lock"
    /\ lock = None
    /\ lock' = r
    /\ Goto(r, "recheck")
    /\ UNCHANGED <<provider, built, resets, installs, faults, got, ticks, stream>>

(* The second test, and make_provider() when it finds nothing.              *)
Recheck(r) ==
    /\ pc[r] = "recheck"
    /\ IF provider = None
       THEN /\ ticks' = Append(ticks, 0)
            /\ provider' = Len(ticks')
            /\ built' = built + 1
       ELSE UNCHANGED <<provider, ticks, built>>
    /\ Goto(r, "release")
    /\ UNCHANGED <<lock, resets, installs, faults, got, stream>>

(* Mutant: acquire() and release() without "with" or "finally".             *)
BuildRaisesLocked(r) ==
    /\ pc[r] = "recheck"
    /\ provider = None
    /\ faults < MaxFaults
    /\ faults' = faults + 1
    /\ Goto(r, "failed")
    /\ UNCHANGED <<provider, lock, built, resets, installs, got, ticks, stream>>

(* make_provider() raises: "with" lets go of the lock, the request fails.   *)
BuildRaises(r) ==
    /\ pc[r] = "recheck"
    /\ provider = None
    /\ faults < MaxFaults
    /\ faults' = faults + 1
    /\ lock' = None
    /\ Goto(r, "failed")
    /\ UNCHANGED <<provider, built, resets, installs, got, ticks, stream>>

Release(r) ==
    /\ pc[r] = "release"
    /\ lock' = None
    /\ Goto(r, "return")
    /\ UNCHANGED <<provider, built, resets, installs, faults, got, ticks, stream>>

(* "return _provider": a third read, outside the lock.  A route that is     *)
(* handed None fails on its first use of it.                                *)
Return(r) ==
    /\ pc[r] = "return"
    /\ got' = [got EXCEPT ![r] = provider]
    /\ Goto(r, IF provider = None THEN "failed" ELSE "stream")
    /\ UNCHANGED <<deps, ticks, stream>>

(* set_provider(object) and reset_provider(), each under the lock.          *)
SetProvider ==
    /\ lock = None
    /\ resets + installs < MaxAdmin
    /\ ticks' = Append(ticks, 0)
    /\ provider' = Len(ticks')
    /\ installs' = installs + 1
    /\ UNCHANGED <<lock, built, resets, faults, pc, got, stream>>

ResetProvider ==
    /\ lock = None
    /\ resets + installs < MaxAdmin
    /\ provider' = None
    /\ resets' = resets + 1
    /\ UNCHANGED <<lock, built, installs, faults, pc, got, ticks, stream>>
-------------------------------------------------------------------------------
(* risk_tick(): one tick of the object, shared by all streams on it, and    *)
(* the headline's ETA less one tick for each, at least 0.                   *)
RiskTick(n) == [tick |-> n, eta |-> IF Eta > n THEN Eta - n ELSE 0]

(* Mutant: each stream counts its own frames.                               *)
SendFrameOwnTick(r) ==
    /\ pc[r] = "stream"
    /\ r \notin away
    /\ Limit[r] = None => Len(frames[r]) < MaxTicks
    /\ frames' = [frames EXCEPT ![r] = Append(@, RiskTick(Len(@) + 1))]
    /\ Goto(r, IF Limit[r] # None /\ Len(frames'[r]) >= Limit[r] THEN "ended" ELSE "stream")
    /\ UNCHANGED <<deps, got, ticks, away>>

(* One turn of gen(): send a frame, and stop at the limit.                  *)
SendFrame(r) ==
    /\ pc[r] = "stream"
    /\ r \notin away
    /\ Limit[r] = None => Len(frames[r]) < MaxTicks
    /\ ticks' = [ticks EXCEPT ![got[r]] = @ + 1]
    /\ frames' = [frames EXCEPT ![r] = Append(@, RiskTick(ticks'[got[r]]))]
    /\ Goto(r, IF Limit[r] # None /\ Len(frames'[r]) >= Limit[r] THEN "ended" ELSE "stream")
    /\ UNCHANGED <<deps, got, away>>

(* The client goes away (external) ...                                      *)
Disconnect(r) ==
    /\ pc[r] = "stream"
    /\ away' = away \cup {r}
    /\ UNCHANGED <<deps, pc, got, ticks, frames>>

(* ... and gen() finds out before its next frame.                           *)
NoticeDisconnect(r) ==
    /\ pc[r] = "stream"
    /\ r \in away
    /\ Goto(r, "ended")
    /\ UNCHANGED <<deps, got, ticks, stream>>

GetProvider(r) ==
    Check(r) \/ Acquire(r) \/ Recheck(r) \/ BuildRaises(r) \/ Release(r) \/ Return(r)

Gen(r) == SendFrame(r) \/ NoticeDisconnect(r)

Next == \/ \E r \in Requests : GetProvider(r) \/ Gen(r) \/ Disconnect(r)
        \/ SetProvider
        \/ ResetProvider

(* Threads of the pool are scheduled and the event loop turns; clients of   *)
(* unlimited streams may stay for ever.                                     *)
Fairness == \A r \in Requests : WF_vars(GetProvider(r)) /\ WF_vars(Gen(r))

Spec == Init /\ [][Next]_vars /\ Fairness
-------------------------------------------------------------------------------
(* Until someone resets it, get_provider returns an object, and the same    *)
(* one to everybody unless another was installed meanwhile.                 *)
SharedProvider ==
    \A r, s \in Requests :
        /\ resets = 0 /\ pc[r] = "failed" => faults > 0 /\ got[r] = None
        /\ resets = 0 /\ pc[r] \in {"stream", "ended"} => got[r] # None
        /\ /\ resets + installs = 0
           /\ pc[r] \in {"stream", "ended"}
           /\ pc[s] \in {"stream", "ended"}
           => got[r] = got[s]

(* providers.py: "each tick looks like a fresh sample": whatever streams    *)
(* share an object, no tick of it is sent twice, and the ETA a console sees *)
(* only ever counts down.                                                   *)
TicksAreFresh ==
    \A r, s \in Requests : got[r] = got[s] =>
        \A i \in DOMAIN frames[r], j \in DOMAIN frames[s] :
            /\ frames[r][i].tick = frames[s][j].tick => r = s /\ i = j
            /\ r = s /\ i < j => /\ frames[r][i].tick < frames[r][j].tick
                                 /\ frames[r][i].eta >= frames[r][j].eta

(* Every request with a limit is done in the end: no thread is stuck on the *)
(* lock, whoever failed while holding it.                                   *)
LimitedRequestsEnd ==
    \A r \in Requests : Limit[r] # None => <>(pc[r] \in {"ended", "failed"})
===============================================================================
