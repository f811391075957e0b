-------------------------- MODULE AlertEmitterProofs --------------------------
(***************************************************************************)
(* The safety of AlertEmitter for every window, dedup window, cap, lag and *)
(* set of identities.  The invariants of the model-checked runs are not    *)
(* inductive: IInv adds where each returned alert's key has gone (still    *)
(* remembered, pushed out by the cap, or expired), how unsorted the store  *)
(* can be, and what the running loop has still to process.                 *)
(***************************************************************************)
EXTENDS AlertEmitter, TLAPS, SequenceTheorems

(* An entry's first-seen time is at most MaxLag before any entry ahead of   *)
(* it in the store.                                                         *)
NearlySorted ==
    \A i, j \in DOMAIN seen : i < j => seen[j].first >= seen[i].first - MaxLag

BehindNewest == \A i \in DOMAIN seen : seen[i].first <= newest

(* Every remembered key was fired, at the time the store records.           *)
RememberedWasFired ==
    \A i \in DOMAIN seen :
        \E j \in DOMAIN out : /\ out[j].key = seen[i].key
                              /\ out[j].ts = seen[i].first

StillRemembered(a) ==
    \E i \in DOMAIN seen : seen[i].key = a.key /\ seen[i].first = a.ts

LongExpired(a) == DedupWindow # None /\ newest > a.ts + DedupWindow

(* Where the key of a returned alert has gone.                              *)
FiredIsAccounted ==
    \A j \in DOMAIN out : \/ out[j].key \in evicted
                          \/ StillRemembered(out[j])
                          \/ LongExpired(out[j])

Keyed(s) == \A i \in DOMAIN s : s[i].key.window = FloorWindow(s[i].ts)

(* What ProcessCandidate preserves, apart from its type.                    *)
StoreInv == /\ BoundedDistinct
            /\ NearlySorted
            /\ BehindNewest
            /\ StalenessBound
            /\ RememberedWasFired
            /\ FiredIsAccounted
            /\ Keyed(out)
            /\ NoDoubleFire
            /\ SuppressedHasWitness

IInv == /\ TypeOK
        /\ StoreInv
        /\ Keyed(pending)
        /\ WithinLag(pending)

(* The two outcomes of ProcessCandidate, by what they do to each index.     *)
Duplicate(c, n) ==
    /\ \E i \in n+1..Len(seen) : seen[i].key = c.key
    /\ seen' \in Seq(Entry)
    /\ Len(seen') = Len(seen) - n
    /\ \A i \in 1..Len(seen') : seen'[i] = seen[n + i]
    /\ suppressed' = Append(suppressed, c)
    /\ out' = out
    /\ evicted' = evicted

FirstTime(c, n, cut) ==
    /\ \A i \in n+1..Len(seen) : seen[i].key # c.key
    /\ Len(seen) - n + 1 - cut <= MaxKeys
    /\ seen' \in Seq(Entry)
    /\ Len(seen') = Len(seen) - n + 1 - cut
    /\ \A i \in 1..Len(seen') :
          seen'[i] = IF n + cut + i <= Len(seen)
                     THEN seen[n + cut + i] ELSE [key |-> c.key, first |-> c.ts]
    /\ evicted' = evicted \cup {IF n + i <= Len(seen) THEN seen[n + i].key ELSE c.key :
                                   i \in 1..cut}
    /\ out' = Append(out, c)
    /\ suppressed' = suppressed
-------------------------------------------------------------------------------
(* Two timestamps of one window are less than a window apart.               *)
LEMMA SameWindow ==
    ASSUME NEW a \in Nat, NEW b \in Nat, FloorWindow(a) = FloorWindow(b)
    PROVE  a - b < Window
<1>1. a = Window * (a \div Window) + (a % Window) /\ a % Window < Window /\ a % Window >= 0
  BY WindowAssumption
<1>2. b = Window * (b \div Window) + (b % Window) /\ b % Window < Window /\ b % Window >= 0
  BY WindowAssumption
<1>3. a \div Window \in Int /\ a % Window \in Int /\ b % Window \in Int
  BY WindowAssumption
<1>4. Window * (a \div Window) = Window * (b \div Window)
  BY DEF FloorWindow
<1> QED
  BY <1>1, <1>2, <1>3, <1>4, WindowAssumption

(* The arithmetic of a stale entry behind a live one.                       *)
LEMMA LagChain ==
    ASSUME NEW a \in Nat, NEW b \in Nat, NEW t \in Nat, NEW d \in Nat, NEW l \in Nat,
           a >= b - l, b >= t - d
    PROVE  a >= t - d - l
  OBVIOUS

(* The arithmetic of NoDoubleFire: an expired key is too old to come back.  *)
LEMMA LateDuplicate ==
    ASSUME NEW fired \in Nat, NEW again \in Nat, NEW now \in Nat, NEW lag \in Nat,
           NEW dedup \in Nat, NEW window \in Nat,
           now > fired + dedup, again >= now - lag, lag + window <= dedup + 1,
           again - fired < window
    PROVE  FALSE
  OBVIOUS

LEMMA StillLater ==
    ASSUME NEW f \in Nat, NEW d \in Nat, NEW t \in Nat, NEW u \in Nat, t > f + d, u >= t
    PROVE  u > f + d
  OBVIOUS

LEMMA FloorWindowType ==
    ASSUME NEW t \in Nat
    PROVE  FloorWindow(t) \in Nat
  BY WindowAssumption DEF FloorWindow

(* ProcessCandidate either drops a duplicate or fires, and in both cases    *)
(* only removes a front part of the store.                                  *)
LEMMA ProcessShape ==
    ASSUME TypeOK, NEW c \in Candidate, ProcessCandidate(c)
    PROVE  \E n \in 0..Len(seen) :
              /\ ExpiredRun(n, c.ts)
              /\ newest' = IF c.ts > newest THEN c.ts ELSE newest
              /\ \/ Duplicate(c, n)
                 \/ \E cut \in 0..Len(seen)-n+1 : FirstTime(c, n, cut)
<1> DEFINE Kept(n)  == SubSeq(seen, n + 1, Len(seen))
           Added(n) == Append(Kept(n), [key |-> c.key, first |-> c.ts])
           Cut(n)   == Excess(Added(n))
<1>1. PICK n \in 0..Len(seen) :
         /\ ExpiredRun(n, c.ts)
         /\ IF c.key \in Keys(Kept(n))
            THEN /\ seen' = Kept(n)
                 /\ suppressed' = Append(suppressed, c)
                 /\ UNCHANGED <<out, evicted>>
            ELSE /\ seen' = SubSeq(Added(n), Cut(n) + 1, Len(Added(n)))
                 /\ evicted' = evicted \cup {Added(n)[i].key : i \in 1..Cut(n)}
                 /\ out' = Append(out, c)
                 /\ UNCHANGED suppressed
  BY DEF ProcessCandidate
<1>2. newest' = IF c.ts > newest THEN c.ts ELSE newest
  BY DEF ProcessCandidate
<1>3. seen \in Seq(Entry) /\ Len(seen) \in Nat /\ n \in Nat /\ n <= Len(seen)
  BY DEF TypeOK
<1>4. \A i \in n+1..Len(seen) : seen[i] \in Entry
  BY <1>3
<1> HIDE DEF Kept, Added, Cut
<1>5. /\ Kept(n) \in Seq(Entry)
      /\ Len(Kept(n)) = Len(seen) - n
      /\ \A i \in 1..Len(seen)-n : Kept(n)[i] = seen[n + i]
  <2>1. /\ Kept(n) \in Seq(Entry)
        /\ Len(Kept(n)) = IF n + 1 <= Len(seen) THEN Len(seen) - (n + 1) + 1 ELSE 0
        /\ \A i \in 1..Len(seen)-(n+1)+1 : Kept(n)[i] = seen[(n + 1) + i - 1]
    BY <1>3, <1>4, SubSeqProperties DEF Kept
  <2>2. \A i \in 1..Len(seen)-n : (n + 1) + i - 1 = n + i /\ i \in 1..Len(seen)-(n+1)+1
    BY <1>3
  <2>3. \A i \in 1..Len(seen)-n : Kept(n)[i] = seen[n + i]
    BY <2>1, <2>2
  <2>4. Len(Kept(n)) = Len(seen) - n
    BY <2>1, <1>3
  <2> QED BY <2>1, <2>3, <2>4
<1>6. c.key \in Key /\ c.ts \in Nat /\ [key |-> c.key, first |-> c.ts] \in Entry
  BY DEF Candidate, Entry
<1>7. /\ Added(n) \in Seq(Entry)
      /\ Len(Added(n)) = Len(seen) - n + 1
      /\ \A i \in 1..Len(Added(n)) :
            Added(n)[i] = IF n + i <= Len(seen)
                          THEN seen[n + i] ELSE [key |-> c.key, first |-> c.ts]
  <2>1. /\ Added(n) \in Seq(Entry)
        /\ Len(Added(n)) = Len(Kept(n)) + 1
        /\ \A i \in 1..Len(Kept(n)) : Added(n)[i] = Kept(n)[i]
        /\ Added(n)[Len(Kept(n)) + 1] = [key |-> c.key, first |-> c.ts]
    BY <1>5, <1>6, AppendProperties DEF Added
  <2>2. Len(Added(n)) = Len(seen) - n + 1
    BY <2>1, <1>3, <1>5
  <2>3. ASSUME NEW i \in 1..Len(Added(n))
        PROVE  Added(n)[i] = IF n + i <= Len(seen)
                             THEN seen[n + i] ELSE [key |-> c.key, first |-> c.ts]
    <3>1. CASE i \in 1..Len(seen)-n
      BY <3>1, <2>1, <1>3, <1>5
    <3>2. CASE i = Len(seen) - n + 1
      BY <3>2, <2>1, <1>3, <1>5
    <3> QED BY <2>2, <3>1, <3>2, <1>3
  <2> QED BY <2>1, <2>2, <2>3
<1>8. c.key \in Keys(Kept(n)) <=> \E i \in n+1..Len(seen) : seen[i].key = c.key
  <2>1. DOMAIN Kept(n) = 1..Len(seen)-n
    BY <1>5, <1>3
  <2>2. ASSUME NEW i \in n+1..Len(seen), seen[i].key = c.key
        PROVE  c.key \in Keys(Kept(n))
    <3>1. i - n \in 1..Len(seen)-n /\ Kept(n)[i - n] = seen[n + (i - n)] /\ n + (i - n) = i
      BY <1>3, <1>5
    <3> QED BY <3>1, <2>1, <2>2 DEF Keys
  <2>3. ASSUME c.key \in Keys(Kept(n))
        PROVE  \E i \in n+1..Len(seen) : seen[i].key = c.key
    <3>1. PICK i \in 1..Len(seen)-n : Kept(n)[i].key = c.key
      BY <2>1, <2>3 DEF Keys
    <3>2. n + i \in n+1..Len(seen) /\ seen[n + i].key = c.key
      BY <3>1, <1>3, <1>5
    <3> QED BY <3>2
  <2> QED BY <2>2, <2>3
<1>9. CASE c.key \in Keys(Kept(n))
  <2>1. Duplicate(c, n)
    BY <1>1, <1>3, <1>5, <1>8, <1>9 DEF Duplicate
  <2> QED BY <1>1, <1>2, <2>1
<1>10. CASE c.key \notin Keys(Kept(n))
  <2>1. /\ Cut(n) \in 0..Len(seen)-n+1
        /\ Len(seen) - n + 1 - Cut(n) <= MaxKeys
    BY <1>3, <1>7, CapAssumption DEF Cut, Excess
  <2>2. \A i \in Cut(n)+1..Len(Added(n)) : Added(n)[i] \in Entry
    BY <1>7, <2>1, <1>3
  <2>3. /\ seen' \in Seq(Entry)
        /\ Len(seen') = Len(Added(n)) - Cut(n)
        /\ \A i \in 1..Len(Added(n))-Cut(n) : seen'[i] = Added(n)[Cut(n) + i]
    <3>1. seen' = SubSeq(Added(n), Cut(n) + 1, Len(Added(n)))
      BY <1>1, <1>10
    <3>2. /\ seen' \in Seq(Entry)
          /\ Len(seen') = IF Cut(n) + 1 <= Len(Added(n))
                          THEN Len(Added(n)) - (Cut(n) + 1) + 1 ELSE 0
          /\ \A i \in 1..Len(Added(n))-(Cut(n)+1)+1 :
                seen'[i] = Added(n)[(Cut(n) + 1) + i - 1]
      <4>1. Cut(n) + 1 \in Int /\ Len(Added(n)) \in Int
        BY <2>1, <1>3, <1>7
      <4> HIDE DEF Entry
      <4> QED BY ONLY <4>1, <3>1, <2>2, SubSeqProperties
    <3>3. \A i \in 1..Len(Added(n))-Cut(n) :
             /\ (Cut(n) + 1) + i - 1 = Cut(n) + i
             /\ i \in 1..Len(Added(n))-(Cut(n)+1)+1
      BY <2>1, <1>3, <1>7, SMTT(30)
    <3>4. Len(seen') = Len(Added(n)) - Cut(n)
      BY <3>2, <2>1, <1>3, <1>7
    <3> QED BY <3>2, <3>3, <3>4
  <2>4. \A i \in 1..Len(seen') :
           seen'[i] = IF n + Cut(n) + i <= Len(seen)
                      THEN seen[n + Cut(n) + i] ELSE [key |-> c.key, first |-> c.ts]
    <3> TAKE i \in 1..Len(seen')
    <3>1. Cut(n) + i \in 1..Len(Added(n)) /\ seen'[i] = Added(n)[Cut(n) + i]
      BY <2>1, <2>3, <1>3, <1>7
    <3>2. n + (Cut(n) + i) = n + Cut(n) + i
      BY <2>1, <2>3, <1>3, <1>7
    <3> QED BY <3>1, <3>2, <1>7
  <2>5. {Added(n)[i].key : i \in 1..Cut(n)}
          = {IF n + i <= Len(seen) THEN seen[n + i].key ELSE c.key : i \in 1..Cut(n)}
    <3>1. \A i \in 1..Cut(n) :
             Added(n)[i].key = IF n + i <= Len(seen) THEN seen[n + i].key ELSE c.key
      <4> TAKE i \in 1..Cut(n)
      <4>1. i \in 1..Len(Added(n))
        BY <2>1, <1>3, <1>7
      <4> QED BY <4>1, <1>7
    <3> QED BY <3>1
  <2>6. FirstTime(c, n, Cut(n))
    <3>1. \A i \in n+1..Len(seen) : seen[i].key # c.key
      BY <1>8, <1>10
    <3>2. seen' \in Seq(Entry) /\ Len(seen') = Len(seen) - n + 1 - Cut(n)
      BY <2>3, <2>1, <1>7, <1>3
    <3>3. evicted' = evicted \cup {IF n + i <= Len(seen) THEN seen[n + i].key ELSE c.key :
                                      i \in 1..Cut(n)}
      BY <1>1, <1>10, <2>5
    <3>4. out' = Append(out, c) /\ suppressed' = suppressed
      BY <1>1, <1>10
    <3> QED BY <3>1, <3>2, <3>3, <3>4, <2>1, <2>4 DEF FirstTime
  <2> QED BY <1>1, <1>2, <2>1, <2>6
<1> QED BY <1>9, <1>10

(* Processing a candidate keeps the types.                                  *)
LEMMA ProcessType ==
    ASSUME TypeOK, NEW c \in Candidate, ProcessCandidate(c)
    PROVE  /\ seen' \in Seq(Entry)
           /\ out' \in Seq(Candidate)
           /\ suppressed' \in Seq(Candidate)
           /\ newest' \in Nat
           /\ evicted' \in SUBSET Key
<1>1. PICK n \in 0..Len(seen) :
         /\ newest' = IF c.ts > newest THEN c.ts ELSE newest
         /\ \/ Duplicate(c, n)
            \/ \E cut \in 0..Len(seen)-n+1 : FirstTime(c, n, cut)
  BY ProcessShape
<1>2. c.key \in Key /\ c.ts \in Nat
  BY DEF Candidate
<1>3. newest' \in Nat
  BY <1>1, <1>2 DEF TypeOK
<1>4. CASE Duplicate(c, n)
  <2>1. suppressed' \in Seq(Candidate)
    BY <1>4, AppendProperties DEF Duplicate, TypeOK
  <2> QED BY <1>3, <1>4, <2>1 DEF Duplicate, TypeOK
<1>5. ASSUME NEW cut \in 0..Len(seen)-n+1, FirstTime(c, n, cut)
      PROVE  /\ seen' \in Seq(Entry) /\ out' \in Seq(Candidate)
             /\ suppressed' \in Seq(Candidate) /\ evicted' \in SUBSET Key
  <2>1. out' \in Seq(Candidate)
    BY <1>5, AppendProperties DEF FirstTime, TypeOK
  <2>2. \A i \in 1..cut : (IF n + i <= Len(seen) THEN seen[n + i].key ELSE c.key) \in Key
    <3> TAKE i \in 1..cut
    <3>1. n + i <= Len(seen) => n + i \in 1..Len(seen)
      BY DEF TypeOK
    <3>2. n + i <= Len(seen) => seen[n + i] \in Entry
      BY <3>1 DEF TypeOK
    <3> QED BY <3>2, <1>2 DEF Entry
  <2>3. evicted' \in SUBSET Key
    <3>1. evicted' = evicted \cup {IF n + i <= Len(seen) THEN seen[n + i].key ELSE c.key :
                                      i \in 1..cut}
      BY <1>5 DEF FirstTime
    <3>2. evicted \in SUBSET Key
      BY DEF TypeOK
    <3> QED BY <3>1, <3>2, <2>2
  <2> QED BY <1>5, <2>1, <2>3 DEF FirstTime, TypeOK
<1> QED BY <1>1, <1>3, <1>4, <1>5

(* Processing a candidate that lags by at most MaxLag keeps the store's     *)
(* invariants: first what happens to the store itself.                      *)
LEMMA ProcessStore ==
    ASSUME TypeOK, StoreInv, NEW c \in Candidate, ProcessCandidate(c),
           c.ts >= newest - MaxLag
    PROVE  BoundedDistinct' /\ NearlySorted' /\ BehindNewest' /\ StalenessBound'
<1>1. PICK n \in 0..Len(seen) :
         /\ ExpiredRun(n, c.ts)
         /\ newest' = IF c.ts > newest THEN c.ts ELSE newest
         /\ \/ Duplicate(c, n)
            \/ \E cut \in 0..Len(seen)-n+1 : FirstTime(c, n, cut)
  BY ProcessShape
<1> DEFINE new == [key |-> c.key, first |-> c.ts]
<1>2. /\ seen \in Seq(Entry) /\ Len(seen) \in Nat /\ newest \in Nat /\ n \in Nat
      /\ c.key \in Key /\ c.ts \in Nat /\ MaxLag \in Nat /\ MaxKeys \in Nat
      /\ new.key = c.key /\ new.first = c.ts
  BY BoundAssumption, CapAssumption DEF TypeOK, Candidate
<1>3. PICK off \in Nat :
         /\ off >= n
         /\ \A i \in 1..Len(seen') :
               \/ off + i \in n+1..Len(seen) /\ seen'[i] = seen[off + i]
               \/ /\ i = Len(seen') /\ off + i = Len(seen) + 1
                  /\ seen'[i] = new
                  /\ \A k \in n+1..Len(seen) : seen[k].key # c.key
  <2>1. CASE Duplicate(c, n)
    <3>1. \A i \in 1..Len(seen') : n + i \in n+1..Len(seen) /\ seen'[i] = seen[n + i]
      BY <1>2, <2>1 DEF Duplicate
    <3> QED BY <3>1, <1>2
  <2>2. ASSUME NEW cut \in 0..Len(seen)-n+1, FirstTime(c, n, cut)
        PROVE  \A i \in 1..Len(seen') :
                 \/ (n + cut) + i \in n+1..Len(seen) /\ seen'[i] = seen[(n + cut) + i]
                 \/ /\ i = Len(seen') /\ (n + cut) + i = Len(seen) + 1
                    /\ seen'[i] = new
                    /\ \A k \in n+1..Len(seen) : seen[k].key # c.key
    <3> TAKE i \in 1..Len(seen')
    <3>1. Len(seen') = Len(seen) - n + 1 - cut
      BY <2>2 DEF FirstTime
    <3>2. CASE n + cut + i <= Len(seen)
      BY <3>1, <3>2, <1>2, <2>2, SMTT(30) DEF FirstTime
    <3>3. CASE ~(n + cut + i <= Len(seen))
      <4>1. i = Len(seen') /\ (n + cut) + i = Len(seen) + 1
        BY <3>1, <3>3, <1>2
      <4> QED BY <4>1, <3>3, <2>2 DEF FirstTime
    <3> QED BY <3>2, <3>3
  <2>3. ASSUME NEW cut \in 0..Len(seen)-n+1, FirstTime(c, n, cut)
        PROVE  n + cut \in Nat /\ n + cut >= n
    BY <1>2
  <2> QED BY <1>1, <2>1, <2>2, <2>3
<1>4. seen' \in Seq(Entry) /\ DOMAIN seen' = 1..Len(seen') /\ Len(seen') \in Nat
      /\ DOMAIN seen = 1..Len(seen)
  BY <1>2, ProcessType
<1>5. newest' \in Nat /\ newest' >= newest /\ newest' >= c.ts
      /\ (newest' = newest \/ newest' = c.ts)
  BY <1>1, <1>2
<1>6. \A i \in 1..Len(seen) : seen[i].first \in Nat /\ seen[i].key \in Key
  <2>1. \A i \in 1..Len(seen) : seen[i] \in Entry
    BY <1>2
  <2> QED BY <2>1 DEF Entry
<1>7. BoundedDistinct'
  <2>1. Len(seen') <= MaxKeys
    <3>1. CASE Duplicate(c, n)
      <4>1. Len(seen') = Len(seen) - n /\ Len(seen) <= MaxKeys
        BY <3>1 DEF Duplicate, StoreInv, BoundedDistinct
      <4> QED BY <4>1, <1>2
    <3>2. ASSUME NEW cut \in 0..Len(seen)-n+1, FirstTime(c, n, cut)
          PROVE  Len(seen') <= MaxKeys
      BY <3>2 DEF FirstTime
    <3> QED BY <3>1, <3>2, <1>1
  <2>2. ASSUME NEW i \in DOMAIN seen', NEW j \in DOMAIN seen', seen'[i].key = seen'[j].key
        PROVE  i = j
    <3>1. CASE off + i \in n+1..Len(seen) /\ seen'[i] = seen[off + i]
               /\ off + j \in n+1..Len(seen) /\ seen'[j] = seen[off + j]
      <4>1. off + i = off + j
        BY <3>1, <2>2, <1>2, <1>4 DEF StoreInv, BoundedDistinct
      <4>2. i \in Nat /\ j \in Nat /\ off \in Nat
        BY <1>4
      <4> QED BY <4>1, <4>2
    <3>2. CASE i = Len(seen') /\ j = Len(seen')
      BY <3>2
    <3> QED BY <3>1, <3>2, <2>2, <1>2, <1>3, <1>4
  <2> QED BY <2>1, <2>2 DEF BoundedDistinct
<1>8. NearlySorted'
  <2> SUFFICES ASSUME NEW i \in DOMAIN seen', NEW j \in DOMAIN seen', i < j
               PROVE  seen'[j].first >= seen'[i].first - MaxLag
    BY DEF NearlySorted
  <2>1. off + i \in n+1..Len(seen) /\ seen'[i] = seen[off + i]
    <3>1. i \in 1..Len(seen') /\ j \in 1..Len(seen') /\ i # Len(seen')
      BY <1>4
    <3> QED BY <3>1, <1>3
  <2>2. CASE off + j \in n+1..Len(seen) /\ seen'[j] = seen[off + j]
    <3>1. off + i < off + j /\ off + i \in 1..Len(seen) /\ off + j \in 1..Len(seen)
      BY <2>1, <2>2, <1>2, <1>4
    <3> QED BY <3>1, <2>1, <2>2, <1>4 DEF StoreInv, NearlySorted
  <2>3. CASE seen'[j] = new
    <3>1. off + i \in 1..Len(seen) /\ seen[off + i].first <= newest
      BY <2>1, <1>2, <1>4 DEF StoreInv, BehindNewest
    <3> QED BY <3>1, <2>1, <2>3, <1>2, <1>6
  <2> QED BY <2>2, <2>3, <1>3, <1>4
<1>9. BehindNewest'
  <2> SUFFICES ASSUME NEW i \in DOMAIN seen' PROVE seen'[i].first <= newest'
    BY DEF BehindNewest
  <2>1. CASE off + i \in n+1..Len(seen) /\ seen'[i] = seen[off + i]
    <3>1. off + i \in 1..Len(seen) /\ seen[off + i].first <= newest
      BY <2>1, <1>2, <1>4 DEF StoreInv, BehindNewest
    <3> QED BY <3>1, <2>1, <1>2, <1>5, <1>6
  <2>2. CASE seen'[i] = new
    BY <2>2, <1>2, <1>5
  <2> QED BY <2>1, <2>2, <1>3, <1>4
<1>10. StalenessBound'
  <2> SUFFICES ASSUME DedupWindow # None, NEW i \in DOMAIN seen'
               PROVE  seen'[i].first >= newest' - DedupWindow - MaxLag
    BY DEF StalenessBound
  <2>1. DedupWindow \in Nat
    BY DedupAssumption
  <2>2. CASE off + i \in n+1..Len(seen) /\ seen'[i] = seen[off + i]
    <3>1. off + i \in 1..Len(seen) /\ seen[off + i].first \in Nat
      BY <2>2, <1>2, <1>6
    <3>2. seen[off + i].first >= newest - DedupWindow - MaxLag
      BY <3>1, <1>4 DEF StoreInv, StalenessBound
    <3>3. n + 1 \in 1..Len(seen) /\ n < Len(seen) /\ n + 1 <= off + i
      BY <2>2, <1>2
    <3>4. seen[n + 1].first >= c.ts - DedupWindow
      <4>1. ~Expired(seen[n + 1].first, c.ts)
        BY <1>1, <3>3 DEF ExpiredRun
      <4> QED BY <4>1, <2>1, <3>3, <1>2, <1>6 DEF Expired
    <3>5. seen[off + i].first >= seen[n + 1].first - MaxLag
      <4>3. seen[n + 1].first \in Nat /\ off + i \in Nat /\ n + 1 \in Nat
        BY <3>1, <3>3, <1>2, <1>6
      <4>1. CASE n + 1 = off + i
        BY <4>1, <3>1, <1>2
      <4>2. CASE n + 1 < off + i
        BY <4>2, <3>1, <3>3, <1>4 DEF StoreInv, NearlySorted
      <4> QED BY <4>1, <4>2, <4>3, <3>3
    <3>6. seen[n + 1].first \in Nat
      BY <3>3, <1>6
    <3>7. seen[off + i].first >= newest' - DedupWindow - MaxLag
      <4>1. CASE newest' = newest
        BY <4>1, <3>2
      <4>2. CASE newest' = c.ts
        <5>1. c.ts \in Nat /\ MaxLag \in Nat /\ seen[off + i].first \in Nat
          BY <1>2, <3>1
        <5>2. seen[off + i].first >= c.ts - DedupWindow - MaxLag
          BY ONLY <5>1, <2>1, <3>4, <3>5, <3>6, LagChain
        <5> QED BY <5>2, <4>2
      <4> QED BY <4>1, <4>2, <1>5
    <3> QED BY <2>2, <3>7
  <2>3. CASE seen'[i] = new
    BY <2>1, <2>3, <1>2, <1>5
  <2> QED BY <2>2, <2>3, <1>3, <1>4
<1> QED BY <1>7, <1>8, <1>9, <1>10

(* ... then what happens to the alerts returned and suppressed.             *)
LEMMA ProcessLog ==
    ASSUME TypeOK, StoreInv, NEW c \in Candidate, ProcessCandidate(c),
           c.ts >= newest - MaxLag, c.key.window = FloorWindow(c.ts)
    PROVE  /\ RememberedWasFired' /\ FiredIsAccounted' /\ Keyed(out)'
           /\ NoDoubleFire' /\ SuppressedHasWitness'
<1>1. PICK n \in 0..Len(seen) :
         /\ ExpiredRun(n, c.ts)
         /\ newest' = IF c.ts > newest THEN c.ts ELSE newest
         /\ \/ Duplicate(c, n)
            \/ \E cut \in 0..Len(seen)-n+1 : FirstTime(c, n, cut)
  BY ProcessShape
<1>2. /\ seen \in Seq(Entry) /\ Len(seen) \in Nat /\ DOMAIN seen = 1..Len(seen)
      /\ out \in Seq(Candidate) /\ Len(out) \in Nat /\ DOMAIN out = 1..Len(out)
      /\ suppressed \in Seq(Candidate) /\ Len(suppressed) \in Nat
      /\ DOMAIN suppressed = 1..Len(suppressed)
  BY DEF TypeOK
<1>3. newest \in Nat /\ n \in Nat /\ n <= Len(seen) /\ c.ts \in Nat /\ MaxLag \in Nat
  BY <1>2, BoundAssumption DEF TypeOK, Candidate
<1>4. newest' \in Nat /\ newest' >= newest /\ newest' >= c.ts
  BY <1>1, <1>3
<1>5. seen' \in Seq(Entry) /\ Len(seen') \in Nat /\ DOMAIN seen' = 1..Len(seen')
  BY ProcessType
<1>6. \A j \in 1..Len(out) : out[j].key \in Key /\ out[j].ts \in Nat
  <2>1. \A j \in 1..Len(out) : out[j] \in Candidate
    BY <1>2
  <2> QED BY <2>1 DEF Candidate
<1>7. \A i \in 1..Len(seen) : seen[i].first \in Nat
  <2>1. \A i \in 1..Len(seen) : seen[i] \in Entry
    BY <1>2
  <2> QED BY <2>1 DEF Entry
<1>8. ASSUME NEW j \in 1..Len(out), NEW i \in 1..n,
             seen[i].key = out[j].key, seen[i].first = out[j].ts
      PROVE  /\ DedupWindow # None /\ c.ts > out[j].ts + DedupWindow
             /\ newest' > out[j].ts + DedupWindow
  <2>1. Expired(seen[i].first, c.ts)
    BY <1>1 DEF ExpiredRun
  <2>2. DedupWindow \in Nat /\ DedupWindow # None
    BY <2>1, DedupAssumption DEF Expired
  <2>3. out[j].ts \in Nat
    BY <1>6
  <2>4. c.ts > out[j].ts + DedupWindow
    BY <2>1, <2>2, <2>3, <1>3, <1>8 DEF Expired
  <2>5. newest' > out[j].ts + DedupWindow
    BY ONLY <2>2, <2>3, <2>4, <1>3, <1>4, StillLater
  <2> QED BY <2>2, <2>4, <2>5
<1>8a. ASSUME NEW j \in 1..Len(out), LongExpired(out[j])
       PROVE  DedupWindow # None /\ newest' > out[j].ts + DedupWindow
  <2>1. DedupWindow # None /\ DedupWindow \in Nat /\ newest > out[j].ts + DedupWindow
    BY <1>8a, DedupAssumption DEF LongExpired
  <2>2. out[j].ts \in Nat
    BY <1>6
  <2>3. newest' > out[j].ts + DedupWindow
    BY ONLY <2>1, <2>2, <1>3, <1>4, StillLater
  <2> QED BY <2>1, <2>3
<1>9. ASSUME NEW j \in 1..Len(out), out[j].key.window = FloorWindow(out[j].ts),
             out[j].key = c.key
      PROVE  c.ts - out[j].ts < Window /\ out[j].ts - c.ts < Window
  BY <1>3, <1>6, <1>9, SameWindow
<1>10. CASE Duplicate(c, n)
  <2>1. out' = out /\ evicted' = evicted /\ suppressed' = Append(suppressed, c)
    BY <1>10 DEF Duplicate
  <2>2. Len(seen') = Len(seen) - n /\ \A i \in 1..Len(seen') : seen'[i] = seen[n + i]
    BY <1>10 DEF Duplicate
  <2>3. RememberedWasFired'
    <3>1. \A i \in 1..Len(seen') : n + i \in 1..Len(seen)
      BY <1>2, <1>3, <2>2
    <3> SUFFICES ASSUME NEW i \in 1..Len(seen')
                 PROVE  \E j \in DOMAIN out : /\ out[j].key = seen'[i].key
                                              /\ out[j].ts = seen'[i].first
      BY <2>1, <1>5 DEF RememberedWasFired
    <3>2. n + i \in DOMAIN seen /\ seen'[i] = seen[n + i]
      BY <3>1, <2>2, <1>2
    <3> QED BY <3>2 DEF StoreInv, RememberedWasFired
  <2>4. FiredIsAccounted'
    <3> SUFFICES ASSUME NEW j \in 1..Len(out), out[j].key \notin evicted
                 PROVE  StillRemembered(out[j])' \/ LongExpired(out[j])'
      BY <2>1, <1>2 DEF FiredIsAccounted
    <3>1. CASE LongExpired(out[j])
      BY <3>1, <1>8a, <2>1 DEF LongExpired
    <3>2. ASSUME NEW i \in 1..Len(seen), seen[i].key = out[j].key, seen[i].first = out[j].ts
          PROVE  StillRemembered(out[j])' \/ LongExpired(out[j])'
      <4>1. CASE i <= n
        <5>1. DedupWindow # None /\ newest' > out[j].ts + DedupWindow
          BY <1>8, <3>2, <4>1, <1>3
        <5> QED BY <5>1, <2>1 DEF LongExpired
      <4>2. CASE i > n
        <5>1. i - n \in 1..Len(seen') /\ n + (i - n) = i
          BY <4>2, <2>2, <1>2, <1>3
        <5>2. seen'[i - n] = seen[i]
          BY <5>1, <2>2
        <5> QED BY <5>1, <5>2, <3>2, <2>1, <1>5 DEF StillRemembered
      <4> QED BY <4>1, <4>2, <1>2, <1>3
    <3> QED BY <3>1, <3>2, <1>2 DEF StoreInv, FiredIsAccounted, StillRemembered
  <2>5. Keyed(out)' /\ NoDoubleFire'
    BY <2>1 DEF StoreInv, Keyed, NoDoubleFire
  <2>6. SuppressedHasWitness'
    <3>1. PICK k \in n+1..Len(seen) : seen[k].key = c.key
      BY <1>10 DEF Duplicate
    <3>2. PICK j \in 1..Len(out) : out[j].key = c.key
      <4>1. k \in 1..Len(seen)
        BY <1>2, <1>3
      <4> QED BY <3>1, <4>1, <1>2 DEF StoreInv, RememberedWasFired
    <3>3. out[j].key.window = FloorWindow(out[j].ts)
      BY <1>2 DEF StoreInv, Keyed
    <3>4. c.ts - out[j].ts < Window /\ out[j].ts - c.ts < Window
      BY <1>9, <3>2, <3>3
    <3>5. /\ Len(suppressed') = Len(suppressed) + 1
          /\ \A i \in 1..Len(suppressed) : suppressed'[i] = suppressed[i]
          /\ suppressed'[Len(suppressed) + 1] = c
          /\ DOMAIN suppressed' = 1..Len(suppressed) + 1
      BY <2>1, <1>2, AppendProperties
    <3> SUFFICES ASSUME NEW i \in 1..Len(suppressed) + 1
                 PROVE  \E m \in DOMAIN out : /\ out[m].key = suppressed'[i].key
                                              /\ out[m].ts - suppressed'[i].ts < Window
                                              /\ suppressed'[i].ts - out[m].ts < Window
      BY <2>1, <3>5 DEF SuppressedHasWitness
    <3>6. CASE i = Len(suppressed) + 1
      BY <3>2, <3>4, <3>5, <3>6, <1>2
    <3>7. CASE i \in 1..Len(suppressed)
      <4>1. SuppressedHasWitness /\ suppressed'[i] = suppressed[i] /\ i \in DOMAIN suppressed
        BY <3>5, <3>7, <1>2 DEF StoreInv
      <4> QED BY <4>1, Zenon DEF SuppressedHasWitness
    <3> QED BY <3>6, <3>7, <1>2
  <2> QED BY <2>3, <2>4, <2>5, <2>6
<1>11. ASSUME NEW cut \in 0..Len(seen)-n+1, FirstTime(c, n, cut)
       PROVE  /\ RememberedWasFired' /\ FiredIsAccounted' /\ Keyed(out)'
              /\ NoDoubleFire' /\ SuppressedHasWitness'
  <2>1. out' = Append(out, c) /\ suppressed' = suppressed
    BY <1>11 DEF FirstTime
  <2>2. /\ Len(out') = Len(out) + 1 /\ DOMAIN out' = 1..Len(out) + 1
        /\ \A j \in 1..Len(out) : out'[j] = out[j]
        /\ out'[Len(out) + 1] = c
    BY <2>1, <1>2, AppendProperties
  <2>3. evicted \subseteq evicted'
    BY <1>11 DEF FirstTime
  <2>4. \A i \in 1..cut : (IF n + i <= Len(seen) THEN seen[n + i].key ELSE c.key) \in evicted'
    BY <1>11 DEF FirstTime
  <2>5. /\ Len(seen') = Len(seen) - n + 1 - cut
        /\ \A i \in 1..Len(seen') :
              seen'[i] = IF n + cut + i <= Len(seen)
                         THEN seen[n + cut + i] ELSE [key |-> c.key, first |-> c.ts]
    BY <1>11 DEF FirstTime
  <2>6. \A k \in n+1..Len(seen) : seen[k].key # c.key
    BY <1>11 DEF FirstTime
  <2>7. RememberedWasFired'
    <3> SUFFICES ASSUME NEW i \in 1..Len(seen')
                 PROVE  \E j \in 1..Len(out) + 1 : /\ out'[j].key = seen'[i].key
                                                   /\ out'[j].ts = seen'[i].first
      BY <1>5, <2>2 DEF RememberedWasFired
    <3>1. CASE n + cut + i <= Len(seen)
      <4>1. n + cut + i \in 1..Len(seen) /\ seen'[i] = seen[n + cut + i]
        BY <3>1, <2>5, <1>2, <1>3
      <4>2. PICK j \in 1..Len(out) : out[j].key = seen'[i].key /\ out[j].ts = seen'[i].first
        BY <4>1, <1>2 DEF StoreInv, RememberedWasFired
      <4>3. j \in 1..Len(out) + 1 /\ out'[j] = out[j]
        BY <2>2, <1>2
      <4> QED BY <4>2, <4>3
    <3>2. CASE ~(n + cut + i <= Len(seen))
      <4>1. Len(out) + 1 \in 1..Len(out) + 1
        BY <1>2
      <4>2. seen'[i].key = c.key /\ seen'[i].first = c.ts
        BY <3>2, <2>5
      <4> QED BY <4>1, <4>2, <2>2
    <3> QED BY <3>1, <3>2
  <2>8. FiredIsAccounted'
    <3>1. ASSUME c.key \notin evicted'
          PROVE  StillRemembered(c)'
      <4>1. cut # Len(seen) - n + 1
        <5> SUFFICES ASSUME cut = Len(seen) - n + 1 PROVE FALSE
          OBVIOUS
        <5>1. cut \in 1..cut /\ ~(n + cut <= Len(seen))
          BY <1>2, <1>3
        <5> QED BY <5>1, <2>4, <3>1
      <4>2. Len(seen') \in 1..Len(seen') /\ ~(n + cut + Len(seen') <= Len(seen))
        BY <4>1, <2>5, <1>2, <1>3
      <4>3. seen'[Len(seen')] = [key |-> c.key, first |-> c.ts]
        BY <4>2, <2>5
      <4> QED BY <4>2, <4>3, <1>5 DEF StillRemembered
    <3>2. ASSUME NEW j \in 1..Len(out), out[j].key \notin evicted'
          PROVE  StillRemembered(out[j])' \/ LongExpired(out[j])'
      <4>0. out'[j] = out[j] /\ out[j].key \notin evicted
        BY <2>2, <2>3, <3>2
      <4>1. CASE LongExpired(out[j])
        BY <4>1, <1>8a, <2>2 DEF LongExpired
      <4>2. ASSUME NEW i \in 1..Len(seen), seen[i].key = out[j].key, seen[i].first = out[j].ts
            PROVE  StillRemembered(out[j])' \/ LongExpired(out[j])'
        <5>1. CASE i <= n
          <6>1. DedupWindow # None /\ newest' > out[j].ts + DedupWindow
            BY <1>8, <4>2, <5>1, <1>3
          <6> QED BY <6>1, <4>0 DEF LongExpired
        <5>2. CASE i > n /\ i <= n + cut
          <6>1. i - n \in 1..cut /\ n + (i - n) = i /\ i <= Len(seen)
            BY <5>2, <1>2, <1>3
          <6>2. seen[i].key \in evicted'
            BY <6>1, <2>4
          <6> QED BY <6>2, <4>2, <3>2
        <5>3. CASE i > n + cut
          <6>1. /\ i - n - cut \in 1..Len(seen') /\ n + cut + (i - n - cut) = i
                /\ i <= Len(seen)
            BY <5>3, <2>5, <1>2, <1>3, SMTT(30)
          <6>2. seen'[i - n - cut] = seen[i]
            BY <6>1, <2>5
          <6> QED BY <6>1, <6>2, <4>0, <4>2, <1>5 DEF StillRemembered
        <5> QED BY <5>1, <5>2, <5>3, <1>2, <1>3
      <4> QED BY <4>0, <4>1, <4>2, <1>2 DEF StoreInv, FiredIsAccounted, StillRemembered
    <3>3. ASSUME NEW j \in 1..Len(out) + 1
          PROVE  \/ out'[j].key \in evicted'
                 \/ \E i \in 1..Len(seen') : /\ seen'[i].key = out'[j].key
                                             /\ seen'[i].first = out'[j].ts
                 \/ DedupWindow # None /\ newest' > out'[j].ts + DedupWindow
      <4>1. CASE j = Len(out) + 1
        BY <4>1, <3>1, <2>2, <1>5 DEF StillRemembered
      <4>2. CASE j \in 1..Len(out)
        BY <4>2, <3>2, <2>2, <1>5 DEF StillRemembered, LongExpired
      <4> QED BY <4>1, <4>2, <1>2
    <3> QED BY <3>3, <2>2, <1>5 DEF FiredIsAccounted, StillRemembered, LongExpired
  <2>9. Keyed(out)'
    <3> SUFFICES ASSUME NEW j \in 1..Len(out) + 1
                 PROVE  out'[j].key.window = FloorWindow(out'[j].ts)
      BY <2>2 DEF Keyed, FloorWindow
    <3>1. CASE j = Len(out) + 1
      BY <3>1, <2>2
    <3>2. CASE j \in 1..Len(out)
      BY <3>2, <2>2, <1>2 DEF StoreInv, Keyed
    <3> QED BY <3>1, <3>2, <1>2
  <2>10. NoDoubleFire'
    <3>1. ASSUME LagWithinHorizon, NEW j \in 1..Len(out), out[j].key = c.key,
                 out[j].key \notin evicted
          PROVE  FALSE
      <4>1. c.ts - out[j].ts < Window
        <5>1. out[j].key.window = FloorWindow(out[j].ts)
          BY <1>2 DEF StoreInv, Keyed
        <5> QED BY <5>1, <1>9, <3>1
      <4>2. CASE LongExpired(out[j])
        <5>1. /\ DedupWindow \in Nat /\ newest > out[j].ts + DedupWindow
              /\ MaxLag + Window <= DedupWindow + 1
          BY <4>2, <3>1, DedupAssumption DEF LongExpired, LagWithinHorizon
        <5>2. out[j].ts \in Nat /\ c.ts >= newest - MaxLag /\ Window \in Nat
          BY <1>6, WindowAssumption
        <5> QED BY ONLY <5>1, <5>2, <4>1, <1>3, LateDuplicate
      <4>3. ASSUME NEW i \in 1..Len(seen), seen[i].key = out[j].key, seen[i].first = out[j].ts
            PROVE  FALSE
        <5>1. i <= n
          BY <4>3, <3>1, <2>6, <1>2, <1>3
        <5>2. DedupWindow # None /\ c.ts > out[j].ts + DedupWindow
          BY <1>8, <4>3, <5>1, <1>3
        <5>3. DedupWindow \in Nat /\ MaxLag + Window <= DedupWindow + 1
          BY <5>2, <3>1, DedupAssumption DEF LagWithinHorizon
        <5> QED BY <5>2, <5>3, <4>1, <1>3, <1>6, WindowAssumption
      <4> QED BY <4>2, <4>3, <3>1, <1>2 DEF StoreInv, FiredIsAccounted, StillRemembered
    <3> SUFFICES ASSUME LagWithinHorizon,
                        NEW i \in 1..Len(out) + 1, NEW j \in 1..Len(out) + 1,
                        out'[i].key = out'[j].key, i # j, out'[i].key \notin evicted'
                 PROVE  FALSE
      BY <2>2 DEF NoDoubleFire, LagWithinHorizon
    <3>2. out'[i].key \notin evicted
      BY <2>3
    <3>3. CASE i \in 1..Len(out) /\ j \in 1..Len(out)
      BY <3>2, <3>3, <2>2, <1>2 DEF StoreInv, NoDoubleFire
    <3>4. CASE i = Len(out) + 1 /\ j \in 1..Len(out)
      BY <3>1, <3>2, <3>4, <2>2
    <3>5. CASE j = Len(out) + 1 /\ i \in 1..Len(out)
      BY <3>1, <3>2, <3>5, <2>2
    <3> QED BY <3>3, <3>4, <3>5, <1>2
  <2>11. SuppressedHasWitness'
    <3> SUFFICES ASSUME NEW i \in DOMAIN suppressed
                 PROVE  \E m \in DOMAIN out' : /\ out'[m].key = suppressed[i].key
                                               /\ out'[m].ts - suppressed[i].ts < Window
                                               /\ suppressed[i].ts - out'[m].ts < Window
      BY <2>1 DEF SuppressedHasWitness
    <3>1. PICK m \in 1..Len(out) : /\ out[m].key = suppressed[i].key
                                   /\ out[m].ts - suppressed[i].ts < Window
                                   /\ suppressed[i].ts - out[m].ts < Window
      BY <1>2 DEF StoreInv, SuppressedHasWitness
    <3>2. m \in DOMAIN out' /\ out'[m] = out[m]
      BY <2>2, <1>2
    <3> QED BY <3>1, <3>2
  <2> QED BY <2>7, <2>8, <2>9, <2>10, <2>11
<1> QED BY <1>1, <1>10, <1>11

(* Both parts together, for a candidate the environment allows.             *)
LEMMA ProcessInv ==
    ASSUME TypeOK, StoreInv, NEW c \in Candidate, ProcessCandidate(c),
           c.ts >= newest - MaxLag, c.key.window = FloorWindow(c.ts)
    PROVE  StoreInv'
  BY ProcessStore, ProcessLog DEF StoreInv
-------------------------------------------------------------------------------
LEMMA IdentityType ==
    ASSUME NEW e \in Entities, NEW d \in Detectors, NEW t \in Time
    PROVE  /\ [key |-> MakeAlertKey(e, d, t), ts |-> t] \in Candidate
           /\ MakeAlertKey(e, d, t).window = FloorWindow(t)
<1>1. t \in Nat
  BY BoundAssumption DEF Time
<1> QED BY <1>1, FloorWindowType DEF Candidate, MakeAlertKey, Key

LEMMA InitInv == Init => IInv
<1> SUFFICES ASSUME Init PROVE IInv
  OBVIOUS
<1>1. TypeOK
  BY DEF Init, TypeOK
<1>2. StoreInv
  BY CapAssumption DEF Init, StoreInv, BoundedDistinct, NearlySorted, BehindNewest,
     StalenessBound, RememberedWasFired, FiredIsAccounted, Keyed, NoDoubleFire,
     SuppressedHasWitness
<1>3. Keyed(pending) /\ WithinLag(pending)
  BY DEF Init, Keyed, WithinLag
<1> QED BY <1>1, <1>2, <1>3 DEF IInv

LEMMA EmitInv ==
    ASSUME IInv, NEW e \in Entities, NEW d \in Detectors, NEW t \in Time, Emit(e, d, t)
    PROVE  IInv'
<1> DEFINE c == [key |-> MakeAlertKey(e, d, t), ts |-> t]
<1>1. c \in Candidate /\ c.key.window = FloorWindow(c.ts)
  BY IdentityType
<1>2. ProcessCandidate(c) /\ WithinLag(<<c>>) /\ pending' = pending /\ pending = <<>>
  BY DEF Emit, Idle
<1>3. c.ts >= newest - MaxLag
  BY <1>2 DEF WithinLag
<1> HIDE DEF c
<1>4. StoreInv'
  BY <1>1, <1>2, <1>3, ProcessInv DEF IInv
<1>5. TypeOK'
  BY <1>1, <1>2, ProcessType DEF IInv, TypeOK
<1>6. Keyed(pending)' /\ WithinLag(pending)'
  BY <1>2 DEF Keyed, WithinLag
<1> QED BY <1>4, <1>5, <1>6 DEF IInv

(* Starting a loop only fills pending.                                      *)
LEMMA StartInv ==
    ASSUME IInv, NEW batch \in Seq(Candidate), Keyed(batch), WithinLag(batch),
           pending' = batch, UNCHANGED <<seen, out, suppressed, newest, evicted>>
    PROVE  IInv'
<1>1. TypeOK'
  BY DEF IInv, TypeOK
<1>2. StoreInv'
  BY DEF IInv, StoreInv, BoundedDistinct, NearlySorted, BehindNewest, StalenessBound,
     RememberedWasFired, FiredIsAccounted, StillRemembered, LongExpired, Keyed,
     NoDoubleFire, SuppressedHasWitness
<1>3. Keyed(pending)' /\ WithinLag(pending)'
  BY DEF Keyed, WithinLag
<1> QED BY <1>1, <1>2, <1>3 DEF IInv

LEMMA LoopTurnInv ==
    ASSUME IInv, LoopTurn
    PROVE  IInv'
<1> DEFINE c == Head(pending)
<1>1. /\ pending \in Seq(Candidate) /\ pending # <<>> /\ ProcessCandidate(c)
      /\ pending' = Tail(pending)
  BY DEF LoopTurn, Idle, IInv, TypeOK
<1>2. /\ c \in Candidate /\ c = pending[1] /\ 1 \in DOMAIN pending
      /\ pending' \in Seq(Candidate) /\ DOMAIN pending' = 1..Len(pending) - 1
      /\ DOMAIN pending = 1..Len(pending) /\ Len(pending) \in Nat
      /\ \A i \in 1..Len(pending) - 1 : pending'[i] = pending[i + 1]
  BY <1>1, HeadTailProperties
<1>3. c.ts >= newest - MaxLag /\ c.key.window = FloorWindow(c.ts)
  BY <1>2 DEF IInv, WithinLag, Keyed
<1> HIDE DEF c
<1>4. StoreInv'
  BY <1>1, <1>2, <1>3, ProcessInv DEF IInv
<1>5. TypeOK'
  BY <1>1, <1>2, ProcessType DEF IInv, TypeOK
<1>6. Keyed(pending)'
  <2> SUFFICES ASSUME NEW i \in 1..Len(pending) - 1
               PROVE  pending'[i].key.window = FloorWindow(pending'[i].ts)
    BY <1>2 DEF Keyed, FloorWindow
  <2>1. i + 1 \in DOMAIN pending /\ pending'[i] = pending[i + 1]
    BY <1>2
  <2> QED BY <2>1 DEF IInv, Keyed
<1>7. WithinLag(pending)'
  <2>1. ASSUME NEW i \in 1..Len(pending) - 1
        PROVE  pending'[i].ts >= newest' - MaxLag
    <3>1. i + 1 \in DOMAIN pending /\ pending'[i] = pending[i + 1] /\ 1 < i + 1
      BY <1>2
    <3>2. pending[i + 1].ts >= newest - MaxLag /\ pending[i + 1].ts >= c.ts - MaxLag
      BY <3>1, <1>2 DEF IInv, WithinLag
    <3>3. newest' = newest \/ newest' = c.ts
      BY <1>1 DEF ProcessCandidate
    <3> QED BY <3>1, <3>2, <3>3
  <2>2. ASSUME NEW i \in 1..Len(pending) - 1, NEW j \in 1..Len(pending) - 1, i < j
        PROVE  pending'[j].ts >= pending'[i].ts - MaxLag
    <3>1. /\ i + 1 \in DOMAIN pending /\ j + 1 \in DOMAIN pending /\ i + 1 < j + 1
          /\ pending'[i] = pending[i + 1] /\ pending'[j] = pending[j + 1]
      BY <1>2, <2>2
    <3> QED BY <3>1 DEF IInv, WithinLag
  <2> QED BY <2>1, <2>2, <1>2 DEF WithinLag
<1> QED BY <1>4, <1>5, <1>6, <1>7 DEF IInv

LEMMA NextInv == IInv /\ [Next]_vars => IInv'
<1> SUFFICES ASSUME IInv, [Next]_vars PROVE IInv'
  OBVIOUS
<1>1. ASSUME NEW e \in Entities, NEW d \in Detectors, NEW t \in Time, Emit(e, d, t)
      PROVE  IInv'
  BY <1>1, EmitInv
<1>2. ASSUME NEW n \in 1..MaxBatch, NEW e \in Entities, NEW t \in Time,
             NEW triggers \in [1..n -> Trigger], EmitFromFeatureVector(e, t, triggers)
      PROVE  IInv'
  <2> DEFINE batch == [i \in 1..Len(triggers) |->
                         [key |-> MakeAlertKey(e, triggers[i].detector, t), ts |-> t]]
  <2>1. n \in Nat /\ Len(triggers) = n
    BY BoundAssumption
  <2>2. \A i \in 1..n : triggers[i].detector \in Detectors
    <3>1. \A i \in 1..n : triggers[i] \in Trigger
      OBVIOUS
    <3> QED BY <3>1 DEF Trigger
  <2>3. \A i \in 1..n : batch[i] \in Candidate /\ batch[i].key.window = FloorWindow(batch[i].ts)
    BY <2>1, <2>2, IdentityType
  <2>4. batch \in Seq(Candidate) /\ Keyed(batch)
    BY <2>1, <2>3 DEF Keyed
  <2>5. WithinLag(batch) /\ pending' = batch /\ UNCHANGED <<seen, out, suppressed, newest, evicted>>
    BY <1>2 DEF EmitFromFeatureVector
  <2> HIDE DEF batch
  <2> QED BY <2>4, <2>5, StartInv
<1>3. ASSUME NEW n \in 1..MaxBatch, NEW alerts \in [1..n -> Candidates], Dedupe(alerts)
      PROVE  IInv'
  <2>1. n \in Nat
    BY BoundAssumption
  <2>2. \A i \in 1..n : alerts[i] \in Candidates
    OBVIOUS
  <2>3. \A a \in Candidates : a \in Candidate /\ a.key.window = FloorWindow(a.ts)
    BY IdentityType DEF Candidates
  <2>4. alerts \in Seq(Candidate) /\ Keyed(alerts)
    BY <2>1, <2>2, <2>3 DEF Keyed
  <2> QED BY <1>3, <2>4, StartInv DEF Dedupe
<1>4. CASE LoopTurn
  BY <1>4, LoopTurnInv
<1>5. CASE UNCHANGED vars
  BY <1>5 DEF vars, IInv, TypeOK, StoreInv, BoundedDistinct, NearlySorted, BehindNewest,
     StalenessBound, RememberedWasFired, FiredIsAccounted, StillRemembered, LongExpired,
     Keyed, WithinLag, NoDoubleFire, SuppressedHasWitness
<1> QED BY <1>1, <1>2, <1>3, <1>4, <1>5 DEF Next

(* The inductive invariant holds of every behaviour of the emitter.         *)
THEOREM Inductive == Spec => []IInv
  BY InitInv, NextInv, PTL DEF Spec

(* Type correctness of the emitter's store, logs and loop.                  *)
THEOREM TypeCorrect == Spec => []TypeOK
<1>1. IInv => TypeOK
  BY DEF IInv
<1> QED BY <1>1, Inductive, PTL

(* _seen is a dictionary of at most max_keys keys.                          *)
THEOREM StoreIsBounded == Spec => []BoundedDistinct
<1>1. IInv => BoundedDistinct
  BY DEF IInv, StoreInv
<1> QED BY <1>1, Inductive, PTL

(* For every window, dedup window, cap and lag: when no delivery lags more  *)
(* than DedupWindow - Window + 1, only a key the cap pushed out may fire    *)
(* twice.                                                                   *)
THEOREM AtMostOnce == Spec => []NoDoubleFire
<1>1. IInv => NoDoubleFire
  BY DEF IInv, StoreInv
<1> QED BY <1>1, Inductive, PTL

(* Nothing is suppressed unless its key fired within the same window.       *)
THEOREM NoFirstOccurrenceLost == Spec => []SuppressedHasWitness
<1>1. IInv => SuppressedHasWitness
  BY DEF IInv, StoreInv
<1> QED BY <1>1, Inductive, PTL

(* An expired key hidden behind a fresh one is forgotten at most MaxLag     *)
(* late.                                                                    *)
THEOREM StaleKeysAreBounded == Spec => []StalenessBound
<1>1. IInv => StalenessBound
  BY DEF IInv, StoreInv
<1> QED BY <1>1, Inductive, PTL
-------------------------------------------------------------------------------
(* AlertEmitter implements AlertOnce, for every window, dedup window, cap,  *)
(* lag and set of identities. The steps that process a candidate map to     *)
(* Return or Drop, the others to stuttering. Besides IInv it takes that     *)
(* every queued candidate is one that can be delivered.                     *)
PendingKnown == \A i \in DOMAIN pending : pending[i] \in Candidates

(* The key of a first-time candidate was never fired before, or the cap had *)
(* forgotten it: an expired one is too old for the candidate to be of its   *)
(* window.                                                                  *)
LEMMA FirstTimeIsNew ==
    ASSUME TypeOK, StoreInv, NEW c \in Candidate, LagWithinHorizon,
           c.ts >= newest - MaxLag, c.key.window = FloorWindow(c.ts),
           NEW n \in 0..Len(seen), ExpiredRun(n, c.ts),
           NEW cut \in 0..Len(seen)-n+1, FirstTime(c, n, cut),
           NEW j \in DOMAIN out, out[j].key = c.key
    PROVE  c.key \in evicted
<1>1. /\ out[j] \in Candidate /\ out[j].ts \in Nat /\ c.ts \in Nat /\ newest \in Nat
      /\ MaxLag \in Nat /\ Window \in Nat /\ n \in Nat /\ Len(seen) \in Nat
      /\ DOMAIN seen = 1..Len(seen)
  <2>1. /\ seen \in Seq(Entry) /\ out \in Seq(Candidate) /\ newest \in Nat
    BY DEF TypeOK
  <2>2. out[j] \in Candidate
    BY <2>1
  <2>3. out[j].ts \in Nat /\ c.ts \in Nat
    BY <2>2 DEF Candidate
  <2> QED BY <2>1, <2>2, <2>3, BoundAssumption, WindowAssumption
<1>2. c.ts - out[j].ts < Window
  <2>1. FloorWindow(c.ts) = FloorWindow(out[j].ts)
    BY DEF StoreInv, Keyed
  <2> QED BY <1>1, <2>1, SameWindow
<1>3. CASE out[j].key \in evicted
  BY <1>3
<1>4. CASE StillRemembered(out[j])
  <2>1. PICK i \in DOMAIN seen : seen[i].key = c.key /\ seen[i].first = out[j].ts
    BY <1>4 DEF StillRemembered
  <2>2. i \in 1..n
    BY <1>1, <2>1 DEF FirstTime
  <2>3. DedupWindow # None /\ out[j].ts < c.ts - DedupWindow
    BY <2>1, <2>2 DEF ExpiredRun, Expired
  <2>4. DedupWindow \in Nat /\ MaxLag + Window <= DedupWindow + 1
    BY <2>3, DedupAssumption DEF LagWithinHorizon
  <2>5. c.ts > out[j].ts + DedupWindow /\ c.ts >= c.ts - MaxLag
    BY <1>1, <2>3, <2>4
  <2> QED BY ONLY <1>1, <1>2, <2>4, <2>5, LateDuplicate
<1>5. CASE LongExpired(out[j])
  <2>1. DedupWindow # None /\ newest > out[j].ts + DedupWindow
    BY <1>5 DEF LongExpired
  <2>2. DedupWindow \in Nat /\ MaxLag + Window <= DedupWindow + 1
    BY <2>1, DedupAssumption DEF LagWithinHorizon
  <2> QED BY <1>1, <1>2, <2>1, <2>2, LateDuplicate
<1> QED BY <1>3, <1>4, <1>5 DEF StoreInv, FiredIsAccounted

(* Processing a candidate is a Return or a Drop of it.                      *)
LEMMA ProcessRefines ==
    ASSUME TypeOK, StoreInv, NEW c \in Candidate, ProcessCandidate(c),
           c.ts >= newest - MaxLag, c.key.window = FloorWindow(c.ts)
    PROVE  Once!Return(c) \/ Once!Drop(c)
<1>1. PICK n \in 0..Len(seen) :
         /\ ExpiredRun(n, c.ts)
         /\ \/ Duplicate(c, n)
            \/ \E cut \in 0..Len(seen)-n+1 : FirstTime(c, n, cut)
  BY ProcessShape
<1>2. /\ out \in Seq(Candidate) /\ DOMAIN out = 1..Len(out) /\ Len(out) \in Nat
      /\ suppressed \in Seq(Candidate) /\ DOMAIN seen = 1..Len(seen) /\ Len(seen) \in Nat
      /\ n \in Nat
  BY DEF TypeOK
<1>3. CASE Duplicate(c, n)
  <2>1. SuppressedHasWitness'
    BY ProcessInv DEF StoreInv
  <2>2. /\ suppressed' = Append(suppressed, c) /\ out' = out /\ evicted' = evicted
    BY <1>3 DEF Duplicate
  <2>3. /\ Len(suppressed) + 1 \in DOMAIN suppressed'
        /\ suppressed'[Len(suppressed) + 1] = c
    BY <1>2, <2>2
  <2>4. \E i \in DOMAIN out : /\ out[i].key = c.key
                              /\ out[i].ts - c.ts < Window
                              /\ c.ts - out[i].ts < Window
    BY <2>1, <2>2, <2>3 DEF SuppressedHasWitness
  <2> QED BY <2>2, <2>4 DEF Once!Drop
<1>4. ASSUME NEW cut \in 0..Len(seen)-n+1, FirstTime(c, n, cut)
      PROVE  Once!Return(c)
  <2>1. /\ out' = Append(out, c) /\ suppressed' = suppressed
        /\ evicted' = evicted \cup {IF n + i <= Len(seen) THEN seen[n + i].key ELSE c.key :
                                       i \in 1..cut}
    BY <1>4 DEF FirstTime
  <2>2. LagWithinHorizon => c.key \notin Once!Keys(out) \ evicted
    BY <1>1, <1>4, FirstTimeIsNew DEF Once!Keys
  <2>3. \A i \in DOMAIN seen : seen[i].key \in Once!Keys(out)
    BY DEF StoreInv, RememberedWasFired, Once!Keys
  <2>4. Once!Keys(out') = Once!Keys(out) \cup {c.key}
    <3>1. /\ DOMAIN out' = 1..(Len(out) + 1) /\ out'[Len(out) + 1] = c
          /\ \A i \in 1..Len(out) : out'[i] = out[i]
      BY <1>2, <2>1
    <3> QED BY <1>2, <3>1 DEF Once!Keys
  <2>5. \A i \in 1..cut : n + i <= Len(seen) => n + i \in DOMAIN seen
    BY <1>2
  <2>6. evicted' \subseteq evicted \cup Once!Keys(out')
    BY <2>1, <2>3, <2>4, <2>5
  <2> QED BY <2>1, <2>2, <2>6 DEF Once!Return
<1> QED BY <1>1, <1>3, <1>4
-------------------------------------------------------------------------------
LEMMA PendingStep ==
    ASSUME IInv, PendingKnown, [Next]_vars
    PROVE  PendingKnown'
<1>1. ASSUME NEW e \in Entities, NEW d \in Detectors, NEW t \in Time, Emit(e, d, t)
      PROVE  PendingKnown'
  BY <1>1 DEF Emit, PendingKnown
<1>2. ASSUME NEW n \in 1..MaxBatch, NEW e \in Entities, NEW t \in Time,
             NEW triggers \in [1..n -> Trigger], EmitFromFeatureVector(e, t, triggers)
      PROVE  PendingKnown'
  <2>1. n \in Nat /\ Len(triggers) = n
    BY BoundAssumption
  <2>2. \A i \in 1..n : triggers[i].detector \in Detectors
    <3>1. \A i \in 1..n : triggers[i] \in Trigger
      OBVIOUS
    <3> QED BY <3>1 DEF Trigger
  <2>3. pending' = [i \in 1..Len(triggers) |->
                       [key |-> MakeAlertKey(e, triggers[i].detector, t), ts |-> t]]
    BY <1>2 DEF EmitFromFeatureVector
  <2>4. \A i \in 1..n : [key |-> MakeAlertKey(e, triggers[i].detector, t), ts |-> t] \in Candidates
    BY <2>2 DEF Candidates
  <2> QED BY <2>1, <2>3, <2>4 DEF PendingKnown
<1>3. ASSUME NEW n \in 1..MaxBatch, NEW alerts \in [1..n -> Candidates], Dedupe(alerts)
      PROVE  PendingKnown'
  BY <1>3 DEF Dedupe, PendingKnown
<1>4. CASE LoopTurn
  <2>1. /\ pending \in Seq(Candidate) /\ pending # <<>> /\ pending' = Tail(pending)
    BY <1>4 DEF LoopTurn, Idle, IInv, TypeOK
  <2>2. /\ DOMAIN pending' = 1..Len(pending) - 1 /\ DOMAIN pending = 1..Len(pending)
        /\ Len(pending) \in Nat /\ \A i \in 1..Len(pending) - 1 : pending'[i] = pending[i + 1]
    BY <2>1, HeadTailProperties
  <2>3. \A i \in 1..Len(pending) - 1 : i + 1 \in DOMAIN pending
    BY <2>2
  <2> QED BY <2>2, <2>3 DEF PendingKnown
<1>5. CASE UNCHANGED vars
  BY <1>5 DEF vars, PendingKnown
<1> QED BY <1>1, <1>2, <1>3, <1>4, <1>5 DEF Next

LEMMA StepRefines ==
    ASSUME IInv, PendingKnown, [Next]_vars
    PROVE  [Once!Next]_<<out, suppressed, evicted>>
<1>1. ASSUME NEW e \in Entities, NEW d \in Detectors, NEW t \in Time, Emit(e, d, t)
      PROVE  Once!Next
  <2> DEFINE c == [key |-> MakeAlertKey(e, d, t), ts |-> t]
  <2>1. c \in Candidate /\ c.key.window = FloorWindow(c.ts) /\ c \in Candidates
    BY IdentityType DEF Candidates
  <2>2. ProcessCandidate(c) /\ WithinLag(<<c>>)
    BY <1>1 DEF Emit
  <2>3. c.ts >= newest - MaxLag
    BY <2>2 DEF WithinLag
  <2> HIDE DEF c
  <2>4. Once!Return(c) \/ Once!Drop(c)
    BY <2>1, <2>2, <2>3, ProcessRefines DEF IInv
  <2> QED BY <2>1, <2>4 DEF Once!Next
<1>2. ASSUME NEW n \in 1..MaxBatch, NEW e \in Entities, NEW t \in Time,
             NEW triggers \in [1..n -> Trigger], EmitFromFeatureVector(e, t, triggers)
      PROVE  UNCHANGED <<out, suppressed, evicted>>
  BY <1>2 DEF EmitFromFeatureVector
<1>3. ASSUME NEW n \in 1..MaxBatch, NEW alerts \in [1..n -> Candidates], Dedupe(alerts)
      PROVE  UNCHANGED <<out, suppressed, evicted>>
  BY <1>3 DEF Dedupe
<1>4. CASE LoopTurn
  <2> DEFINE c == Head(pending)
  <2>1. pending \in Seq(Candidate) /\ pending # <<>> /\ ProcessCandidate(c)
    BY <1>4 DEF LoopTurn, Idle, IInv, TypeOK
  <2>2. c \in Candidate /\ c = pending[1] /\ 1 \in DOMAIN pending
    BY <2>1
  <2>3. c.ts >= newest - MaxLag /\ c.key.window = FloorWindow(c.ts) /\ c \in Candidates
    BY <2>2 DEF IInv, WithinLag, Keyed, PendingKnown
  <2> HIDE DEF c
  <2>4. Once!Return(c) \/ Once!Drop(c)
    BY <2>1, <2>2, <2>3, ProcessRefines DEF IInv
  <2> QED BY <2>3, <2>4 DEF Once!Next
<1>5. CASE UNCHANGED vars
  BY <1>5 DEF vars
<1> QED BY <1>1, <1>2, <1>3, <1>4, <1>5 DEF Next

(* Every behaviour of the emitter is one that AlertOnce allows.             *)
THEOREM EmitterImplementsOnce == Spec => OnceSpec
<1>1. Init => Once!Init /\ PendingKnown
  BY DEF Init, Once!Init, PendingKnown
<1>2. IInv /\ PendingKnown /\ [Next]_vars => PendingKnown'
  BY PendingStep
<1>3. IInv /\ PendingKnown /\ [Next]_vars => [Once!Next]_<<out, suppressed, evicted>>
  BY StepRefines
<1> QED BY <1>1, <1>2, <1>3, Inductive, PTL DEF Spec, OnceSpec, Once!Spec
===============================================================================
