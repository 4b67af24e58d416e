---------------------------- MODULE LimiterProofs ----------------------------
(***************************************************************************)
(* Proofs about the two limiters of api/ratelimit.go and the monitor of    *)
(* security/monitor.go, for any rate, capacity, interval, limit, duration, *)
(* threshold and any keys and addresses: the token bucket allows no more   *)
(* than a bucket and the refills of the intervals that a window of time    *)
(* touches, and its denials announce when to come back; the sliding window *)
(* keeps the promise of WindowLimit; and the monitor blocks whom it should.*)
(***************************************************************************)
EXTENDS TokenBucket, SlidingWindow, Monitor, SequenceTheorems, FiniteSetTheorems,
        WellFoundedInduction, TLAPS

(* Part 1: the token bucket.                                                 *)
USE LimiterBaseAssumption, TokenBucketAssumption
    DEF LimiterBaseAssumption, TokenBucketAssumption

(* The intervals that a stretch of time touches.                           *)
Intervals(t) == (t + interval - 1) \div interval

(* Those that have begun for the observer of a key when its bucket was     *)
(* last refilled.                                                          *)
Refills(k) ==
  IF buckets[k].lastRefill >= since[k] THEN Intervals(buckets[k].lastRefill - since[k]) ELSE 0

BucketBound ==
  capacity <= 10 * rate =>
    \A k \in Key : since[k] # -1 =>
      IF k \in DOMAIN buckets
      THEN /\ granted[k] + buckets[k].tokens <= capacity + rate * Refills(k)
           /\ granted[k] > 0 => since[k] - buckets[k].lastRefill < interval
      ELSE granted[k] <= rate * Intervals(now - since[k])

Observers ==
  \A k \in Key : IF since[k] = -1 THEN granted[k] = 0 ELSE since[k] <= now

Promises ==
  \A k \in Key \cap DOMAIN buckets : promise[k] # -1 =>
    buckets[k].tokens = 0 /\ promise[k] = buckets[k].lastRefill + interval

BInv == now \in Time /\ BucketTypeOK /\ Observers /\ BucketBound /\ Promises

-----------------------------------------------------------------------------
LEMMA DivIs ==
  ASSUME NEW x \in Nat, NEW i \in Nat \ {0}
  PROVE  x \div i \in Nat /\ i * (x \div i) <= x /\ x < i * (x \div i) + i
OBVIOUS

LEMMA TimesMonotone ==
  ASSUME NEW r \in Nat, NEW a \in Nat, NEW b \in Nat, a <= b
  PROVE  r * a \in Nat /\ r * a <= r * b
OBVIOUS

LEMMA DivAtLeast ==
  ASSUME NEW x \in Nat, NEW i \in Nat \ {0}, NEW q \in Nat, i * q <= x
  PROVE  q <= x \div i
<1> DEFINE d == x \div i
<1>1. d \in Nat /\ x < i * (d + 1)
  BY DivIs
<1>2. CASE d < q
  <2>1. i * (d + 1) <= i * q
    BY <1>1, <1>2, TimesMonotone
  <2> QED BY <1>1, <1>2, <2>1
<1> QED BY <1>1, <1>2

(* Time that touches as many intervals as u is long, after t, touches as   *)
(* many more.                                                              *)
LEMMA IntervalsAdd ==
  ASSUME NEW t \in Nat, NEW u \in Nat
  PROVE  /\ Intervals(t) \in Nat /\ u \div interval \in Nat
         /\ Intervals(t) + (u \div interval) <= Intervals(t + u)
<1> DEFINE a == Intervals(t)
           b == u \div interval
<1>1. a \in Nat /\ interval * a <= t + interval - 1
  BY DivIs DEF Intervals
<1>2. b \in Nat /\ interval * b <= u
  BY DivIs
<1>3. interval * (a + b) <= t + u + interval - 1
  BY <1>1, <1>2
<1>4. a + b <= (t + u + interval - 1) \div interval
  BY <1>1, <1>2, <1>3, DivAtLeast
<1> QED BY <1>1, <1>2, <1>4 DEF Intervals

LEMMA IntervalsMonotone ==
  ASSUME NEW t \in Nat, NEW u \in Nat, t <= u
  PROVE  Intervals(t) \in Nat /\ Intervals(u) \in Nat /\ Intervals(t) <= Intervals(u)
<1>1. Intervals(t) \in Nat /\ Intervals(u) \in Nat
  BY IntervalsAdd
<1>2. PICK d \in Nat : u = t + d
  <2> WITNESS u - t \in Nat
  <2> QED OBVIOUS
<1>3. Intervals(t) + (d \div interval) <= Intervals(t + d) /\ d \div interval \in Nat
  BY IntervalsAdd
<1> QED BY <1>1, <1>2, <1>3

(* Less than an interval before t changes nothing.                         *)
LEMMA IntervalsCover ==
  ASSUME NEW t \in Nat, NEW d \in Nat, d < interval
  PROVE  (t + d) \div interval <= Intervals(t)
<1> DEFINE a == (t + d) \div interval
<1>1. a \in Nat /\ interval * a <= t + d
  BY DivIs
<1>2. interval * a <= t + interval - 1 /\ t + interval - 1 \in Nat
  BY <1>1
<1> QED BY <1>1, <1>2, DivAtLeast DEF Intervals

LEMMA TenIntervals ==
  ASSUME NEW t \in Nat, t > interval * 9
  PROVE  Intervals(t) \in Nat /\ 10 <= Intervals(t)
<1>1. t + interval - 1 \in Nat /\ interval * 10 <= t + interval - 1
  OBVIOUS
<1>2. 10 <= (t + interval - 1) \div interval
  BY <1>1, DivAtLeast
<1> QED BY <1>1, <1>2, DivIs DEF Intervals

(* A refill adds no more than the intervals since the last one allow.      *)
LEMMA RefillAdds ==
  ASSUME NEW g \in Nat, NEW old \in Nat, NEW new \in Nat, new <= capacity,
         NEW s \in Nat, NEW last \in Nat, NEW t \in Nat, s <= t, last <= t,
         NEW d \in Nat, d = (t - last) \div interval, new <= old + rate * d,
         g + old <= capacity + rate * (IF last >= s THEN Intervals(last - s) ELSE 0),
         g > 0 => s - last < interval
  PROVE  g + new <= capacity + rate * Intervals(t - s)
<1>1. t - s \in Nat
  OBVIOUS
<1>2. Intervals(t - s) \in Nat /\ rate * Intervals(t - s) \in Nat
  BY <1>1, IntervalsMonotone
<1>3. CASE last >= s
  <2> DEFINE a == last - s
             u == t - last
             n == Intervals(a)
  <2>1. a \in Nat /\ u \in Nat /\ t - s = a + u
    BY <1>3
  <2> HIDE DEF a, u
  <2>2. n \in Nat /\ n + (u \div interval) <= Intervals(a + u)
    BY <2>1, IntervalsAdd
  <2>3. n + d <= Intervals(t - s)
    BY <2>1, <2>2 DEF u
  <2>4. g + old <= capacity + rate * n
    BY <1>3 DEF a
  <2> HIDE DEF n
  <2>5. rate * (n + d) <= rate * Intervals(t - s)
    BY <1>2, <2>2, <2>3, TimesMonotone
  <2>6. rate * (n + d) = rate * n + rate * d /\ rate * n \in Nat /\ rate * d \in Nat
    BY <2>2
  <2> QED BY <1>2, <2>4, <2>5, <2>6
<1>4. CASE last < s /\ g = 0
  BY <1>2, <1>4
<1>5. CASE last < s /\ g > 0
  <2> DEFINE e == s - last
  <2>1. g + old <= capacity + rate * 0 /\ e < interval /\ e \in Nat
    BY <1>5
  <2>2. t - last = (t - s) + e
    OBVIOUS
  <2> HIDE DEF e
  <2>3. d <= Intervals(t - s)
    BY <1>1, <2>1, <2>2, IntervalsCover
  <2>4. rate * d <= rate * Intervals(t - s) /\ rate * d \in Nat
    BY <1>2, <2>3, TimesMonotone
  <2> QED BY <1>2, <2>1, <2>4
<1> QED BY <1>3, <1>4, <1>5

-----------------------------------------------------------------------------
(* Allow finds a bucket of less than an interval ago, which is not empty   *)
(* unless it was.                                                          *)
Bounded(k, b) ==
  capacity <= 10 * rate /\ since[k] # -1 =>
    /\ granted[k] + b.tokens <=
         capacity + rate * (IF b.lastRefill >= since[k]
                            THEN Intervals(b.lastRefill - since[k]) ELSE 0)
    /\ granted[k] > 0 => since[k] - b.lastRefill < interval

LEMMA FoundIs ==
  ASSUME BInv, NEW k \in Key
  PROVE  /\ Found(k) \in Bucket /\ Found(k).lastRefill <= now
         /\ k \in DOMAIN buckets => Found(k) = buckets[k] /\ Bounded(k, Found(k))
         /\ k \notin DOMAIN buckets =>
              Found(k).tokens = capacity /\ Found(k).lastRefill = now /\ Bounded(k, Found(k))
<1>1. now \in Nat /\ now \in Time
  BY DEF BInv, Time
<1>2. CASE k \in DOMAIN buckets
  <2>1. Found(k) = buckets[k]
    BY <1>2 DEF Found
  <2>2. buckets[k] \in Bucket /\ buckets[k].lastRefill <= now
    BY <1>2 DEF BInv, BucketTypeOK
  <2>3. Bounded(k, buckets[k])
    BY <1>2 DEF BInv, BucketBound, Bounded, Refills
  <2> QED BY <1>2, <2>1, <2>2, <2>3
<1>3. CASE k \notin DOMAIN buckets
  <2> DEFINE b == [tokens |-> capacity, lastRefill |-> now]
  <2>1. Found(k) = b /\ b.tokens = capacity /\ b.lastRefill = now
    BY <1>3 DEF Found
  <2>2. b \in Bucket
    BY <1>1 DEF Bucket
  <2>3. ASSUME capacity <= 10 * rate, since[k] # -1
        PROVE  granted[k] + capacity <= capacity + rate * Intervals(now - since[k])
               /\ since[k] \in Int /\ since[k] <= now
    <3>1. since[k] \in -1..MaxTime /\ granted[k] \in Nat /\ since[k] <= now
      BY <2>3 DEF BInv, BucketTypeOK, Observers
    <3>2. now - since[k] \in Nat
      BY <1>1, <2>3, <3>1
    <3>3. rate * Intervals(now - since[k]) \in Nat
      BY <3>2, IntervalsMonotone
    <3>4. granted[k] <= rate * Intervals(now - since[k])
      BY <1>3, <2>3 DEF BInv, BucketBound
    <3> QED BY <3>1, <3>3, <3>4
  <2>4. Bounded(k, b)
    BY <1>1, <2>1, <2>3 DEF Bounded
  <2> QED BY <1>1, <1>3, <2>1, <2>2, <2>4
<1> QED BY <1>2, <1>3

LEMMA RefilledIs ==
  ASSUME BInv, NEW k \in Key
  PROVE  /\ Refilled(k) \in Bucket /\ Refilled(k).lastRefill <= now
         /\ now - Refilled(k).lastRefill < interval
         /\ Refilled(k).tokens = 0 => k \in DOMAIN buckets /\ Refilled(k) = buckets[k]
         /\ Bounded(k, Refilled(k))
<1> DEFINE b == Found(k)
           last == b.lastRefill
           old == b.tokens
           d == (now - last) \div interval
           new == Smaller(old + d * rate, capacity)
           c == [tokens |-> new, lastRefill |-> now]
<1>1. now \in Nat /\ now \in Time
  BY DEF BInv, Time
<1>2. /\ b \in Bucket /\ last <= now
      /\ Bounded(k, b)
      /\ old = 0 => k \in DOMAIN buckets /\ b = buckets[k]
  BY FoundIs
<1>3. old \in 0..capacity /\ last \in Nat
  BY <1>2 DEF Bucket, Time
<1>4. Refilled(k) = IF d * rate > 0 THEN c ELSE b
  BY DEF Refilled
<1>5. c.tokens = new /\ c.lastRefill = now
  OBVIOUS
<1>6. Bounded(k, b) <=>
        (capacity <= 10 * rate /\ since[k] # -1 =>
           /\ granted[k] + old <=
                capacity + rate * (IF last >= since[k]
                                   THEN Intervals(last - since[k]) ELSE 0)
           /\ granted[k] > 0 => since[k] - last < interval)
  BY DEF Bounded
<1> HIDE DEF b, last, old
<1>7. now - last \in Nat
  BY <1>1, <1>2, <1>3
<1>8. d \in Nat
  BY <1>7, DivIs
<1>9. interval * d <= now - last /\ now - last < interval * d + interval
  BY <1>7, DivIs
<1>10. CASE d = 0
  <2>1. d * rate = 0 /\ now - last < interval
    <3> HIDE DEF d
    <3>1. interval * d = 0
      BY <1>10
    <3> QED BY <1>7, <1>9, <1>10, <3>1
  <2>2. Refilled(k) = b
    BY <1>4, <2>1
  <2> QED BY <1>2, <2>1, <2>2 DEF last, old
<1>11. CASE d > 0
  <2>1. d * rate \in Nat /\ d * rate > 0 /\ rate * d = d * rate
    <3> HIDE DEF d
    <3> QED BY <1>8, <1>11
  <2>2. Refilled(k) = c
    BY <1>4, <2>1
  <2>3. new \in 1..capacity /\ new <= old + rate * d
    BY <1>3, <2>1 DEF Smaller
  <2>4. c \in Bucket
    BY <1>1, <2>3 DEF Bucket
  <2>5. ASSUME capacity <= 10 * rate, since[k] # -1
        PROVE  granted[k] + new <= capacity + rate * Intervals(now - since[k])
               /\ since[k] <= now /\ since[k] \in Nat
    <3> DEFINE s == since[k]
               g == granted[k]
    <3>1. s \in Nat /\ g \in Nat /\ s <= now
      BY <2>5 DEF BInv, BucketTypeOK, Observers
    <3>2. /\ g + old <= capacity + rate * (IF last >= s THEN Intervals(last - s) ELSE 0)
          /\ g > 0 => s - last < interval
      BY <1>2, <1>6, <2>5
    <3>3. new <= capacity /\ new \in Nat
      BY <2>3
    <3> HIDE DEF s, g, new
    <3>4. /\ old \in Nat /\ d = (now - last) \div interval /\ s <= now /\ last <= now
          /\ new <= old + rate * d
      BY <1>2, <1>3, <2>3, <3>1
    <3> HIDE DEF d
    <3>5. g + new <= capacity + rate * Intervals(now - s)
      BY ONLY <1>1, <1>3, <1>8, <3>1, <3>2, <3>3, <3>4, RefillAdds, ZenonT(30)
    <3> QED BY <3>1, <3>5 DEF s, g
  <2>6. Bounded(k, c)
    <3> HIDE DEF c, new
    <3>1. SUFFICES ASSUME capacity <= 10 * rate, since[k] # -1
                   PROVE  granted[k] + c.tokens <= 
                            capacity + rate * (IF c.lastRefill >= since[k]
                               THEN Intervals(c.lastRefill - since[k]) ELSE 0)
                          /\ (granted[k] > 0 => since[k] - c.lastRefill < interval)
      BY DEF Bounded
    <3>2. since[k] <= now /\ since[k] \in Nat
      BY <2>5, <3>1
    <3>3. now >= since[k] /\ since[k] - now < interval
      BY <1>1, <3>2
    <3>4. (IF now >= since[k] THEN Intervals(now - since[k]) ELSE 0) = Intervals(now - since[k])
      BY <3>3
    <3> QED BY <1>5, <2>5, <3>1, <3>3, <3>4
  <2>7. now - now < interval /\ now <= now /\ new # 0
    BY <1>1, <2>3
  <2> QED BY <1>5, <2>2, <2>4, <2>6, <2>7
<1> QED BY <1>8, <1>10, <1>11

-----------------------------------------------------------------------------
LEMMA BucketInitInv == now = 0 /\ BucketInit => BInv
<1> SUFFICES ASSUME now = 0, BucketInit PROVE BInv
  OBVIOUS
<1>1. now \in Time /\ now \in Nat
  BY DEF Time
<1>2. buckets = <<>> /\ DOMAIN buckets = {}
  BY DEF BucketInit
<1>3. \A k \in Key : since[k] = -1 /\ granted[k] = 0 /\ promise[k] = -1
  BY DEF BucketInit
<1>4. /\ since \in [Key -> -1 .. MaxTime] /\ granted \in [Key -> Nat]
      /\ promise \in [Key -> Int] /\ routine \in {"running", "stopped"}
  BY DEF BucketInit
<1>5. buckets \in [DOMAIN buckets -> Bucket]
  BY <1>2
<1>6. BucketTypeOK
  BY <1>2, <1>4, <1>5 DEF BucketTypeOK
<1>7. Observers /\ BucketBound /\ Promises
  BY <1>2, <1>3 DEF Observers, BucketBound, Promises
<1> QED BY <1>1, <1>6, <1>7 DEF BInv

(* A key whose bucket and observer are as they were keeps its bound.       *)
OneBound(k) ==
  since[k] # -1 =>
    IF k \in DOMAIN buckets
    THEN /\ granted[k] + buckets[k].tokens <= capacity + rate * Refills(k)
         /\ granted[k] > 0 => since[k] - buckets[k].lastRefill < interval
    ELSE granted[k] <= rate * Intervals(now - since[k])

LEMMA BoundIsEach == BucketBound <=> (capacity <= 10 * rate => \A k \in Key : OneBound(k))
BY DEF BucketBound, OneBound

LEMMA SameBound ==
  ASSUME NEW k \in Key, OneBound(k), now' = now, since'[k] = since[k], granted'[k] = granted[k],
         (k \in DOMAIN buckets') <=> (k \in DOMAIN buckets),
         k \in DOMAIN buckets => buckets'[k] = buckets[k]
  PROVE  OneBound(k)'
<1>1. CASE k \in DOMAIN buckets
  BY <1>1 DEF OneBound, Refills
<1>2. CASE k \notin DOMAIN buckets
  BY <1>2 DEF OneBound
<1> QED BY <1>1, <1>2

LEMMA AllowKeeps ==
  ASSUME BInv, NEW k \in Key, NEW b \in Bucket, b.lastRefill <= now,
         now - b.lastRefill < interval,
         buckets' = With(k, b), now' = now, routine' = routine, since' = since,
         granted' \in [Key -> Nat], promise' \in [Key -> Int],
         \A l \in Key \ {k} : granted'[l] = granted[l] /\ promise'[l] = promise[l],
         since[k] = -1 => granted'[k] = 0,
         capacity <= 10 * rate /\ since[k] # -1 =>
           granted'[k] + b.tokens <=
             capacity + rate * (IF b.lastRefill >= since[k]
                                THEN Intervals(b.lastRefill - since[k]) ELSE 0),
         promise'[k] # -1 => b.tokens = 0 /\ promise'[k] = b.lastRefill + interval
  PROVE  BInv'
<1>1. now \in Time /\ BucketTypeOK /\ Observers /\ Promises
  BY DEF BInv
<1>2. DOMAIN buckets' = DOMAIN buckets \cup {k} /\ buckets'[k] = b
  BY DEF With
<1>3. \A l \in DOMAIN buckets \ {k} : buckets'[l] = buckets[l]
  BY DEF With
<1>4. buckets' \in [DOMAIN buckets' -> Bucket]
  <2>1. \A l \in DOMAIN buckets : buckets[l] \in Bucket
    BY <1>1 DEF BucketTypeOK
  <2> QED BY <1>2, <2>1 DEF With
<1>5. BucketTypeOK'
  <2>1. DOMAIN buckets' \subseteq Key
    BY <1>1, <1>2 DEF BucketTypeOK
  <2>2. \A l \in DOMAIN buckets' : buckets'[l].lastRefill <= now'
    BY <1>1, <1>2, <1>3 DEF BucketTypeOK
  <2>3. Bucket' = Bucket /\ Time' = Time
    BY DEF Bucket, Time
  <2>4. routine' \in {"running", "stopped"} /\ since' \in [Key -> -1 .. MaxTime]
    BY <1>1 DEF BucketTypeOK
  <2> QED BY <1>4, <2>1, <2>2, <2>3, <2>4 DEF BucketTypeOK
<1>6. Observers'
  BY <1>1 DEF Observers
<1>7. BucketBound'
  <2>1. SUFFICES ASSUME capacity <= 10 * rate PROVE \A l \in Key : OneBound(l)'
    BY DEF BucketBound, OneBound
  <2>2. \A l \in Key : OneBound(l)
    BY <2>1, BoundIsEach DEF BInv
  <2>3. ASSUME NEW l \in Key \ {k} PROVE OneBound(l)'
    <3>1. /\ OneBound(l) /\ since'[l] = since[l] /\ granted'[l] = granted[l]
          /\ (l \in DOMAIN buckets') <=> (l \in DOMAIN buckets)
          /\ l \in DOMAIN buckets => buckets'[l] = buckets[l]
      BY <1>2, <1>3, <2>2
    <3> QED BY <3>1, SameBound
  <2>4. OneBound(k)'
    <3>1. SUFFICES ASSUME since[k] # -1
                   PROVE /\ granted'[k] + b.tokens <= capacity + rate * Refills(k)'
                         /\ since[k] - b.lastRefill < interval
      BY <1>2 DEF OneBound
    <3>2. Refills(k)' = IF b.lastRefill >= since[k]
                        THEN Intervals(b.lastRefill - since[k]) ELSE 0
      BY <1>2 DEF Refills, Intervals
    <3>3. since[k] \in Int /\ since[k] <= now /\ now \in Int /\ b.lastRefill \in Int
      BY <1>1, <3>1 DEF BucketTypeOK, Observers, Time, Bucket
    <3>4. since[k] - b.lastRefill < interval
      BY <3>3
    <3> QED BY <2>1, <3>1, <3>2, <3>4
  <2> QED BY <2>3, <2>4
<1>8. Promises'
  BY <1>1, <1>2, <1>3 DEF Promises
<1> QED BY <1>1, <1>5, <1>6, <1>7, <1>8 DEF BInv, Time

LEMMA GrantKeeps == ASSUME BInv, NEW k \in Key, BucketGrant(k) PROVE BInv'
<1> DEFINE b == Refilled(k)
           c == [b EXCEPT !.tokens = @ - 1]
<1>1. /\ b.tokens > 0 /\ buckets' = With(k, c)
      /\ granted' = IF since[k] = -1 THEN granted ELSE [granted EXCEPT ![k] = @ + 1]
      /\ promise' = [promise EXCEPT ![k] = -1]
      /\ now' = now /\ routine' = routine /\ since' = since
  BY DEF BucketGrant
<1>2. /\ b \in Bucket /\ b.lastRefill <= now /\ now - b.lastRefill < interval
      /\ Bounded(k, b)
  BY RefilledIs
<1>3. /\ granted \in [Key -> Nat] /\ promise \in [Key -> Int]
      /\ since[k] = -1 => granted[k] = 0
  BY DEF BInv, BucketTypeOK, Observers
<1> HIDE DEF b
<1>4. b.tokens \in 1..capacity
  BY <1>1, <1>2 DEF Bucket
<1>5. c \in Bucket /\ c.lastRefill = b.lastRefill /\ c.tokens = b.tokens - 1
  BY <1>2, <1>4 DEF Bucket
<1> HIDE DEF c
<1>6. granted' \in [Key -> Nat] /\ promise' \in [Key -> Int] /\ promise'[k] = -1
  BY <1>1, <1>3
<1>7. \A l \in Key \ {k} : granted'[l] = granted[l] /\ promise'[l] = promise[l]
  BY <1>1, <1>3
<1>8. since[k] = -1 => granted'[k] = 0
  BY <1>1, <1>3
<1>9. ASSUME capacity <= 10 * rate, since[k] # -1
      PROVE  granted'[k] + c.tokens <=
               capacity + rate * (IF c.lastRefill >= since[k]
                                  THEN Intervals(c.lastRefill - since[k]) ELSE 0)
  <2>1. granted'[k] = granted[k] + 1 /\ granted[k] \in Nat
    BY <1>1, <1>3, <1>9
  <2>2. granted[k] + b.tokens <=
               capacity + rate * (IF c.lastRefill >= since[k]
                                  THEN Intervals(c.lastRefill - since[k]) ELSE 0)
    BY <1>2, <1>5, <1>9 DEF Bounded
  <2>3. granted'[k] + c.tokens = granted[k] + b.tokens
    BY <1>4, <1>5, <2>1
  <2> QED BY <2>2, <2>3
<1>10. now - c.lastRefill < interval /\ c.lastRefill <= now
  BY <1>2, <1>5
<1> QED BY <1>1, <1>5, <1>6, <1>7, <1>8, <1>9, <1>10, AllowKeeps

LEMMA DenyKeeps == ASSUME BInv, NEW k \in Key, BucketDeny(k) PROVE BInv'
<1> DEFINE b == Refilled(k)
<1>1. /\ b.tokens = 0 /\ buckets' = With(k, b)
      /\ promise' = [promise EXCEPT ![k] = IF @ = -1 THEN b.lastRefill + interval ELSE @]
      /\ now' = now /\ routine' = routine /\ since' = since /\ granted' = granted
  BY DEF BucketDeny
<1>2. /\ b \in Bucket /\ b.lastRefill <= now /\ now - b.lastRefill < interval
      /\ Bounded(k, b)
      /\ k \in DOMAIN buckets /\ b = buckets[k]
  BY <1>1, RefilledIs
<1>3. /\ granted \in [Key -> Nat] /\ promise \in [Key -> Int]
      /\ since[k] = -1 => granted[k] = 0
      /\ promise[k] # -1 => promise[k] = b.lastRefill + interval
  BY <1>2 DEF BInv, BucketTypeOK, Observers, Promises
<1> HIDE DEF b
<1>4. b.lastRefill + interval \in Int
  BY <1>2 DEF Bucket, Time
<1>5. promise' \in [Key -> Int]
  BY <1>1, <1>3, <1>4
<1>6. \A l \in Key \ {k} : granted'[l] = granted[l] /\ promise'[l] = promise[l]
  BY <1>1, <1>3
<1>7. promise'[k] # -1 => b.tokens = 0 /\ promise'[k] = b.lastRefill + interval
  BY <1>1, <1>3
<1>8. capacity <= 10 * rate /\ since[k] # -1 =>
        granted'[k] + b.tokens <=
           capacity + rate * (IF b.lastRefill >= since[k]
                              THEN Intervals(b.lastRefill - since[k]) ELSE 0)
  BY <1>1, <1>2 DEF Bounded
<1> QED BY <1>1, <1>2, <1>3, <1>5, <1>6, <1>7, <1>8, AllowKeeps

LEMMA ResetKeeps == ASSUME BInv, NEW k \in Key, BucketReset(k) PROVE BInv'
<1>1. now \in Time /\ BucketTypeOK /\ Observers /\ Promises
  BY DEF BInv
<1>2. /\ DOMAIN buckets' = DOMAIN buckets \ {k}
      /\ \A l \in DOMAIN buckets \ {k} : buckets'[l] = buckets[l]
      /\ buckets' = [l \in DOMAIN buckets \ {k} |-> buckets[l]]
  BY DEF BucketReset, Restrict
<1>3. /\ now' = now /\ routine' = routine
      /\ since' = [since EXCEPT ![k] = -1] /\ granted' = [granted EXCEPT ![k] = 0]
      /\ promise' = [promise EXCEPT ![k] = -1]
  BY DEF BucketReset
<1>4. BucketTypeOK'
  <2>1. /\ DOMAIN buckets' \subseteq Key /\ buckets' \in [DOMAIN buckets' -> Bucket]
        /\ \A l \in DOMAIN buckets' : buckets'[l].lastRefill <= now'
    BY <1>1, <1>2, <1>3 DEF BucketTypeOK
  <2>2. since' \in [Key -> -1 .. MaxTime]
    BY <1>1, <1>3 DEF BucketTypeOK
  <2>3. granted' \in [Key -> Nat] /\ promise' \in [Key -> Int] /\ routine' \in {"running", "stopped"}
    BY <1>1, <1>3 DEF BucketTypeOK
  <2> QED BY <2>1, <2>2, <2>3 DEF BucketTypeOK, Bucket, Time
<1>5. Observers'
  BY <1>1, <1>3 DEF Observers, BucketTypeOK
<1>6. BucketBound'
  <2>1. SUFFICES ASSUME capacity <= 10 * rate, NEW l \in Key PROVE OneBound(l)'
    BY DEF BucketBound, OneBound
  <2>2. CASE l = k
    <3>1. since'[k] = -1
      BY <1>1, <1>3 DEF BucketTypeOK
    <3> QED BY <2>2, <3>1 DEF OneBound
  <2>3. CASE l # k
    <3>1. OneBound(l)
      BY <2>1, BoundIsEach DEF BInv
    <3>2. since'[l] = since[l] /\ granted'[l] = granted[l]
      BY <1>1, <1>3, <2>3 DEF BucketTypeOK
    <3> QED BY <1>2, <1>3, <2>3, <3>1, <3>2, SameBound
  <2> QED BY <2>2, <2>3
<1>7. Promises'
  <2>1. \A l \in DOMAIN buckets \ {k} : l \in Key /\ promise'[l] = promise[l]
    BY <1>1, <1>3 DEF BucketTypeOK
  <2> QED BY <1>1, <1>2, <2>1 DEF Promises
<1> QED BY <1>1, <1>3, <1>4, <1>5, <1>6, <1>7 DEF BInv, Time

(* A bucket that is old enough to be forgotten would be full.              *)
LEMMA OldIsFull ==
  ASSUME capacity <= 10 * rate,
         NEW g \in Nat, NEW tokens \in Nat, NEW s \in Nat, NEW last \in Nat, NEW t \in Nat,
         s <= t, last <= t, t - last > interval * 10,
         g + tokens <= capacity + rate * (IF last >= s THEN Intervals(last - s) ELSE 0),
         g > 0 => s - last < interval
  PROVE  g <= rate * Intervals(t - s)
<1>1. t - s \in Nat
  OBVIOUS
<1>2. Intervals(t - s) \in Nat /\ rate * Intervals(t - s) \in Nat
  BY <1>1, IntervalsMonotone
<1>3. CASE g = 0
  BY <1>2, <1>3
<1>4. CASE last >= s
  <2> DEFINE a == last - s
             u == t - last
             n == Intervals(a)
  <2>1. a \in Nat /\ u \in Nat /\ t - s = a + u /\ interval * 10 <= u
    BY <1>4
  <2>2. g + tokens <= capacity + rate * n
    BY <1>4
  <2> HIDE DEF a, u
  <2>3. n \in Nat /\ u \div interval \in Nat /\ n + (u \div interval) <= Intervals(a + u)
    BY <2>1, IntervalsAdd
  <2>4. 10 <= u \div interval
    BY <2>1, DivAtLeast
  <2>5. n + 10 <= Intervals(t - s)
    BY <1>2, <2>1, <2>3, <2>4
  <2> HIDE DEF n
  <2>6. rate * (n + 10) <= rate * Intervals(t - s)
    BY <1>2, <2>3, <2>5, TimesMonotone
  <2>7. rate * (n + 10) = rate * n + 10 * rate /\ rate * n \in Nat
    BY <2>3
  <2> QED BY <1>2, <2>2, <2>6, <2>7
<1>5. CASE last < s /\ g > 0
  <2>1. t - s > interval * 9
    BY <1>5
  <2>2. 10 <= Intervals(t - s)
    BY <1>1, <2>1, TenIntervals
  <2>3. rate * 10 <= rate * Intervals(t - s)
    BY <1>2, <2>2, TimesMonotone
  <2>4. g <= capacity + rate * 0
    BY <1>5
  <2> QED BY <1>2, <2>3, <2>4
<1> QED BY <1>3, <1>4, <1>5

LEMMA CleanUpKeeps == ASSUME BInv, bucketCleanUp PROVE BInv'
<1> DEFINE Kept == {k \in DOMAIN buckets : now - buckets[k].lastRefill <= bucketCleanup}
<1>1. now \in Time /\ BucketTypeOK /\ Observers /\ Promises
  BY DEF BInv
<1>2. buckets' = [l \in Kept |-> buckets[l]]
  BY DEF bucketCleanUp, Restrict
<1>3. /\ now' = now /\ routine' = routine
      /\ since' = since /\ granted' = granted /\ promise' = promise
  BY DEF bucketCleanUp, bucketHist
<1>4. DOMAIN buckets' = Kept /\ Kept \subseteq DOMAIN buckets
      /\ \A l \in Kept : buckets'[l] = buckets[l]
  BY <1>2
<1>5. BucketTypeOK'
  <2>1. /\ DOMAIN buckets' \subseteq Key /\ buckets' \in [DOMAIN buckets' -> Bucket]
        /\ \A l \in DOMAIN buckets' : buckets'[l].lastRefill <= now'
    <3>1. \A l \in DOMAIN buckets : l \in Key /\ buckets[l] \in Bucket /\ buckets[l].lastRefill <= now
      BY <1>1 DEF BucketTypeOK
    <3> HIDE DEF Kept
    <3> QED BY <1>2, <1>3, <1>4, <3>1
  <2> QED BY <1>1, <1>3, <2>1 DEF BucketTypeOK, Bucket, Time
<1>6. Observers'
  BY <1>1, <1>3 DEF Observers
<1>7. BucketBound'
  <2>1. SUFFICES ASSUME capacity <= 10 * rate, NEW l \in Key PROVE OneBound(l)'
    BY DEF BucketBound, OneBound
  <2>2. OneBound(l)
    BY <2>1, BoundIsEach DEF BInv
  <2>3. CASE l \in Kept
    <3>1. l \in DOMAIN buckets' /\ l \in DOMAIN buckets /\ buckets'[l] = buckets[l]
      BY <1>4, <2>3
    <3> QED BY <1>3, <2>2, <3>1, SameBound
  <2>4. CASE l \notin DOMAIN buckets
    <3>1. l \notin DOMAIN buckets'
      BY <1>4, <2>4
    <3> QED BY <1>3, <2>2, <2>4, <3>1, SameBound
  <2>5. CASE l \in DOMAIN buckets \ Kept
    <3> DEFINE s == since[l]
               g == granted[l]
               last == buckets[l].lastRefill
               tokens == buckets[l].tokens
    <3>1. SUFFICES ASSUME s # -1 PROVE g <= rate * Intervals(now - s)
      BY <1>3, <1>4, <2>5 DEF OneBound, Intervals
    <3>2. s \in Nat /\ g \in Nat /\ s <= now
      BY <1>1, <3>1 DEF BucketTypeOK, Observers
    <3>3. last \in Nat /\ tokens \in Nat /\ last <= now /\ now \in Nat
      <4>1. buckets[l] \in Bucket /\ last <= now
        BY <1>1, <2>5 DEF BucketTypeOK
      <4> QED BY <1>1, <4>1 DEF Bucket, Time
    <3>4. now - last > interval * 10
      <4>1. ~(now - last <= bucketCleanup)
        BY <2>5
      <4> HIDE DEF last
      <4> QED BY <3>3, <4>1 DEF bucketCleanup
    <3>5. /\ g + tokens <= capacity + rate * (IF last >= s THEN Intervals(last - s) ELSE 0)
          /\ g > 0 => s - last < interval
      BY <2>2, <2>5, <3>1 DEF OneBound, Refills
    <3> HIDE DEF s, g, last, tokens
    <3> QED BY ONLY <2>1, <3>2, <3>3, <3>4, <3>5, OldIsFull, ZenonT(30)
  <2> QED BY <2>3, <2>4, <2>5
<1>8. Promises'
  BY <1>1, <1>3, <1>4 DEF Promises
<1> QED BY <1>1, <1>3, <1>5, <1>6, <1>7, <1>8 DEF BInv, Time

LEMMA StopKeeps ==
  ASSUME BInv, buckets' = buckets, routine' \in {"running", "stopped"}, now' = now,
         since' = since, granted' = granted, promise' = promise
  PROVE  BInv'
<1>1. now \in Time /\ BucketTypeOK /\ Observers /\ Promises /\ BucketBound
  BY DEF BInv
<1>2. BucketTypeOK'
  BY <1>1 DEF BucketTypeOK, Bucket, Time
<1>3. Observers' /\ Promises'
  BY <1>1 DEF Observers, Promises
<1>4. BucketBound'
  BY <1>1 DEF BucketBound, Refills, Intervals
<1> QED BY <1>1, <1>2, <1>3, <1>4 DEF BInv, Time

LEMMA TickKeeps == ASSUME BInv, BucketTick PROVE BInv'
<1>1. now \in Time /\ BucketTypeOK /\ Observers /\ Promises
  BY DEF BInv
<1>2. /\ now' = now + 1 /\ now < MaxTime
      /\ buckets' = buckets /\ routine' = routine
      /\ since' = since /\ granted' = granted /\ promise' = promise
  BY DEF BucketTick, Advance, bucketHist
<1>3. now \in Nat /\ now' \in Nat /\ now <= now' /\ now' \in Time
  BY <1>1, <1>2 DEF Time
<1>4. BucketTypeOK'
  <2>1. \A l \in DOMAIN buckets : buckets[l].lastRefill <= now'
    <3>1. ASSUME NEW l \in DOMAIN buckets PROVE buckets[l].lastRefill <= now'
      <4>1. buckets[l].lastRefill \in Nat /\ buckets[l].lastRefill <= now
        BY <1>1 DEF BucketTypeOK, Bucket, Time
      <4> QED BY <1>3, <4>1
    <3> QED BY <3>1
  <2> QED BY <1>1, <1>2, <2>1 DEF BucketTypeOK, Bucket, Time
<1>5. Observers'
  <2>1. \A k \in Key : since[k] \in Int
    BY <1>1 DEF BucketTypeOK
  <2> QED BY <1>1, <1>2, <1>3, <2>1 DEF Observers
<1>6. Promises'
  BY <1>1, <1>2 DEF Promises
<1>7. BucketBound'
  <2>1. SUFFICES ASSUME capacity <= 10 * rate, NEW l \in Key PROVE OneBound(l)'
    BY DEF BucketBound, OneBound
  <2>2. OneBound(l)
    BY <2>1, BoundIsEach DEF BInv
  <2>3. CASE l \in DOMAIN buckets
    BY <1>2, <2>2, <2>3 DEF OneBound, Refills, Intervals
  <2>4. CASE l \notin DOMAIN buckets
    <3> DEFINE s == since[l]
               g == granted[l]
    <3>1. SUFFICES ASSUME s # -1 PROVE g <= rate * Intervals(now' - s)
      BY <1>2, <2>4 DEF OneBound, Intervals
    <3>2. s \in Nat /\ g \in Nat /\ s <= now
      BY <1>1, <3>1 DEF BucketTypeOK, Observers
    <3>3. g <= rate * Intervals(now - s)
      BY <2>2, <2>4, <3>1 DEF OneBound
    <3> HIDE DEF s, g
    <3> DEFINE t == now'
    <3>4. t \in Nat /\ now <= t /\ now \in Nat
      BY <1>3
    <3> HIDE DEF t
    <3>8. now - s \in Nat /\ t - s \in Nat /\ now - s <= t - s
      BY <3>2, <3>4
    <3>5. /\ Intervals(now - s) \in Nat /\ Intervals(t - s) \in Nat
          /\ Intervals(now - s) <= Intervals(t - s)
      BY <3>8, IntervalsMonotone
    <3>6. rate * Intervals(now - s) <= rate * Intervals(t - s)
          /\ rate * Intervals(now - s) \in Nat /\ rate * Intervals(t - s) \in Nat
      BY <3>5, TimesMonotone
    <3>7. g <= rate * Intervals(t - s)
      BY <3>2, <3>3, <3>6
    <3> QED BY <3>7 DEF t
  <2> QED BY <2>3, <2>4
<1> QED BY <1>3, <1>4, <1>5, <1>6, <1>7 DEF BInv, Time

LEMMA ObserveKeeps == ASSUME BInv, NEW k \in Key, Observe(k) PROVE BInv'
<1>1. now \in Time /\ BucketTypeOK /\ Observers /\ Promises
  BY DEF BInv
<1>2. /\ since[k] = -1 /\ since' = [since EXCEPT ![k] = now]
      /\ now' = now /\ buckets' = buckets /\ routine' = routine
      /\ granted' = granted /\ promise' = promise
  BY DEF Observe
<1>3. now \in Nat /\ now \in -1 .. MaxTime /\ granted[k] = 0
  BY <1>1, <1>2 DEF Time, Observers
<1>4. since'[k] = now /\ \A l \in Key \ {k} : since'[l] = since[l]
  BY <1>1, <1>2 DEF BucketTypeOK
<1>5. BucketTypeOK'
  <2>1. since' \in [Key -> -1 .. MaxTime]
    BY <1>1, <1>2, <1>3 DEF BucketTypeOK
  <2> QED BY <1>1, <1>2, <2>1 DEF BucketTypeOK, Bucket, Time
<1>6. Observers'
  BY <1>1, <1>2, <1>3, <1>4 DEF Observers
<1>7. Promises'
  BY <1>1, <1>2 DEF Promises
<1>8. BucketBound'
  <2>1. SUFFICES ASSUME capacity <= 10 * rate, NEW l \in Key PROVE OneBound(l)'
    BY DEF BucketBound, OneBound
  <2>2. OneBound(l)
    BY <2>1, BoundIsEach DEF BInv
  <2>3. CASE l # k
    BY <1>2, <1>4, <2>2, <2>3, SameBound
  <2>4. CASE l = k /\ k \in DOMAIN buckets
    <3> DEFINE last == buckets[k].lastRefill
               tokens == buckets[k].tokens
    <3>1. last \in Nat /\ last <= now /\ tokens \in 0..capacity
      BY <1>1, <2>4 DEF BucketTypeOK, Bucket, Time
    <3>2. Refills(k)' = IF last >= now THEN Intervals(last - now) ELSE 0
      BY <1>2, <1>4 DEF Refills, Intervals
    <3> HIDE DEF last, tokens
    <3>3. Refills(k)' \in Nat
      <4>1. CASE last >= now
        <5>1. last - now \in Nat
          BY <1>3, <3>1, <4>1
        <5> QED BY <3>2, <4>1, <5>1, IntervalsMonotone
      <4> QED BY <1>3, <3>1, <3>2, <4>1
    <3>4. rate * Refills(k)' \in Nat
      BY <3>3
    <3>5. 0 + tokens <= capacity + rate * Refills(k)'
      BY <3>1, <3>4
    <3> QED BY <1>2, <1>3, <2>4, <3>5 DEF OneBound, tokens
  <2>5. CASE l = k /\ k \notin DOMAIN buckets
    <3>1. now - now = 0 /\ 0 \in Nat
      BY <1>3
    <3>2. Intervals(0) \in Nat
      BY IntervalsMonotone
    <3>3. 0 <= rate * Intervals(now - now)
      BY <3>1, <3>2
    <3> QED BY <1>2, <1>3, <1>4, <2>5, <3>3 DEF OneBound, Intervals
  <2> QED BY <2>3, <2>4, <2>5
<1> QED BY <1>1, <1>2, <1>5, <1>6, <1>7, <1>8 DEF BInv, Time

-----------------------------------------------------------------------------
LEMMA BucketInvariance == BucketSpec => []BInv
<1>1. now = 0 /\ BucketInit => BInv
  BY BucketInitInv
<1>2. BInv /\ [BucketNext]_<<now, bucketVars>> => BInv'
  <2> SUFFICES ASSUME BInv, [BucketNext]_<<now, bucketVars>> PROVE BInv'
    OBVIOUS
  <2>1. ASSUME NEW k \in Key, BucketGrant(k) PROVE BInv'
    BY <2>1, GrantKeeps
  <2>2. ASSUME NEW k \in Key, BucketDeny(k) PROVE BInv'
    BY <2>2, DenyKeeps
  <2>3. ASSUME NEW k \in Key, BucketReset(k) PROVE BInv'
    BY <2>3, ResetKeeps
  <2>4. ASSUME NEW k \in Key, Observe(k) PROVE BInv'
    BY <2>4, ObserveKeeps
  <2>5. CASE bucketCleanUp
    BY <2>5, CleanUpKeeps
  <2>6. CASE BucketStop
    BY <2>6, StopKeeps DEF BucketStop, bucketHist
  <2>7. CASE BucketTick
    BY <2>7, TickKeeps
  <2>8. CASE UNCHANGED <<now, bucketVars>>
    <3>1. routine' \in {"running", "stopped"}
      BY <2>8 DEF BInv, BucketTypeOK, bucketVars
    <3> QED BY <2>8, <3>1, StopKeeps DEF bucketVars, bucketHist
  <2> QED BY <2>1, <2>2, <2>3, <2>4, <2>5, <2>6, <2>7, <2>8 DEF BucketNext
<1> QED BY <1>1, <1>2, PTL DEF BucketSpec

(* Allow of the token bucket in api/ratelimit.go: within any window of     *)
(* time it grants one full bucket and one refill for each interval that    *)
(* the window touches, at most, although refills are lazy and idle buckets *)
(* are forgotten.                                                          *)
THEOREM BucketBurstBounded == BucketSpec => []BurstBounded
<1>1. ASSUME BInv PROVE BurstBounded
  <2>1. SUFFICES ASSUME capacity <= 10 * rate, NEW k \in Key, since[k] # -1
                 PROVE  granted[k] <= capacity + rate * Intervals(now - since[k])
    BY DEF BurstBounded, Intervals
  <2> DEFINE s == since[k]
             g == granted[k]
  <2>2. s \in Nat /\ g \in Nat /\ s <= now /\ now \in Nat
    BY <1>1, <2>1 DEF BInv, BucketTypeOK, Observers, Time
  <2>3. now - s \in Nat
    BY <2>2
  <2>4. Intervals(now - s) \in Nat /\ rate * Intervals(now - s) \in Nat
    BY <2>3, IntervalsMonotone
  <2>5. OneBound(k)
    BY <1>1, <2>1, BoundIsEach DEF BInv
  <2>6. CASE k \notin DOMAIN buckets
    <3>1. g <= rate * Intervals(now - s)
      BY <2>1, <2>5, <2>6 DEF OneBound
    <3> HIDE DEF s, g
    <3> QED BY <2>2, <2>4, <3>1 DEF s, g
  <2>7. CASE k \in DOMAIN buckets
    <3> DEFINE n == Refills(k)
               tokens == buckets[k].tokens
               last == buckets[k].lastRefill
    <3>1. g + tokens <= capacity + rate * n
      BY <2>1, <2>5, <2>7 DEF OneBound
    <3>2. tokens \in Nat /\ last \in Nat /\ last <= now
      BY <1>1, <2>7 DEF BInv, BucketTypeOK, Bucket, Time
    <3>3. n = IF last >= s THEN Intervals(last - s) ELSE 0
      BY DEF Refills
    <3> HIDE DEF s, g, n, tokens, last
    <3>4. n \in Nat /\ n <= Intervals(now - s)
      <4>1. CASE last >= s
        <5>1. last - s \in Nat /\ last - s <= now - s
          BY <2>2, <3>2, <4>1
        <5> QED BY <2>3, <3>3, <4>1, <5>1, IntervalsMonotone
      <4> QED BY <2>2, <2>4, <3>2, <3>3, <4>1
    <3>5. rate * n <= rate * Intervals(now - s) /\ rate * n \in Nat
      BY <2>4, <3>4, TimesMonotone
    <3>6. g <= capacity + rate * Intervals(now - s)
      BY <2>2, <2>4, <3>1, <3>2, <3>5
    <3> QED BY <3>6 DEF s, g
  <2> QED BY <2>6, <2>7
<1> QED BY <1>1, BucketInvariance, PTL

LEMMA BucketKeepsPromise == ASSUME BInv, NEW k \in Key PROVE BucketResetHonoured(k)
<1>1. SUFFICES ASSUME BucketDeny(k), promise[k] # -1 PROVE now < promise[k]
  BY DEF BucketResetHonoured
<1>2. Refilled(k).tokens = 0
  BY <1>1 DEF BucketDeny
<1>3. k \in DOMAIN buckets /\ Refilled(k) = buckets[k]
      /\ now - Refilled(k).lastRefill < interval
  BY <1>2, RefilledIs
<1>4. promise[k] = buckets[k].lastRefill + interval
  BY <1>1, <1>3 DEF BInv, Promises
<1>5. now \in Nat /\ buckets[k].lastRefill \in Nat
  BY <1>3 DEF BInv, BucketTypeOK, Bucket, Time
<1> QED BY <1>3, <1>4, <1>5

(* A client that waits for the reset time which its first denial announced *)
(* is not denied again: neither more denials nor the cleanup postpone the  *)
(* refill.                                                                 *)
THEOREM BucketHonoursReset ==
  BucketSpec => [][\A k \in Key : BucketResetHonoured(k)]_<<now, bucketVars>>
<1>1. BInv => [\A k \in Key : BucketResetHonoured(k)]_<<now, bucketVars>>
  BY BucketKeepsPromise
<1> QED BY <1>1, BucketInvariance, PTL

-----------------------------------------------------------------------------
(* Part 2: the sliding window.                                              *)

USE SlidingWindowAssumption DEF SlidingWindowAssumption

LEMMA LeastNat ==
  ASSUME NEW T, T \subseteq Nat, T # {}
  PROVE  \E x \in T : \A y \in T : x <= y
<1>1. PICK x \in T : \A y \in T : ~(<<y, x>> \in OpToRel(<, Nat))
  BY WFMin, NatLessThanWellFounded
<1>2. \A y \in T : ~(y < x)
  BY <1>1 DEF OpToRel
<1> QED BY <1>2

(* The equation that defines the loop of Later.                             *)
Body(s, c, f) ==
  [n \in 0 .. Len(s) |->
     IF n = 0 THEN <<>> ELSE IF s[n] > c THEN Append(f[n - 1], s[n]) ELSE f[n - 1]]

Loop(s, c, f) == f = Body(s, c, f)

LEMMA OneLoop ==
  ASSUME NEW s \in Seq(Int), NEW c \in Int, NEW f, NEW g, Loop(s, c, f), Loop(s, c, g)
  PROVE  f = g
<1> DEFINE D == 0 .. Len(s)
           T == {n \in D : f[n] # g[n]}
<1>1. f = Body(s, c, f) /\ g = Body(s, c, g) /\ D \subseteq Nat
  BY DEF Loop
<1>2. T = {}
  <2>1. SUFFICES ASSUME T # {} PROVE FALSE
    OBVIOUS
  <2>2. T \subseteq Nat
    BY <1>1
  <2>3. PICK n \in T : \A m \in T : n <= m
    <3> HIDE DEF T
    <3> QED BY <2>1, <2>2, LeastNat
  <2>4. n \in D /\ n \in Nat /\ f[n] # g[n]
    BY <1>1
  <2>5. CASE n = 0
    <3>1. Body(s, c, f)[n] = <<>> /\ Body(s, c, g)[n] = <<>>
      BY <2>4, <2>5 DEF Body
    <3> QED BY <1>1, <2>4, <3>1
  <2>6. CASE n # 0
    <3>1. n - 1 \in D /\ ~(n <= n - 1)
      BY <2>4, <2>6
    <3>2. f[n - 1] = g[n - 1]
      BY <2>3, <3>1
    <3>3. Body(s, c, f)[n] = Body(s, c, g)[n]
      BY <2>4, <2>6, <3>2 DEF Body
    <3> QED BY <1>1, <2>4, <3>3
  <2> QED BY <2>5, <2>6
<1>3. \A n \in D : f[n] = g[n]
  BY <1>2
<1>4. f = [n \in D |-> f[n]] /\ g = [n \in D |-> g[n]]
  <2>1. /\ Body(s, c, f) = [n \in D |-> Body(s, c, f)[n]]
        /\ Body(s, c, g) = [n \in D |-> Body(s, c, g)[n]]
    BY DEF Body
  <2> HIDE DEF D
  <2> QED BY <1>1, <2>1
<1> HIDE DEF D
<1> QED BY <1>3, <1>4

LEMMA LaterIs ==
  ASSUME NEW s \in Seq(Int), NEW c \in Int, NEW f, Loop(s, c, f)
  PROVE  Later(s, c) = f[Len(s)]
<1> DEFINE g == CHOOSE g : Loop(s, c, g)
<1>1. Loop(s, c, g)
  OBVIOUS
<1>2. g = f
  <2> HIDE DEF g
  <2> QED BY <1>1, OneLoop
<1>3. Later(s, c) = g[Len(s)]
  BY DEF Later, Loop, Body
<1> QED BY <1>2, <1>3

(* Of times in their order, the later ones are the last ones.               *)
Splits(s, c, j) ==
  /\ j \in 0 .. Len(s)
  /\ \A i \in 1 .. Len(s) : (i <= j => s[i] <= c) /\ (i > j => s[i] > c)

Rest(s, j) == SubSeq(s, j + 1, Len(s))

LEMMA LaterIsRest ==
  ASSUME NEW s \in Seq(Int), NEW c \in Int, NEW j, Splits(s, c, j)
  PROVE  Later(s, c) = Rest(s, j)
<1> DEFINE D == 0 .. Len(s)
           f == [n \in D |-> SubSeq(s, j + 1, n)]
<1>1. Len(s) \in Nat /\ j \in 0 .. Len(s) /\ \A i \in 1 .. Len(s) : s[i] \in Int
  BY ElementOfSeq DEF Splits
<1>2. ASSUME NEW n \in D PROVE f[n] = Body(s, c, f)[n]
  <2>1. f[n] = SubSeq(s, j + 1, n)
    OBVIOUS
  <2>2. CASE n <= j
    <3>1. f[n] = <<>>
      BY <1>1, <2>1, <2>2, SubSeqEmpty
    <3>2. CASE n = 0
      BY <3>1, <3>2 DEF Body
    <3>3. CASE n # 0
      <4>1. n - 1 \in D /\ n - 1 <= j /\ n \in 1 .. Len(s)
        BY <1>1, <2>2, <3>3
      <4>2. f[n - 1] = SubSeq(s, j + 1, n - 1)
        BY <4>1
      <4>3. f[n - 1] = <<>>
        BY <1>1, <4>1, <4>2, SubSeqEmpty
      <4>4. ~(s[n] > c)
        BY <1>1, <2>2, <4>1 DEF Splits
      <4>5. Body(s, c, f)[n] = f[n - 1]
        BY <3>3, <4>4 DEF Body
      <4> QED BY <3>1, <4>3, <4>5
    <3> QED BY <3>2, <3>3
  <2>3. CASE n > j
    <3>1. n # 0 /\ n - 1 \in D /\ n \in 1 .. Len(s) /\ j + 1 \in 1 .. Len(s) /\ n \in j + 1 .. Len(s)
      BY <1>1, <2>3
    <3>2. s[n] > c /\ s[n] \in Int
      BY <1>1, <2>3, <3>1 DEF Splits
    <3>3. f[n - 1] = SubSeq(s, j + 1, n - 1)
      BY <3>1
    <3>4. SubSeq(s, j + 1, n) = SubSeq(s, j + 1, n - 1) \o <<s[n]>>
      BY <3>1, SubSeqRecursiveSecond
    <3>5. SubSeq(s, j + 1, n - 1) \in Seq(Int)
      <4>1. \A i \in j + 1 .. n - 1 : s[i] \in Int
        BY <1>1, <3>1
      <4>2. j + 1 \in Int /\ n - 1 \in Int
        BY <1>1
      <4> QED BY <4>1, <4>2, SubSeqProperties
    <3>6. Append(SubSeq(s, j + 1, n - 1), s[n]) = SubSeq(s, j + 1, n - 1) \o <<s[n]>>
      BY <3>2, <3>5, AppendIsConcat
    <3>7. Body(s, c, f)[n] = Append(f[n - 1], s[n])
      BY <3>1, <3>2 DEF Body
    <3> QED BY <2>1, <3>3, <3>4, <3>6, <3>7
  <2> QED BY <1>1, <2>2, <2>3
<1>3. Loop(s, c, f)
  <2>1. f = [n \in D |-> f[n]]
    OBVIOUS
  <2>2. Body(s, c, f) = [n \in D |-> Body(s, c, f)[n]]
    BY DEF Body
  <2> HIDE DEF f, D
  <2> QED BY <1>2, <2>1, <2>2 DEF Loop
<1>4. f[Len(s)] = SubSeq(s, j + 1, Len(s))
  BY <1>1
<1> HIDE DEF f
<1> QED BY <1>3, <1>4, LaterIs DEF Rest

LEMMA RestIs ==
  ASSUME NEW s \in Seq(Int), NEW j \in 0 .. Len(s)
  PROVE  /\ Rest(s, j) \in Seq(Int) /\ Len(Rest(s, j)) = Len(s) - j
         /\ \A i \in 1 .. Len(s) - j : Rest(s, j)[i] = s[j + i] /\ j + i \in 1 .. Len(s)
<1>1. Len(s) \in Nat /\ j + 1 \in Int /\ Len(s) \in Int /\ \A i \in j + 1 .. Len(s) : s[i] \in Int
  BY ElementOfSeq
<1>2. /\ SubSeq(s, j + 1, Len(s)) \in Seq(Int)
      /\ Len(SubSeq(s, j + 1, Len(s))) =
           IF j + 1 <= Len(s) THEN Len(s) - (j + 1) + 1 ELSE 0
      /\ \A i \in 1 .. Len(s) - (j + 1) + 1 : SubSeq(s, j + 1, Len(s))[i] = s[j + 1 + i - 1]
  BY <1>1, SubSeqProperties
<1>3. Len(Rest(s, j)) = Len(s) - j
  BY <1>1, <1>2 DEF Rest
<1>4. ASSUME NEW i \in 1 .. Len(s) - j PROVE Rest(s, j)[i] = s[j + i] /\ j + i \in 1 .. Len(s)
  <2>1. i \in 1 .. Len(s) - (j + 1) + 1 /\ j + 1 + i - 1 = j + i /\ j + i \in 1 .. Len(s)
    BY <1>1
  <2>2. SubSeq(s, j + 1, Len(s))[i] = s[j + 1 + i - 1]
    BY <1>2, <2>1
  <2> QED BY <2>1, <2>2 DEF Rest
<1> QED BY <1>2, <1>3, <1>4 DEF Rest

Ordered(s) == \A i, j \in 1 .. Len(s) : i < j => s[i] <= s[j]

LEMMA SplitExists ==
  ASSUME NEW s \in Seq(Int), NEW c \in Int, Ordered(s)
  PROVE  \E j : Splits(s, c, j)
<1> DEFINE T == {n \in 1 .. Len(s) + 1 : n = Len(s) + 1 \/ s[n] > c}
<1>1. Len(s) \in Nat /\ \A i \in 1 .. Len(s) : s[i] \in Int
  BY ElementOfSeq
<1>2. Len(s) + 1 \in T /\ T \subseteq Nat
  BY <1>1
<1>3. PICK n \in T : \A m \in T : n <= m
  <2> HIDE DEF T
  <2> QED BY <1>2, LeastNat
<1>4. n - 1 \in 0 .. Len(s) /\ n \in 1 .. Len(s) + 1
  BY <1>1
<1>5. ASSUME NEW i \in 1 .. Len(s) PROVE (i <= n - 1 => s[i] <= c) /\ (i > n - 1 => s[i] > c)
  <2>1. CASE i <= n - 1
    <3>1. i \notin T
      <4> HIDE DEF T
      <4> QED BY <1>3, <1>4, <2>1
    <3> QED BY <1>1, <1>4, <2>1, <3>1
  <2>2. CASE i > n - 1
    <3>1. n \in 1 .. Len(s) /\ n <= i
      BY <1>1, <1>4, <2>2
    <3>2. s[n] > c /\ s[n] \in Int /\ s[i] \in Int
      BY <1>1, <3>1
    <3>3. s[n] <= s[i]
      BY <3>1, <3>2 DEF Ordered
    <3> QED BY <1>1, <1>4, <2>2, <3>2, <3>3
  <2> QED BY <1>1, <1>4, <2>1, <2>2
<1> QED BY <1>4, <1>5 DEF Splits

(* What is later than both of two cutoffs is later than the later.          *)
LEMMA LaterOfLater ==
  ASSUME NEW s \in Seq(Int), NEW a \in Int, NEW b \in Int, a <= b, Ordered(s)
  PROVE  Later(Later(s, a), b) = Later(s, b)
<1>1. PICK i : Splits(s, a, i)
  BY SplitExists
<1>2. PICK j : Splits(s, b, j)
  BY SplitExists
<1> DEFINE t == Rest(s, i)
<1>3. /\ Len(s) \in Nat /\ i \in 0 .. Len(s) /\ j \in 0 .. Len(s)
      /\ \A k \in 1 .. Len(s) : s[k] \in Int
  BY <1>1, <1>2, ElementOfSeq DEF Splits
<1>4. i <= j
  <2>1. SUFFICES ASSUME j < i PROVE FALSE
    BY <1>3
  <2>2. i \in 1 .. Len(s) /\ i <= i /\ i > j
    BY <1>3, <2>1
  <2>3. s[i] <= a
    BY <1>1, <2>2 DEF Splits
  <2>4. s[i] > b
    BY <1>2, <2>2 DEF Splits
  <2> QED BY <1>3, <2>2, <2>3, <2>4
<1>5. Later(s, a) = t /\ Later(s, b) = Rest(s, j)
  BY <1>1, <1>2, LaterIsRest
<1>6. /\ t \in Seq(Int) /\ Len(t) = Len(s) - i
      /\ \A k \in 1 .. Len(s) - i : t[k] = s[i + k] /\ i + k \in 1 .. Len(s)
  BY <1>3, RestIs
<1> HIDE DEF t
<1>7. Splits(t, b, j - i)
  <2>1. j - i \in 0 .. Len(t)
    BY <1>3, <1>4, <1>6
  <2>2. ASSUME NEW k \in 1 .. Len(t) PROVE (k <= j - i => t[k] <= b) /\ (k > j - i => t[k] > b)
    <3>1. k \in 1 .. Len(s) - i
      BY <1>6
    <3>2. t[k] = s[i + k] /\ i + k \in 1 .. Len(s)
      BY <1>6, <3>1
    <3>3. (i + k <= j => s[i + k] <= b) /\ (i + k > j => s[i + k] > b)
      BY <1>2, <3>2 DEF Splits
    <3>4. (k <= j - i <=> i + k <= j) /\ (k > j - i <=> i + k > j)
      BY <1>3, <3>1
    <3> QED BY <3>2, <3>3, <3>4
  <2> QED BY <2>1, <2>2 DEF Splits
<1>8. Later(t, b) = Rest(t, j - i)
  BY <1>6, <1>7, LaterIsRest
<1>9. Rest(t, j - i) = Rest(s, j)
  <2>1. j - i \in 0 .. Len(t)
    BY <1>7 DEF Splits
  <2>2. /\ Rest(t, j - i) \in Seq(Int) /\ Len(Rest(t, j - i)) = Len(t) - (j - i)
        /\ \A k \in 1 .. Len(t) - (j - i) :
             Rest(t, j - i)[k] = t[j - i + k] /\ j - i + k \in 1 .. Len(t)
    BY <1>6, <2>1, RestIs
  <2>3. /\ Rest(s, j) \in Seq(Int) /\ Len(Rest(s, j)) = Len(s) - j
        /\ \A k \in 1 .. Len(s) - j : Rest(s, j)[k] = s[j + k]
    BY <1>3, RestIs
  <2>4. Len(t) - (j - i) = Len(s) - j
    BY <1>3, <1>6
  <2>5. ASSUME NEW k \in 1 .. Len(s) - j PROVE Rest(t, j - i)[k] = Rest(s, j)[k]
    <3>1. Rest(t, j - i)[k] = t[j - i + k] /\ j - i + k \in 1 .. Len(s) - i
      BY <1>6, <2>2, <2>4
    <3>2. t[j - i + k] = s[i + (j - i + k)]
      BY <1>6, <3>1
    <3>3. i + (j - i + k) = j + k
      BY <1>3
    <3> QED BY <2>3, <3>1, <3>2, <3>3
  <2> QED BY <2>2, <2>3, <2>4, <2>5, SeqEqual
<1> QED BY <1>5, <1>8, <1>9

(* Nothing is dropped when all is later, and all when nothing is.           *)
LEMMA AllLater ==
  ASSUME NEW s \in Seq(Int), NEW c \in Int, \A i \in 1 .. Len(s) : s[i] > c
  PROVE  Later(s, c) = s
<1>1. Len(s) \in Nat /\ \A i \in 1 .. Len(s) : s[i] \in Int
  BY ElementOfSeq
<1>2. Splits(s, c, 0)
  BY <1>1 DEF Splits
<1>3. Later(s, c) = SubSeq(s, 0 + 1, Len(s))
  BY <1>2, LaterIsRest DEF Rest
<1> QED BY <1>3, SubSeqFull

LEMMA NoneLater ==
  ASSUME NEW s \in Seq(Int), NEW c \in Int, \A i \in 1 .. Len(s) : s[i] <= c
  PROVE  Later(s, c) = <<>>
<1>1. Len(s) \in Nat /\ \A i \in 1 .. Len(s) : s[i] \in Int
  BY ElementOfSeq
<1>2. Splits(s, c, Len(s))
  BY <1>1 DEF Splits
<1>3. Later(s, c) = SubSeq(s, Len(s) + 1, Len(s))
  BY <1>2, LaterIsRest DEF Rest
<1> QED BY <1>1, <1>3, SubSeqEmpty

-----------------------------------------------------------------------------
(* While a denial stands, its window is full and begins at the request      *)
(* whose end was announced.                                                 *)
DueIsHead ==
  \A k \in Key \cap DOMAIN windows : due[k] # -1 =>
    Len(windows[k]) = limit /\ windows[k][1] + duration = due[k]

WInv == now \in Time /\ WindowTypeOK /\ DueIsHead

LEMMA RequestsAre ==
  ASSUME WInv, NEW k \in Key
  PROVE  /\ Requests(k) \in Seq(Int) /\ Requests(k) \in Seq(0 .. now)
         /\ Ordered(Requests(k)) /\ Len(Requests(k)) \in Nat /\ Len(Requests(k)) <= limit
         /\ now \in Nat /\ now - duration \in Int
         /\ k \in DOMAIN windows => Requests(k) = windows[k]
         /\ k \notin DOMAIN windows => Requests(k) = <<>>
<1>1. now \in Nat /\ now - duration \in Int /\ 0 .. now \subseteq Int
  BY DEF WInv, Time
<1>2. CASE k \in DOMAIN windows
  <2>1. Requests(k) = windows[k]
    BY <1>2 DEF Requests
  <2>2. /\ windows[k] \in Seq(0 .. now) /\ Len(windows[k]) <= limit
        /\ \A i, j \in DOMAIN windows[k] : i < j => windows[k][i] <= windows[k][j]
    BY <1>2 DEF WInv, WindowTypeOK
  <2>3. windows[k] \in Seq(Int)
    BY <1>1, <2>2, SeqMonotonic
  <2>4. DOMAIN windows[k] = 1 .. Len(windows[k]) /\ Len(windows[k]) \in Nat
    BY <2>2
  <2>5. Ordered(windows[k])
    BY <2>2, <2>4 DEF Ordered
  <2> QED BY <1>1, <1>2, <2>1, <2>2, <2>3, <2>4, <2>5
<1>3. CASE k \notin DOMAIN windows
  <2>1. Requests(k) = <<>>
    BY <1>3 DEF Requests
  <2>2. <<>> \in Seq(Int) /\ <<>> \in Seq(0 .. now) /\ Len(<<>>) = 0
    BY EmptySeq
  <2>3. Ordered(<<>>)
    BY <2>2 DEF Ordered
  <2> QED BY <1>1, <1>3, <2>1, <2>2, <2>3
<1> QED BY <1>2, <1>3

LEMMA ValidAre ==
  ASSUME WInv, NEW k \in Key
  PROVE  /\ ValidRequests(k) \in Seq(Int) /\ ValidRequests(k) \in Seq(0 .. now)
         /\ Ordered(ValidRequests(k))
         /\ Len(ValidRequests(k)) \in Nat /\ Len(ValidRequests(k)) <= limit
         /\ \A i \in 1 .. Len(ValidRequests(k)) : ValidRequests(k)[i] > now - duration
         /\ Len(ValidRequests(k)) >= limit =>
              k \in DOMAIN windows /\ ValidRequests(k) = windows[k]
<1> DEFINE s == Requests(k)
           c == now - duration
           v == ValidRequests(k)
<1>1. /\ s \in Seq(Int) /\ s \in Seq(0 .. now) /\ Ordered(s) /\ Len(s) \in Nat /\ Len(s) <= limit
      /\ now \in Nat /\ c \in Int
      /\ k \in DOMAIN windows => s = windows[k]
      /\ k \notin DOMAIN windows => s = <<>>
  BY RequestsAre
<1>2. v = Later(s, c)
  BY DEF ValidRequests
<1> HIDE DEF s, c, v
<1>3. PICK j : Splits(s, c, j)
  BY <1>1, SplitExists
<1>4. v = Rest(s, j) /\ j \in 0 .. Len(s)
  BY <1>1, <1>2, <1>3, LaterIsRest DEF Splits
<1>5. /\ v \in Seq(Int) /\ Len(v) = Len(s) - j
      /\ \A i \in 1 .. Len(s) - j : v[i] = s[j + i] /\ j + i \in 1 .. Len(s)
  BY <1>1, <1>4, RestIs
<1>6. Len(v) \in Nat /\ Len(v) <= limit
  BY <1>1, <1>4, <1>5
<1>7. v \in Seq(0 .. now)
  <2>1. \A i \in j + 1 .. Len(s) : s[i] \in 0 .. now
    BY <1>1, <1>4, ElementOfSeq
  <2>2. j + 1 \in Int /\ Len(s) \in Int
    BY <1>1, <1>4
  <2> QED BY <1>4, <2>1, <2>2, SubSeqProperties DEF Rest
<1>8. Ordered(v)
  <2>1. ASSUME NEW a \in 1 .. Len(v), NEW b \in 1 .. Len(v), a < b PROVE v[a] <= v[b]
    <3>1. j + a \in 1 .. Len(s) /\ j + b \in 1 .. Len(s) /\ j + a < j + b
      BY <1>1, <1>4, <1>5, <2>1
    <3>2. v[a] = s[j + a] /\ v[b] = s[j + b]
      BY <1>5
    <3> QED BY <1>1, <3>1, <3>2 DEF Ordered
  <2> QED BY <2>1 DEF Ordered
<1>9. ASSUME NEW i \in 1 .. Len(v) PROVE v[i] > c
  <2>1. v[i] = s[j + i] /\ j + i \in 1 .. Len(s) /\ j + i > j
    BY <1>1, <1>4, <1>5
  <2> QED BY <1>3, <2>1 DEF Splits
<1>10. ASSUME Len(v) >= limit PROVE k \in DOMAIN windows /\ v = windows[k]
  <2>1. j = 0 /\ Len(s) >= 1
    BY <1>1, <1>4, <1>5, <1>10
  <2>2. v = SubSeq(s, 0 + 1, Len(s))
    BY <1>4, <2>1 DEF Rest
  <2>3. v = s
    BY <1>1, <2>2, SubSeqFull
  <2>4. s # <<>>
    BY <2>1, EmptySeq
  <2> QED BY <1>1, <2>3, <2>4
<1> QED BY <1>5, <1>6, <1>7, <1>8, <1>9, <1>10 DEF v, c

(* Grant and deny store a list in the window of the key.                    *)
LEMMA StoreKeeps ==
  ASSUME WInv, NEW k \in Key, NEW s \in Seq(0 .. now), Len(s) <= limit, Ordered(s),
         Store(k, s), now' = now, windowRoutine' = windowRoutine,
         answer' \in [Key -> {"none", "granted", "denied", "reset"}],
         due' \in [Key -> Int], \A l \in Key \ {k} : due'[l] = due[l],
         due'[k] # -1 => Len(s) = limit /\ s[1] + duration = due'[k]
  PROVE  WInv'
<1>1. now \in Time /\ WindowTypeOK /\ DueIsHead
  BY DEF WInv
<1>2. /\ DOMAIN windows' = DOMAIN windows \cup {k} /\ windows'[k] = s
      /\ \A l \in DOMAIN windows \ {k} : windows'[l] = windows[l]
  BY DEF Store
<1>3. WindowTypeOK'
  <2>1. DOMAIN windows' \subseteq Key /\ windowRoutine' \in {"running", "stopped"}
    BY <1>1, <1>2 DEF WindowTypeOK
  <2>2. ASSUME NEW l \in DOMAIN windows'
        PROVE  /\ windows'[l] \in Seq(0 .. now') /\ Len(windows'[l]) <= limit
               /\ \A i, j \in DOMAIN windows'[l] : i < j => windows'[l][i] <= windows'[l][j]
    <3>1. CASE l = k
      <4>1. DOMAIN s = 1 .. Len(s)
        OBVIOUS
      <4> QED BY <1>2, <3>1, <4>1 DEF Ordered
    <3>2. CASE l # k
      BY <1>1, <1>2, <3>2 DEF WindowTypeOK
    <3> QED BY <3>1, <3>2
  <2> QED BY <2>1, <2>2 DEF WindowTypeOK
<1>4. DueIsHead'
  <2>1. SUFFICES ASSUME NEW l \in Key \cap DOMAIN windows', due'[l] # -1
                 PROVE  Len(windows'[l]) = limit /\ windows'[l][1] + duration = due'[l]
    BY DEF DueIsHead
  <2>2. CASE l = k
    BY <1>2, <2>1, <2>2
  <2>3. CASE l # k
    BY <1>1, <1>2, <2>1, <2>3 DEF DueIsHead
  <2> QED BY <2>2, <2>3
<1> QED BY <1>1, <1>3, <1>4 DEF WInv, Time

LEMMA AppendOrdered ==
  ASSUME NEW n \in Nat, NEW s \in Seq(0 .. n), Ordered(s)
  PROVE  /\ Append(s, n) \in Seq(0 .. n) /\ Ordered(Append(s, n))
         /\ Len(Append(s, n)) = Len(s) + 1
         /\ \A i \in 1 .. Len(s) + 1 : Append(s, n)[i] = IF i = Len(s) + 1 THEN n ELSE s[i]
<1>1. Len(s) \in Nat /\ \A i \in 1 .. Len(s) : s[i] \in 0 .. n
  BY ElementOfSeq
<1>2. Append(s, n) \in Seq(0 .. n) /\ Len(Append(s, n)) = Len(s) + 1
  OBVIOUS
<1>3. \A i \in 1 .. Len(s) + 1 : Append(s, n)[i] = IF i = Len(s) + 1 THEN n ELSE s[i]
  OBVIOUS
<1>4. ASSUME NEW i \in 1 .. Len(s) + 1, NEW j \in 1 .. Len(s) + 1, i < j
      PROVE  Append(s, n)[i] <= Append(s, n)[j]
  <2>1. i \in 1 .. Len(s) /\ Append(s, n)[i] = s[i] /\ s[i] <= n
    BY <1>1, <1>3, <1>4
  <2>2. CASE j = Len(s) + 1
    BY <1>3, <2>1, <2>2
  <2>3. CASE j # Len(s) + 1
    <3>1. j \in 1 .. Len(s) /\ Append(s, n)[j] = s[j]
      BY <1>1, <1>3, <2>3
    <3> QED BY <1>4, <2>1, <3>1 DEF Ordered
  <2> QED BY <2>2, <2>3
<1> QED BY <1>2, <1>3, <1>4 DEF Ordered

LEMMA WindowGrantKeeps == ASSUME WInv, NEW k \in Key, WindowGrant(k) PROVE WInv'
<1> DEFINE v == ValidRequests(k)
<1>1. /\ Len(v) < limit /\ Store(k, Append(v, now))
      /\ answer' = [answer EXCEPT ![k] = "granted"] /\ due' = [due EXCEPT ![k] = -1]
      /\ now' = now /\ windowRoutine' = windowRoutine
  BY DEF WindowGrant
<1>2. v \in Seq(0 .. now) /\ Ordered(v) /\ Len(v) \in Nat /\ now \in Nat
  BY ValidAre, RequestsAre
<1> HIDE DEF v
<1>3. /\ Append(v, now) \in Seq(0 .. now) /\ Ordered(Append(v, now))
      /\ Len(Append(v, now)) <= limit
  BY <1>1, <1>2, AppendOrdered
<1>4. /\ answer' \in [Key -> {"none", "granted", "denied", "reset"}] /\ due' \in [Key -> Int]
      /\ due'[k] = -1 /\ \A l \in Key \ {k} : due'[l] = due[l]
  BY <1>1 DEF WInv, WindowTypeOK
<1> QED BY <1>1, <1>3, <1>4, StoreKeeps

LEMMA WindowDenyKeeps == ASSUME WInv, NEW k \in Key, WindowDeny(k) PROVE WInv'
<1> DEFINE v == ValidRequests(k)
<1>1. /\ Len(v) >= limit /\ Store(k, v)
      /\ answer' = [answer EXCEPT ![k] = "denied"] /\ due' = [due EXCEPT ![k] = v[1] + duration]
      /\ now' = now /\ windowRoutine' = windowRoutine
  BY DEF WindowDeny, ResetTime
<1>2. v \in Seq(0 .. now) /\ Ordered(v) /\ Len(v) \in Nat /\ Len(v) <= limit /\ now \in Nat
  BY ValidAre, RequestsAre
<1> HIDE DEF v
<1>3. Len(v) = limit /\ 1 \in 1 .. Len(v)
  BY <1>1, <1>2
<1>4. v[1] \in 0 .. now /\ v[1] + duration \in Int
  BY <1>2, <1>3, ElementOfSeq
<1>5. /\ answer' \in [Key -> {"none", "granted", "denied", "reset"}] /\ due' \in [Key -> Int]
      /\ due'[k] = v[1] + duration /\ \A l \in Key \ {k} : due'[l] = due[l]
  BY <1>1, <1>4 DEF WInv, WindowTypeOK
<1> QED BY <1>1, <1>2, <1>3, <1>5, StoreKeeps

(* Reset and the cleanup forget windows.                                    *)
LEMMA ForgetKeeps ==
  ASSUME WInv, NEW Kept, Kept \subseteq DOMAIN windows, windows' = Restrict(windows, Kept),
         now' = now, windowRoutine' = windowRoutine,
         answer' \in [Key -> {"none", "granted", "denied", "reset"}],
         due' \in [Key -> Int], \A l \in Key \cap Kept : due'[l] = due[l]
  PROVE  WInv'
<1>1. now \in Time /\ WindowTypeOK /\ DueIsHead
  BY DEF WInv
<1>2. DOMAIN windows' = Kept /\ \A l \in Kept : windows'[l] = windows[l]
  BY DEF Restrict
<1>3. WindowTypeOK'
  BY <1>1, <1>2 DEF WindowTypeOK
<1>4. DueIsHead'
  BY <1>1, <1>2 DEF DueIsHead
<1> QED BY <1>1, <1>3, <1>4 DEF WInv, Time

LEMMA WindowTickKeeps == ASSUME WInv, WindowTick PROVE WInv'
<1>1. now \in Time /\ WindowTypeOK /\ DueIsHead
  BY DEF WInv
<1>2. /\ now' = now + 1 /\ now' \in Time
      /\ windows' = windows /\ windowRoutine' = windowRoutine /\ answer' = answer /\ due' = due
  BY <1>1 DEF WindowTick, Advance, windowVars, Time
<1>3. 0 .. now \subseteq 0 .. now'
  BY <1>1, <1>2 DEF Time
<1>4. \A l \in DOMAIN windows : windows[l] \in Seq(0 .. now')
  BY <1>1, <1>3, SeqMonotonic DEF WindowTypeOK
<1>5. WindowTypeOK'
  BY <1>1, <1>2, <1>4 DEF WindowTypeOK
<1>6. DueIsHead'
  BY <1>1, <1>2 DEF DueIsHead
<1> QED BY <1>2, <1>5, <1>6 DEF WInv, Time

LEMMA WindowSame ==
  ASSUME WInv, windows' = windows, now' = now, answer' = answer, due' = due,
         windowRoutine' \in {"running", "stopped"}
  PROVE  WInv'
BY DEF WInv, WindowTypeOK, DueIsHead, Time

LEMMA WindowInitInv == ASSUME now = 0, WindowInit PROVE WInv
<1>1. now \in Time
  BY DEF Time
<1>2. DOMAIN windows = {}
  BY DEF WindowInit
<1> QED BY <1>1, <1>2 DEF WInv, WindowTypeOK, DueIsHead, WindowInit

LEMMA WindowInvariance == WindowSpec => []WInv
<1>1. now = 0 /\ WindowInit => WInv
  BY WindowInitInv
<1>2. WInv /\ [WindowNext]_<<now, windowVars>> => WInv'
  <2> SUFFICES ASSUME WInv, [WindowNext]_<<now, windowVars>> PROVE WInv'
    OBVIOUS
  <2>1. ASSUME NEW k \in Key, WindowGrant(k) PROVE WInv'
    BY <2>1, WindowGrantKeeps
  <2>2. ASSUME NEW k \in Key, WindowDeny(k) PROVE WInv'
    BY <2>2, WindowDenyKeeps
  <2>3. ASSUME NEW k \in Key, WindowReset(k) PROVE WInv'
    <3>1. DOMAIN windows \ {k} \subseteq DOMAIN windows
      OBVIOUS
    <3>2. answer' \in [Key -> {"none", "granted", "denied", "reset"}] /\ due' \in [Key -> Int]
      BY <2>3 DEF WindowReset, WInv, WindowTypeOK
    <3>3. \A l \in Key \cap (DOMAIN windows \ {k}) : due'[l] = due[l]
      BY <2>3 DEF WindowReset, WInv, WindowTypeOK
    <3> QED BY <2>3, <3>1, <3>2, <3>3, ForgetKeeps DEF WindowReset
  <2>4. CASE windowCleanUp
    <3> DEFINE Kept == {k \in DOMAIN windows :
                          windows[k] # <<>> /\ Last(windows[k]) >= now - windowCleanup}
    <3>1. /\ windows' = Restrict(windows, Kept)
          /\ UNCHANGED <<now, windowRoutine, answer, due>>
      BY <2>4 DEF windowCleanUp
    <3>2. Kept \subseteq DOMAIN windows
      OBVIOUS
    <3>3. answer' \in [Key -> {"none", "granted", "denied", "reset"}] /\ due' \in [Key -> Int]
      BY <3>1 DEF WInv, WindowTypeOK
    <3> HIDE DEF Kept
    <3> QED BY <3>1, <3>2, <3>3, ForgetKeeps
  <2>5. CASE WindowStop
    BY <2>5, WindowSame DEF WindowStop
  <2>6. CASE WindowTick
    BY <2>6, WindowTickKeeps
  <2>7. CASE UNCHANGED <<now, windowVars>>
    <3>1. windowRoutine' \in {"running", "stopped"}
      BY <2>7 DEF WInv, WindowTypeOK, windowVars
    <3> QED BY <2>7, <3>1, WindowSame DEF windowVars
  <2> QED BY <2>1, <2>2, <2>3, <2>4, <2>5, <2>6, <2>7 DEF WindowNext
<1> QED BY <1>1, <1>2, PTL DEF WindowSpec

LEMMA WindowKeepsPromise == ASSUME WInv, NEW k \in Key PROVE WindowResetHonoured(k)
<1>1. SUFFICES ASSUME WindowDeny(k), due[k] # -1 PROVE now < due[k]
  BY DEF WindowResetHonoured
<1> DEFINE v == ValidRequests(k)
<1>2. Len(v) >= limit
  BY <1>1 DEF WindowDeny
<1>3. /\ k \in DOMAIN windows /\ v = windows[k] /\ Len(v) \in Nat
      /\ \A i \in 1 .. Len(v) : v[i] > now - duration
      /\ v \in Seq(0 .. now) /\ now \in Nat
  BY <1>2, ValidAre, RequestsAre
<1>4. v[1] + duration = due[k]
  BY <1>1, <1>3 DEF WInv, DueIsHead
<1> HIDE DEF v
<1>5. 1 \in 1 .. Len(v)
  BY <1>2, <1>3
<1>6. v[1] > now - duration /\ v[1] \in 0 .. now
  BY <1>3, <1>5, ElementOfSeq
<1> QED BY <1>3, <1>4, <1>6

(* The same of the sliding window: a client that comes back at the reset   *)
(* time of its last denial is not denied, unless another request of its    *)
(* key was allowed meanwhile.                                              *)
THEOREM WindowHonoursReset ==
  WindowSpec => [][\A k \in Key : WindowResetHonoured(k)]_<<now, windowVars>>
<1>1. WInv => [\A k \in Key : WindowResetHonoured(k)]_<<now, windowVars>>
  BY WindowKeepsPromise
<1> QED BY <1>1, WindowInvariance, PTL

-----------------------------------------------------------------------------
LEMMA GrantAllows == ASSUME WInv, NEW k \in Key, WindowGrant(k) PROVE Promised!Allow(k)
<1> DEFINE v == ValidRequests(k)
           s == Append(v, now)
<1>1. /\ Len(v) < limit /\ Store(k, s)
      /\ answer' = [answer EXCEPT ![k] = "granted"] /\ now' = now
  BY DEF WindowGrant
<1>2. /\ v \in Seq(Int) /\ v \in Seq(0 .. now) /\ Ordered(v) /\ Len(v) \in Nat /\ now \in Nat
      /\ \A i \in 1 .. Len(v) : v[i] > now - duration
  BY ValidAre, RequestsAre
<1>3. \A l \in Key : Requests(l)' = IF l = k THEN s ELSE Requests(l)
  BY <1>1 DEF Store, Requests
<1>4. Later(s, now - duration) = s
  <2> HIDE DEF v
  <2>1. /\ s \in Seq(Int) /\ Len(s) = Len(v) + 1
        /\ \A i \in 1 .. Len(v) + 1 : s[i] = IF i = Len(v) + 1 THEN now ELSE v[i]
    <3>1. now \in Int /\ v \in Seq(Int)
      BY <1>2
    <3> QED BY <1>2, <3>1, AppendOrdered, AppendProperties
  <2> HIDE DEF s
  <2>2. ASSUME NEW i \in 1 .. Len(s) PROVE s[i] > now - duration
    <3>1. CASE i = Len(v) + 1
      BY <1>2, <2>1, <3>1
    <3>2. CASE i # Len(v) + 1
      <4>1. i \in 1 .. Len(v) /\ s[i] = v[i]
        BY <1>2, <2>1, <3>2
      <4> QED BY <1>2, <4>1
    <3> QED BY <3>1, <3>2
  <2>3. now - duration \in Int
    BY <1>2
  <2> QED BY <2>1, <2>2, <2>3, AllLater
<1>5. Recent' = [Recent EXCEPT ![k] = s]
  <2>1. \A l \in Key : ValidRequests(l)' = IF l = k THEN s ELSE ValidRequests(l)
    BY <1>1, <1>3, <1>4 DEF ValidRequests
  <2> HIDE DEF s
  <2> QED BY <2>1 DEF Recent, ValidRequests
<1>6. Recent[k] = v
  BY DEF Recent, ValidRequests
<1>7. /\ Len(Recent[k]) < limit /\ Recent' = [Recent EXCEPT ![k] = Append(@, now)]
      /\ answer' = [answer EXCEPT ![k] = "granted"] /\ UNCHANGED now
  <2> HIDE DEF v
  <2> QED BY <1>1, <1>5, <1>6
<1> QED BY <1>7 DEF Promised!Allow

LEMMA DenyRefuses == ASSUME WInv, NEW k \in Key, WindowDeny(k) PROVE Promised!Refuse(k)
<1> DEFINE v == ValidRequests(k)
<1>1. /\ Len(v) >= limit /\ Store(k, v)
      /\ answer' = [answer EXCEPT ![k] = "denied"] /\ now' = now
  BY DEF WindowDeny
<1>2. /\ v \in Seq(Int) /\ Len(v) \in Nat /\ Len(v) <= limit /\ now - duration \in Int
      /\ \A i \in 1 .. Len(v) : v[i] > now - duration
  BY ValidAre, RequestsAre
<1>3. \A l \in Key : Requests(l)' = IF l = k THEN v ELSE Requests(l)
  BY <1>1 DEF Store, Requests
<1>4. Later(v, now - duration) = v
  <2> HIDE DEF v
  <2> QED BY <1>2, AllLater
<1>5. Recent' = Recent
  <2>1. \A l \in Key : ValidRequests(l)' = ValidRequests(l)
    BY <1>1, <1>3, <1>4 DEF ValidRequests
  <2> QED BY <2>1 DEF Recent, ValidRequests
<1>6. Len(Recent[k]) = limit
  <2>1. Recent[k] = v
    BY DEF Recent, ValidRequests
  <2> HIDE DEF v
  <2> QED BY <1>1, <1>2, <2>1
<1> QED BY <1>1, <1>5, <1>6 DEF Promised!Refuse

LEMMA NothingRecent == ASSUME WInv PROVE Later(<<>>, now - duration) = <<>>
<1>1. <<>> \in Seq(Int) /\ Len(<<>>) = 0 /\ now - duration \in Int
  BY EmptySeq DEF WInv, Time
<1> DEFINE e == <<>>
<1>2. e \in Seq(Int) /\ \A i \in 1 .. Len(e) : e[i] <= now - duration
  BY <1>1
<1> HIDE DEF e
<1>3. Later(e, now - duration) = <<>>
  BY <1>1, <1>2, NoneLater
<1> QED BY <1>3 DEF e

LEMMA ResetForgets == ASSUME WInv, NEW k \in Key, WindowReset(k) PROVE Promised!Forget(k)
<1>1. /\ windows' = Restrict(windows, DOMAIN windows \ {k})
      /\ answer' = [answer EXCEPT ![k] = "reset"] /\ now' = now
  BY DEF WindowReset
<1>2. \A l \in Key : Requests(l)' = IF l = k THEN <<>> ELSE Requests(l)
  BY <1>1 DEF Restrict, Requests
<1>3. \A l \in Key : ValidRequests(l)' = IF l = k THEN <<>> ELSE ValidRequests(l)
  BY <1>1, <1>2, NothingRecent DEF ValidRequests
<1>4. Recent' = [Recent EXCEPT ![k] = <<>>]
  BY <1>3 DEF Recent, ValidRequests
<1> QED BY <1>1, <1>4 DEF Promised!Forget

(* The cleanup forgets only windows in which nothing is recent.             *)
LEMMA CleanUpStutters == ASSUME WInv, windowCleanUp PROVE Recent' = Recent
<1> DEFINE Kept == {k \in DOMAIN windows :
                      windows[k] # <<>> /\ Last(windows[k]) >= now - windowCleanup}
<1>1. windows' = Restrict(windows, Kept) /\ now' = now
  BY DEF windowCleanUp
<1>2. ASSUME NEW k \in Key PROVE ValidRequests(k)' = ValidRequests(k)
  <2>1. CASE k \notin DOMAIN windows \/ k \in Kept
    BY <1>1, <2>1 DEF Restrict, Requests, ValidRequests
  <2>2. CASE k \in DOMAIN windows \ Kept
    <3> DEFINE s == windows[k]
    <3>1. /\ Requests(k) = s /\ s \in Seq(Int) /\ Ordered(s) /\ Len(s) \in Nat
          /\ now \in Nat /\ now - duration \in Int
      BY <2>2, RequestsAre
    <3>2. s = <<>> \/ ~(Last(s) >= now - windowCleanup)
      BY <2>2
    <3> HIDE DEF s
    <3>3. \A i \in 1 .. Len(s) : s[i] <= now - duration
      <4>1. CASE s = <<>>
        BY <4>1, EmptySeq
      <4>2. CASE s # <<>>
        <5>1. SUFFICES ASSUME NEW i \in 1 .. Len(s) PROVE s[i] <= now - duration
          OBVIOUS
        <5>2. Len(s) \in 1 .. Len(s)
          BY <3>1
        <5>3. s[i] \in Int /\ s[Len(s)] \in Int
          BY <3>1, <5>2, ElementOfSeq
        <5>4. s[Len(s)] < now - duration * 2
          BY <3>1, <3>2, <4>2, <5>3 DEF Last, windowCleanup
        <5>5. s[i] <= s[Len(s)]
          BY <3>1, <5>2, <5>3 DEF Ordered
        <5> QED BY <3>1, <5>3, <5>4, <5>5
      <4> QED BY <4>1, <4>2
    <3>4. ValidRequests(k) = <<>>
      BY <3>1, <3>3, NoneLater DEF ValidRequests
    <3>5. Requests(k)' = <<>>
      BY <1>1, <2>2 DEF Restrict, Requests
    <3> QED BY <1>1, <3>4, <3>5, NothingRecent DEF ValidRequests
  <2> QED BY <2>1, <2>2
<1> QED BY <1>2 DEF Recent, ValidRequests

LEMMA TickPasses == ASSUME WInv, WindowTick PROVE Promised!Pass
<1>1. Advance /\ now' = now + 1 /\ windows' = windows /\ answer' = answer
  BY DEF WindowTick, Advance, windowVars
<1>2. ASSUME NEW k \in Key
      PROVE  ValidRequests(k)' = Later(ValidRequests(k), now' - duration)
  <2>1. Requests(k) \in Seq(Int) /\ Ordered(Requests(k)) /\ now \in Nat
    BY RequestsAre
  <2>2. now - duration \in Int /\ now' - duration \in Int /\ now - duration <= now' - duration
    BY <1>1, <2>1
  <2>3. Later(Later(Requests(k), now - duration), now' - duration)
          = Later(Requests(k), now' - duration)
    BY <2>1, <2>2, LaterOfLater
  <2>4. Requests(k)' = Requests(k)
    BY <1>1 DEF Requests
  <2> QED BY <2>3, <2>4 DEF ValidRequests
<1>3. Recent' = [k \in Key |-> Later(Recent[k], now' - duration)]
  BY <1>2 DEF Recent, ValidRequests
<1>4. Promised!Advance
  BY <1>1 DEF Promised!Advance, Advance
<1>5. \A s, c : Promised!Later(s, c) = Later(s, c)
  BY DEF Promised!Later, Later
<1>6. Recent' = [k \in Key |-> Promised!Later(Recent[k], now' - duration)]
  BY <1>3, <1>5
<1> QED BY <1>1, <1>4, <1>6 DEF Promised!Pass

(* The sliding window keeps the promise of WindowLimit: a request is denied *)
(* exactly when as many as the limit were allowed within the duration,      *)
(* whatever is forgotten in between.                                        *)
THEOREM WindowImplementsLimit == WindowSpec => Promised!WindowLimitSpec
<1>1. now = 0 /\ WindowInit => Promised!WindowLimitInit
  <2> SUFFICES ASSUME now = 0, WindowInit PROVE Promised!WindowLimitInit
    OBVIOUS
  <2>1. WInv
    BY WindowInitInv
  <2>2. \A k \in Key : Requests(k) = <<>>
    <3>1. DOMAIN windows = {}
      BY DEF WindowInit
    <3> QED BY <3>1 DEF Requests
  <2>3. Recent = [k \in Key |-> <<>>]
    BY <2>1, <2>2, NothingRecent DEF Recent, ValidRequests
  <2>4. answer = [k \in Key |-> "none"]
    BY DEF WindowInit
  <2> QED BY <2>3, <2>4 DEF Promised!WindowLimitInit
<1>2. WInv /\ [WindowNext]_<<now, windowVars>> => [Promised!WindowLimitNext]_Promised!vars
  <2> SUFFICES ASSUME WInv, [WindowNext]_<<now, windowVars>>
               PROVE  \/ Promised!WindowLimitNext
                      \/ Recent' = Recent /\ now' = now /\ answer' = answer
    BY DEF Promised!vars
  <2>1. ASSUME NEW k \in Key, WindowGrant(k) PROVE Promised!Allow(k)
    BY <2>1, GrantAllows
  <2>2. ASSUME NEW k \in Key, WindowDeny(k) PROVE Promised!Refuse(k)
    BY <2>2, DenyRefuses
  <2>3. ASSUME NEW k \in Key, WindowReset(k) PROVE Promised!Forget(k)
    BY <2>3, ResetForgets
  <2>4. CASE windowCleanUp
    BY <2>4, CleanUpStutters DEF windowCleanUp
  <2>5. CASE WindowStop \/ UNCHANGED <<now, windowVars>>
    BY <2>5 DEF WindowStop, windowVars, Recent, ValidRequests, Requests
  <2>6. CASE WindowTick
    BY <2>6, TickPasses DEF Promised!WindowLimitNext
  <2> QED
    BY <2>1, <2>2, <2>3, <2>4, <2>5, <2>6 DEF WindowNext, Promised!WindowLimitNext
<1> QED BY <1>1, <1>2, WindowInvariance, PTL DEF WindowSpec, Promised!WindowLimitSpec

-----------------------------------------------------------------------------
(* Part 3: the monitor.                                                     *)

USE MonitorAssumption DEF MonitorAssumption

(* Every suspicious event of an address is older than a block may be.       *)
AllOld(c) == \A i \in 1 .. Len(suspected[c]) : clock - suspected[c][i] > blockDuration

(* The count of an address is of its last events; those before are old,     *)
(* since it was forgiven after them.  A block is there from the event that  *)
(* reaches the threshold, and is as old as the last event.  A visitor that  *)
(* has found a block expired keeps new events out.                          *)
Counted(c) ==
  /\ suspiciousIPs[c] <= Len(suspected[c])
  /\ \A i \in 1 .. Len(suspected[c]) - suspiciousIPs[c] :
       clock - suspected[c][i] > blockDuration

InOrder(c) == Ordered(suspected[c])

BlockIs(c) ==
  /\ c \in DOMAIN blockedIPs <=> suspiciousIPs[c] >= alertThreshold /\ suspiciousIPs[c] > 0
  /\ c \in DOMAIN blockedIPs => blockedIPs[c] = suspected[c][Len(suspected[c])]

MonitorInv ==
  /\ MonitorTypeOK
  /\ \A c \in Client : Len(suspected[c]) <= MaxSuspicious
  /\ \A c \in Client : Counted(c) /\ InOrder(c) /\ BlockIs(c)
  /\ \A v \in Visitor, c \in Client : inside[v] = c => AllOld(c)

LEMMA EventsAre ==
  ASSUME MonitorTypeOK, NEW c \in Client
  PROVE  /\ suspected[c] \in Seq(0 .. clock) /\ Len(suspected[c]) \in Nat /\ clock \in Nat
         /\ suspiciousIPs[c] \in Nat
         /\ \A i \in 1 .. Len(suspected[c]) : suspected[c][i] \in 0 .. clock
         /\ DOMAIN suspected[c] = 1 .. Len(suspected[c])
<1>1. suspected[c] \in Seq(0 .. clock) /\ clock \in Nat /\ suspiciousIPs[c] \in Nat
  BY DEF MonitorTypeOK
<1>2. \A i \in 1 .. Len(suspected[c]) : suspected[c][i] \in 0 .. clock
  BY <1>1, ElementOfSeq
<1> QED BY <1>1, <1>2

LEMMA ExpiredIsOld == ASSUME MonitorInv, NEW c \in Client, Expired(c) PROVE AllOld(c)
<1> DEFINE s == suspected[c]
           n == Len(suspected[c])
<1>1. /\ n \in Nat /\ clock \in Nat /\ suspiciousIPs[c] \in Nat
      /\ \A i \in 1 .. n : s[i] \in 0 .. clock
  BY EventsAre DEF MonitorInv
<1>2. c \in DOMAIN blockedIPs /\ clock - blockedIPs[c] > blockDuration
  BY DEF Expired
<1>3. Counted(c) /\ InOrder(c) /\ BlockIs(c)
  BY DEF MonitorInv
<1>4. suspiciousIPs[c] > 0 /\ suspiciousIPs[c] <= n /\ blockedIPs[c] = s[n]
  BY <1>2, <1>3 DEF Counted, BlockIs
<1>5. n \in 1 .. n
  BY <1>1, <1>4
<1>6. ASSUME NEW i \in 1 .. n PROVE clock - s[i] > blockDuration
  <2>1. s[i] <= s[n]
    <3>1. CASE i < n
      BY <1>3, <1>5, <3>1 DEF InOrder, Ordered
    <3>2. CASE i = n
      BY <1>1, <1>5, <3>2
    <3> QED BY <1>1, <3>1, <3>2
  <2>2. clock - s[n] > blockDuration
    BY <1>2, <1>4
  <2>3. s[i] \in Nat /\ s[n] \in Nat /\ blockDuration \in Nat
    BY <1>1, <1>5
  <2> HIDE DEF s, n
  <2> QED BY <1>1, <2>1, <2>2, <2>3
<1> QED BY <1>6 DEF AllOld

(* The block of an address that had only old events may be dropped.         *)
LEMMA ForgivenKeeps ==
  ASSUME MonitorInv, NEW cs \in SUBSET Client, \A c \in cs : AllOld(c), Forgiven(cs),
         UNCHANGED <<clock, suspected>>, fatal' \in BOOLEAN,
         inside' \in [Visitor -> {"outside", "reading"} \cup Client],
         \A v \in Visitor : inside'[v] = inside[v] \/ inside'[v] = "outside"
  PROVE  MonitorInv'
<1>1. MonitorTypeOK
  BY DEF MonitorInv
<1>2. /\ DOMAIN blockedIPs' = DOMAIN blockedIPs \ cs
      /\ \A c \in DOMAIN blockedIPs \ cs : blockedIPs'[c] = blockedIPs[c]
      /\ blockedIPs' = [c \in DOMAIN blockedIPs \ cs |-> blockedIPs[c]]
      /\ suspiciousIPs' = [c \in Client |-> IF c \in cs THEN 0 ELSE suspiciousIPs[c]]
  BY DEF Forgiven, Restrict
<1>3. MonitorTypeOK'
  <2>1. suspiciousIPs' \in [Client -> 0 .. MaxSuspicious]
    BY <1>1, <1>2 DEF MonitorTypeOK
  <2>2. DOMAIN blockedIPs' \subseteq Client
    BY <1>1, <1>2 DEF MonitorTypeOK
  <2>3. Range(blockedIPs') \subseteq 0 .. clock'
    <3>1. Range(blockedIPs) \subseteq 0 .. clock
      BY <1>1 DEF MonitorTypeOK
    <3>2. Range(blockedIPs') \subseteq Range(blockedIPs)
      BY <1>2 DEF Range
    <3> QED BY <3>1, <3>2
  <2> QED BY <1>1, <2>1, <2>2, <2>3 DEF MonitorTypeOK
<1>4. ASSUME NEW c \in Client
      PROVE  (Counted(c) /\ InOrder(c) /\ BlockIs(c))' /\ Len(suspected'[c]) <= MaxSuspicious
  <2>1. /\ Counted(c) /\ InOrder(c) /\ BlockIs(c) /\ Len(suspected[c]) <= MaxSuspicious
    BY DEF MonitorInv
  <2>2. Len(suspected[c]) \in Nat
    BY <1>1, EventsAre
  <2>3. InOrder(c)'
    BY <2>1 DEF InOrder, Ordered
  <2>4. Counted(c)'
    <3>1. CASE c \in cs
      <4>1. suspiciousIPs'[c] = 0 /\ Len(suspected[c]) - 0 = Len(suspected[c])
        BY <1>2, <2>2, <3>1
      <4>2. AllOld(c)
        BY <3>1
      <4> QED BY <2>2, <4>1, <4>2 DEF Counted, AllOld
    <3>2. CASE c \notin cs
      BY <1>2, <2>1, <3>2 DEF Counted
    <3> QED BY <3>1, <3>2
  <2>5. BlockIs(c)'
    <3>1. CASE c \in cs
      BY <1>2, <3>1 DEF BlockIs
    <3>2. CASE c \notin cs
      BY <1>2, <2>1, <3>2 DEF BlockIs
    <3> QED BY <3>1, <3>2
  <2> QED BY <2>1, <2>3, <2>4, <2>5
<1>5. ASSUME NEW v \in Visitor, NEW c \in Client, inside'[v] = c PROVE AllOld(c)'
  <2>1. inside[v] = c
    BY <1>5
  <2>2. AllOld(c)
    BY <2>1 DEF MonitorInv
  <2> QED BY <2>2 DEF AllOld
<1> QED BY <1>3, <1>4, <1>5 DEF MonitorInv

LEMMA RecordEventKeeps == ASSUME MonitorInv, NEW c \in Client, RecordEvent(c) PROVE MonitorInv'
<1> DEFINE s == suspected[c]
           n == Len(suspected[c])
           m == suspiciousIPs[c]
<1>1. /\ Unlocked /\ n < MaxSuspicious
      /\ suspiciousIPs' = [suspiciousIPs EXCEPT ![c] = m + 1]
      /\ suspected' = [suspected EXCEPT ![c] = Append(s, clock)]
      /\ blockedIPs' = IF suspiciousIPs'[c] >= alertThreshold THEN blockIP(c) ELSE blockedIPs
      /\ clock' = clock /\ inside' = inside /\ fatal' = fatal
  BY DEF RecordEvent
<1>2. MonitorTypeOK /\ Counted(c) /\ InOrder(c) /\ BlockIs(c)
  BY DEF MonitorInv
<1>3. /\ s \in Seq(0 .. clock) /\ n \in Nat /\ clock \in Nat /\ m \in Nat /\ clock \in 0 .. clock
      /\ \A i \in 1 .. n : s[i] \in 0 .. clock
  BY <1>2, EventsAre
<1>4. m <= n
  BY <1>2 DEF Counted
<1>5. /\ suspected'[c] = Append(s, clock) /\ suspiciousIPs'[c] = m + 1
      /\ \A d \in Client \ {c} : suspected'[d] = suspected[d] /\ suspiciousIPs'[d] = suspiciousIPs[d]
  BY <1>1, <1>2 DEF MonitorTypeOK
<1>6. /\ Append(s, clock) \in Seq(0 .. clock) /\ Len(Append(s, clock)) = n + 1
      /\ \A i \in 1 .. n : Append(s, clock)[i] = s[i]
      /\ Append(s, clock)[n + 1] = clock
  BY <1>3, AppendProperties
<1>7. /\ DOMAIN blockedIPs' = IF m + 1 >= alertThreshold THEN DOMAIN blockedIPs \cup {c}
                              ELSE DOMAIN blockedIPs
      /\ m + 1 >= alertThreshold => blockedIPs'[c] = clock
      /\ \A d \in DOMAIN blockedIPs \ {c} : blockedIPs'[d] = blockedIPs[d]
  BY <1>1, <1>5 DEF blockIP
<1>8. MonitorTypeOK'
  <2>1. suspiciousIPs' \in [Client -> 0 .. MaxSuspicious]
    <3>1. m + 1 \in 0 .. MaxSuspicious
      BY <1>1, <1>3, <1>4
    <3> HIDE DEF m
    <3> QED BY <1>1, <1>2, <3>1 DEF MonitorTypeOK
  <2>2. DOMAIN blockedIPs' \subseteq Client
    BY <1>2, <1>7 DEF MonitorTypeOK
  <2>3. Range(blockedIPs') \subseteq 0 .. clock'
    <3>1. \A d \in DOMAIN blockedIPs : blockedIPs[d] \in 0 .. clock
      BY <1>2 DEF MonitorTypeOK, Range
    <3>2. \A d \in DOMAIN blockedIPs' : blockedIPs'[d] \in 0 .. clock
      <4>1. \A d \in DOMAIN blockedIPs' : blockedIPs'[d] = clock \/
                (d \in DOMAIN blockedIPs /\ blockedIPs'[d] = blockedIPs[d])
        BY <1>1 DEF blockIP
      <4> QED BY <1>3, <3>1, <4>1
    <3> QED BY <1>1, <3>2 DEF Range
  <2>4. suspected' \in [Client -> Seq(0 .. clock')]
    <3> HIDE DEF s
    <3> QED BY <1>1, <1>2, <1>6 DEF MonitorTypeOK
  <2>5. inside' \in [Visitor -> {"outside", "reading"} \cup Client] /\ fatal' \in BOOLEAN
        /\ clock' \in 0 .. MaxClock
    BY <1>1, <1>2 DEF MonitorTypeOK
  <2> QED BY <2>1, <2>2, <2>3, <2>4, <2>5 DEF MonitorTypeOK
<1>9. ASSUME NEW d \in Client \ {c}
      PROVE  (Counted(d) /\ InOrder(d) /\ BlockIs(d))' /\ Len(suspected'[d]) <= MaxSuspicious
  <2>1. /\ Counted(d) /\ InOrder(d) /\ BlockIs(d) /\ Len(suspected[d]) <= MaxSuspicious
    BY DEF MonitorInv
  <2>2. suspected'[d] = suspected[d] /\ suspiciousIPs'[d] = suspiciousIPs[d]
    BY <1>5
  <2>3. d \in DOMAIN blockedIPs' <=> d \in DOMAIN blockedIPs
    BY <1>7
  <2>4. d \in DOMAIN blockedIPs => blockedIPs'[d] = blockedIPs[d]
    BY <1>7
  <2>5. InOrder(d)'
    BY <2>1, <2>2 DEF InOrder, Ordered
  <2>6. Counted(d)'
    BY <1>1, <2>1, <2>2 DEF Counted
  <2>7. BlockIs(d)'
    BY <2>1, <2>2, <2>3, <2>4 DEF BlockIs
  <2> QED BY <2>1, <2>2, <2>5, <2>6, <2>7
<1>10. Len(suspected'[c]) <= MaxSuspicious
  BY <1>1, <1>3, <1>5, <1>6
<1>11. Counted(c)'
  <2>1. m + 1 <= n + 1 /\ (n + 1) - (m + 1) = n - m
    <3> HIDE DEF n, m
    <3> QED BY <1>3, <1>4
  <2>2. ASSUME NEW i \in 1 .. n - m PROVE clock - Append(s, clock)[i] > blockDuration
    <3>1. i \in 1 .. n
      BY <1>3, <1>4
    <3>2. clock - s[i] > blockDuration
      BY <1>2 DEF Counted
    <3> QED BY <1>6, <3>1, <3>2
  <2> HIDE DEF n, m, s
  <2> QED BY <1>1, <1>5, <1>6, <2>1, <2>2 DEF Counted
<1>12. InOrder(c)'
  <2>1. Ordered(s)
    BY <1>2 DEF InOrder
  <2> HIDE DEF n, s
  <2>2. Ordered(Append(s, clock))
    BY <1>3, <2>1, AppendOrdered
  <2> QED BY <1>5, <2>2 DEF InOrder
<1>13. BlockIs(c)'
  <2>1. c \in DOMAIN blockedIPs => m >= alertThreshold
    BY <1>2 DEF BlockIs
  <2>2. m + 1 > 0 /\ (m >= alertThreshold => m + 1 >= alertThreshold)
    <3> HIDE DEF m
    <3> QED BY <1>3
  <2>3. c \in DOMAIN blockedIPs' <=> m + 1 >= alertThreshold
    BY <1>7, <2>1, <2>2
  <2>4. suspected'[c][Len(suspected'[c])] = clock
    BY <1>5, <1>6
  <2> HIDE DEF n, m, s
  <2> QED BY <1>5, <1>7, <2>2, <2>3, <2>4 DEF BlockIs
<1>14. \A v \in Visitor, d \in Client : inside'[v] # d
  BY <1>1 DEF Unlocked
<1> QED BY <1>8, <1>9, <1>10, <1>11, <1>12, <1>13, <1>14 DEF MonitorInv

LEMMA LookKeeps ==
  ASSUME MonitorInv, NEW v \in Visitor, NEW does \in {"reading"} \cup Client, Look(v, does),
         does \in Client => AllOld(does)
  PROVE  MonitorInv'
<1>1. /\ inside' = [inside EXCEPT ![v] = does]
      /\ UNCHANGED <<clock, suspiciousIPs, blockedIPs, fatal, suspected>>
  BY DEF Look
<1>2. MonitorTypeOK'
  <2>1. inside' \in [Visitor -> {"outside", "reading"} \cup Client]
    BY <1>1 DEF MonitorInv, MonitorTypeOK
  <2> QED BY <1>1, <2>1 DEF MonitorInv, MonitorTypeOK
<1>3. \A c \in Client : Len(suspected'[c]) <= MaxSuspicious
  BY <1>1 DEF MonitorInv
<1>4. \A c \in Client : (Counted(c) /\ InOrder(c) /\ BlockIs(c))'
  BY <1>1 DEF MonitorInv, Counted, InOrder, BlockIs
<1>5. ASSUME NEW w \in Visitor, NEW c \in Client, inside'[w] = c PROVE AllOld(c)'
  <2>1. AllOld(c)
    <3>1. CASE w = v
      BY <1>1, <1>5, <3>1 DEF MonitorInv, MonitorTypeOK
    <3>2. CASE w # v
      BY <1>1, <1>5, <3>2 DEF MonitorInv, MonitorTypeOK
    <3> QED BY <3>1, <3>2
  <2> QED BY <1>1, <2>1 DEF AllOld
<1> QED BY <1>2, <1>3, <1>4, <1>5 DEF MonitorInv

LEMMA IsIPBlockedKeeps == ASSUME MonitorInv, NEW v \in Visitor, IsIPBlocked(v) PROVE MonitorInv'
<1>1. /\ inside' = [inside EXCEPT ![v] = "outside"]
      /\ Forgiven({inside[v]} \cap Client) /\ clock' = clock /\ suspected' = suspected
      /\ fatal' = fatal \/ fatal' = TRUE
  BY DEF IsIPBlocked
<1>2. {inside[v]} \cap Client \in SUBSET Client
  OBVIOUS
<1>3. \A c \in {inside[v]} \cap Client : AllOld(c)
  BY DEF MonitorInv
<1>4. inside \in [Visitor -> {"outside", "reading"} \cup Client] /\ fatal \in BOOLEAN
  BY DEF MonitorInv, MonitorTypeOK
<1>5. /\ inside' \in [Visitor -> {"outside", "reading"} \cup Client]
      /\ \A w \in Visitor : inside'[w] = inside[w] \/ inside'[w] = "outside"
  BY <1>1, <1>4
<1>6. fatal' \in BOOLEAN
  BY <1>1, <1>4
<1> QED BY <1>1, <1>2, <1>3, <1>5, <1>6, ForgivenKeeps

LEMMA MonitorTickKeeps == ASSUME MonitorInv, MonitorTick PROVE MonitorInv'
<1>1. /\ clock < MaxClock /\ clock' = clock + 1
      /\ UNCHANGED <<suspiciousIPs, blockedIPs, inside, fatal, suspected>>
  BY DEF MonitorTick
<1>2. MonitorTypeOK
  BY DEF MonitorInv
<1>3. clock \in Nat /\ clock' \in 0 .. MaxClock /\ 0 .. clock \subseteq 0 .. clock'
  BY <1>1, <1>2 DEF MonitorTypeOK
<1>4. MonitorTypeOK'
  <2>1. suspected' \in [Client -> Seq(0 .. clock')]
    <3>1. \A c \in Client : suspected[c] \in Seq(0 .. clock')
      BY <1>2, <1>3, SeqMonotonic DEF MonitorTypeOK
    <3> QED BY <1>1, <1>2, <3>1 DEF MonitorTypeOK
  <2>2. Range(blockedIPs') \subseteq 0 .. clock'
    BY <1>1, <1>2, <1>3 DEF MonitorTypeOK
  <2> QED BY <1>1, <1>2, <1>3, <2>1, <2>2 DEF MonitorTypeOK
<1>5. ASSUME NEW c \in Client, NEW i \in 1 .. Len(suspected[c]),
             clock - suspected[c][i] > blockDuration
      PROVE  clock' - suspected[c][i] > blockDuration
  <2>1. suspected[c][i] \in Nat
    BY <1>2, EventsAre
  <2> QED BY <1>1, <1>3, <1>5, <2>1
<1>6. ASSUME NEW c \in Client PROVE (Counted(c) /\ InOrder(c) /\ BlockIs(c))'
  <2>1. Counted(c) /\ InOrder(c) /\ BlockIs(c)
    BY DEF MonitorInv
  <2>2. InOrder(c)' /\ BlockIs(c)'
    BY <1>1, <2>1 DEF InOrder, Ordered, BlockIs
  <2>3. Counted(c)'
    <3>1. Len(suspected[c]) \in Nat /\ suspiciousIPs[c] \in Nat
      BY <1>2, EventsAre
    <3>2. ASSUME NEW i \in 1 .. Len(suspected[c]) - suspiciousIPs[c]
          PROVE  clock' - suspected[c][i] > blockDuration
      <4>1. i \in 1 .. Len(suspected[c])
        BY <3>1
      <4>2. clock - suspected[c][i] > blockDuration
        BY <2>1 DEF Counted
      <4> QED BY <1>5, <4>1, <4>2
    <3> QED BY <1>1, <2>1, <3>2 DEF Counted
  <2> QED BY <2>2, <2>3
<1>7. ASSUME NEW v \in Visitor, NEW c \in Client, inside'[v] = c PROVE AllOld(c)'
  <2>1. AllOld(c)
    BY <1>1, <1>7 DEF MonitorInv
  <2> QED BY <1>1, <1>5, <2>1 DEF AllOld
<1>8. \A c \in Client : Len(suspected'[c]) <= MaxSuspicious
  BY <1>1 DEF MonitorInv
<1> QED BY <1>4, <1>6, <1>7, <1>8 DEF MonitorInv

LEMMA MonitorInvariance == MonitorSpec => []MonitorInv
<1>1. MonitorInit => MonitorInv
  <2> SUFFICES ASSUME MonitorInit PROVE MonitorInv
    OBVIOUS
  <2>1. /\ DOMAIN blockedIPs = {} /\ clock = 0 /\ fatal = FALSE
        /\ suspiciousIPs = [c \in Client |-> 0] /\ suspected = [c \in Client |-> <<>>]
        /\ inside = [v \in Visitor |-> "outside"]
    BY DEF MonitorInit
  <2>2. <<>> \in Seq(0 .. clock) /\ Len(<<>>) = 0
    BY EmptySeq
  <2>3. Range(blockedIPs) = {}
    BY <2>1 DEF Range
  <2>4. MonitorTypeOK
    <3>1. clock \in 0 .. MaxClock
      BY <2>1
    <3>6. fatal \in BOOLEAN
      BY <2>1
    <3>2. suspiciousIPs \in [Client -> 0 .. MaxSuspicious]
      BY <2>1
    <3>3. inside \in [Visitor -> {"outside", "reading"} \cup Client]
      BY <2>1
    <3>4. suspected \in [Client -> Seq(0 .. clock)]
      BY <2>1, <2>2
    <3>5. DOMAIN blockedIPs \subseteq Client /\ Range(blockedIPs) \subseteq 0 .. clock
      BY <2>1, <2>3
    <3> QED BY <3>1, <3>2, <3>3, <3>4, <3>5, <3>6 DEF MonitorTypeOK
  <2>5. \A c \in Client : Len(suspected[c]) = 0 /\ suspiciousIPs[c] = 0
    BY <2>1, <2>2
  <2>6. \A c \in Client : Counted(c) /\ InOrder(c) /\ BlockIs(c)
    <3>1. SUFFICES ASSUME NEW c \in Client PROVE Counted(c) /\ InOrder(c) /\ BlockIs(c)
      OBVIOUS
    <3>2. Len(suspected[c]) = 0 /\ suspiciousIPs[c] = 0 /\ c \notin DOMAIN blockedIPs
      BY <2>1, <2>5
    <3>3. Counted(c)
      BY <3>2 DEF Counted
    <3>4. InOrder(c)
      BY <3>2 DEF InOrder, Ordered
    <3>5. BlockIs(c)
      BY <3>2 DEF BlockIs
    <3> QED BY <3>3, <3>4, <3>5
  <2>7. \A v \in Visitor, c \in Client : inside[v] # c
    BY <2>1
  <2> QED BY <2>4, <2>5, <2>6, <2>7 DEF MonitorInv
<1>2. MonitorInv /\ [MonitorNext]_monitorVars => MonitorInv'
  <2> SUFFICES ASSUME MonitorInv, [MonitorNext]_monitorVars PROVE MonitorInv'
    OBVIOUS
  <2>1. ASSUME NEW c \in Client, RecordEvent(c) PROVE MonitorInv'
    BY <2>1, RecordEventKeeps
  <2>2. ASSUME NEW v \in Visitor, ReadBlock(v) PROVE MonitorInv'
    BY <2>2, LookKeeps DEF ReadBlock
  <2>3. ASSUME NEW v \in Visitor, FindExpired(v) PROVE MonitorInv'
    <3>1. PICK c \in Client : Expired(c) /\ Look(v, c)
      BY <2>3 DEF FindExpired
    <3> QED BY <3>1, ExpiredIsOld, LookKeeps
  <2>4. ASSUME NEW v \in Visitor, IsIPBlocked(v) PROVE MonitorInv'
    BY <2>4, IsIPBlockedKeeps
  <2>5. CASE CleanUpMonitor
    <3> DEFINE cs == {c \in Client : Expired(c)}
    <3>1. Forgiven(cs) /\ UNCHANGED <<clock, inside, fatal, suspected>>
      BY <2>5 DEF CleanUpMonitor
    <3>2. cs \in SUBSET Client /\ \A c \in cs : AllOld(c)
      BY ExpiredIsOld
    <3>3. inside' \in [Visitor -> {"outside", "reading"} \cup Client] /\ fatal' \in BOOLEAN
      BY <3>1 DEF MonitorInv, MonitorTypeOK
    <3> HIDE DEF cs
    <3> QED BY <3>1, <3>2, <3>3, ForgivenKeeps
  <2>6. CASE MonitorTick
    BY <2>6, MonitorTickKeeps
  <2>7. CASE UNCHANGED monitorVars
    BY <2>7 DEF monitorVars, MonitorInv, MonitorTypeOK, Counted, InOrder, Ordered, BlockIs, AllOld
  <2> QED BY <2>1, <2>2, <2>3, <2>4, <2>5, <2>6, <2>7 DEF MonitorNext
<1> QED BY <1>1, <1>2, PTL DEF MonitorSpec

LEMMA Deserved == MonitorInv => BlockDeserved
<1> SUFFICES ASSUME MonitorInv, NEW c \in Client
             PROVE  /\ Cardinality(Within(c)) >= alertThreshold /\ alertThreshold > 0 => Blocked(c)
                    /\ Blocked(c) => Within(c) # {} /\ Len(suspected[c]) >= alertThreshold
  BY DEF BlockDeserved
<1> DEFINE s == suspected[c]
           n == Len(suspected[c])
           m == suspiciousIPs[c]
<1>1. /\ n \in Nat /\ clock \in Nat /\ m \in Nat /\ \A i \in 1 .. n : s[i] \in 0 .. clock
      /\ DOMAIN s = 1 .. n
  BY EventsAre DEF MonitorInv
<1>2. Counted(c) /\ InOrder(c) /\ BlockIs(c)
  BY DEF MonitorInv
<1>3. m <= n
  BY <1>2 DEF Counted
<1>4. Within(c) \subseteq (n - m) + 1 .. n
  <2>1. ASSUME NEW i \in Within(c) PROVE i \in (n - m) + 1 .. n
    <3>1. i \in 1 .. n /\ clock - s[i] <= blockDuration
      BY <1>1 DEF Within
    <3>2. s[i] \in Nat
      BY <1>1, <3>1
    <3>3. ~(i \in 1 .. n - m)
      <4>1. SUFFICES ASSUME i \in 1 .. n - m PROVE FALSE
        OBVIOUS
      <4>2. clock - s[i] > blockDuration
        BY <1>2, <4>1 DEF Counted
      <4> QED BY <1>1, <3>1, <3>2, <4>2
    <3> HIDE DEF n, m
    <3> QED BY <1>1, <1>3, <3>1, <3>3
  <2> QED BY <2>1
<1>5. Cardinality(Within(c)) <= m
  <2>1. IsFiniteSet((n - m) + 1 .. n) /\ Cardinality((n - m) + 1 .. n) = m
    <3> HIDE DEF n, m
    <3>1. (n - m) + 1 \in Int /\ n \in Int
      BY <1>1
    <3>2. /\ IsFiniteSet((n - m) + 1 .. n)
          /\ Cardinality((n - m) + 1 .. n) = IF (n - m) + 1 > n THEN 0 ELSE n - ((n - m) + 1) + 1
      BY <3>1, FS_Interval
    <3> QED BY <1>1, <3>2
  <2> HIDE DEF n, m
  <2> QED BY <1>4, <2>1, FS_Subset
<1>6. Within(c) # {} => n \in Within(c)
  <2>1. SUFFICES ASSUME NEW i \in Within(c) PROVE n \in Within(c)
    OBVIOUS
  <2>2. i \in 1 .. n /\ clock - s[i] <= blockDuration
    BY <1>1 DEF Within
  <2>3. n \in 1 .. n /\ s[i] \in Nat /\ s[n] \in Nat
    BY <1>1, <2>2, SMTT(60)
  <2>4. s[i] <= s[n]
    <3>1. CASE i = n
      BY <2>3, <3>1
    <3>2. CASE i < n
      BY <1>2, <2>2, <2>3, <3>2 DEF InOrder, Ordered
    <3> QED BY <1>1, <2>2, <3>1, <3>2
  <2>5. clock - s[n] <= blockDuration
    <3> HIDE DEF s, n
    <3> QED BY <1>1, <2>2, <2>3, <2>4
  <2> QED BY <1>1, <2>3, <2>5 DEF Within
<1>7. ASSUME Cardinality(Within(c)) >= alertThreshold, alertThreshold > 0 PROVE Blocked(c)
  <2>1. IsFiniteSet(Within(c))
    <3>1. IsFiniteSet(1 .. n)
      <4>1. n \in Int /\ 1 \in Int
        BY <1>1
      <4> HIDE DEF n
      <4> QED BY <4>1, FS_Interval
    <3>2. Within(c) \in SUBSET (1 .. n)
      BY <1>1 DEF Within
    <3> QED BY <3>1, <3>2, FS_Subset
  <2>2. Cardinality(Within(c)) \in Nat /\ (Within(c) = {} => Cardinality(Within(c)) = 0)
    BY <2>1, FS_CardinalityType, FS_EmptySet
  <2>3. Within(c) # {} /\ m >= alertThreshold /\ m > 0
    <3> HIDE DEF m
    <3> QED BY <1>1, <1>5, <1>7, <2>2
  <2>4. n \in Within(c)
    BY <1>6, <2>3
  <2>5. c \in DOMAIN blockedIPs /\ blockedIPs[c] = s[n]
    BY <1>2, <2>3 DEF BlockIs
  <2>6. clock - s[n] <= blockDuration /\ s[n] \in Nat
    BY <1>1, <2>4 DEF Within
  <2>7. ~(clock - blockedIPs[c] > blockDuration)
    <3> HIDE DEF s, n
    <3> QED BY <1>1, <2>5, <2>6
  <2> QED BY <2>5, <2>7 DEF Blocked, Expired
<1>8. ASSUME Blocked(c) PROVE Within(c) # {} /\ n >= alertThreshold
  <2>1. c \in DOMAIN blockedIPs /\ ~(clock - blockedIPs[c] > blockDuration)
    BY <1>8 DEF Blocked, Expired
  <2>2. m >= alertThreshold /\ m > 0 /\ blockedIPs[c] = s[n]
    BY <1>2, <2>1 DEF BlockIs
  <2>3. n \in 1 .. n /\ n >= alertThreshold
    <3> HIDE DEF n, m
    <3> QED BY <1>1, <1>3, <2>2
  <2>4. s[n] \in Nat
    BY <1>1, <2>3
  <2>5. clock - s[n] <= blockDuration
    <3> HIDE DEF s, n
    <3> QED BY <1>1, <2>1, <2>2, <2>4
  <2>6. n \in Within(c)
    BY <1>1, <2>3, <2>5 DEF Within
  <2> QED BY <2>3, <2>6
<1> QED BY <1>7, <1>8

(* RecordEvent, IsBlocked and CleanupExpired of security/monitor.go,       *)
(* whoever looks and whenever the cleanup comes: an address is blocked if  *)
(* it had as many suspicious events as the threshold within the duration   *)
(* of a block, and only if it had as many ever, the last of them within    *)
(* that duration.                                                          *)
THEOREM MonitorBlockDeserved == MonitorSpec => []BlockDeserved
BY MonitorInvariance, Deserved, PTL
=============================================================================
