----------------------------- MODULE TokenBucket -----------------------------
(***************************************************************************)
(* api/ratelimit.go: the token bucket limiter behind the API's rate limit  *)
(* middleware.  Allow, Reset and a round of the cleanup goroutine hold     *)
(* tb.mu from their first to their last line, and Allow reads the clock    *)
(* under it, so each is one step; requests, cleanup and the clock          *)
(* interleave between the steps.                                           *)
(***************************************************************************)
EXTENDS LimiterBase, Functions

CONSTANTS
  rate,       \* tokens per interval
  capacity,   \* most tokens of a bucket
  interval

ASSUME TokenBucketAssumption ==
  /\ rate \in Nat \ {0} /\ capacity \in Nat \ {0} /\ interval \in Nat \ {0}

bucketCleanup == interval * 10

VARIABLES
  buckets,   \* tb.buckets: a function from the keys that have one
  routine,   \* the cleanup goroutine, "running" or "stopped"
  since,     \* history: when an observer of the key began to count, or -1
  granted,   \* history: requests of the key that were allowed since then
  promise    \* history: the first reset time that a denial announced since
             \* the last request that was allowed, or -1

bucketHist == <<since, granted, promise>>
bucketVars == <<buckets, routine, bucketHist>>

Bucket == [tokens : 0 .. capacity, lastRefill : Time]

(* Type invariant: no bucket ever holds more than its capacity, or was     *)
(* refilled in the future.                                                 *)
BucketTypeOK ==
  /\ DOMAIN buckets \subseteq Key /\ buckets \in [DOMAIN buckets -> Bucket]
  /\ \A k \in DOMAIN buckets : buckets[k].lastRefill <= now
  /\ routine \in {"running", "stopped"}
  /\ since \in [Key -> -1 .. MaxTime] /\ granted \in [Key -> Nat]
  /\ promise \in [Key -> Int]

BucketInit ==
  /\ buckets = <<>> /\ routine = "running"
  /\ since = [k \in Key |-> -1] /\ granted = [k \in Key |-> 0]
  /\ promise = [k \in Key |-> -1]

Smaller(a, b) == IF a < b THEN a ELSE b

Found(k) == IF k \in DOMAIN buckets THEN buckets[k]
            ELSE [tokens |-> capacity, lastRefill |-> now]

(* Mutants: no cap on the refill; the time of refill is always updated.    *)
RefilledUncapped(k) ==
  LET b == Found(k)
      tokensToAdd == ((now - b.lastRefill) \div interval) * rate
  IN  IF tokensToAdd > 0
      THEN [tokens |-> b.tokens + tokensToAdd, lastRefill |-> now]
      ELSE b

RefilledNow(k) ==
  LET b == Found(k)
      tokensToAdd == ((now - b.lastRefill) \div interval) * rate
  IN  [tokens |-> Smaller(b.tokens + tokensToAdd, capacity), lastRefill |-> now]

Refilled(k) ==
  LET b == Found(k)
      tokensToAdd == ((now - b.lastRefill) \div interval) * rate
  IN  IF tokensToAdd > 0
      THEN [tokens |-> Smaller(b.tokens + tokensToAdd, capacity), lastRefill |-> now]
      ELSE b

With(k, b) == [l \in DOMAIN buckets \cup {k} |-> IF l = k THEN b ELSE buckets[l]]

(* Allow, with its two answers.                                            *)
BucketGrant(k) ==
  LET b == Refilled(k)
  IN  /\ b.tokens > 0
      /\ buckets' = With(k, [b EXCEPT !.tokens = @ - 1])
      /\ granted' = IF since[k] = -1 THEN granted ELSE [granted EXCEPT ![k] = @ + 1]
      /\ promise' = [promise EXCEPT ![k] = -1]
      /\ UNCHANGED <<now, routine, since>>

BucketDeny(k) ==
  LET b == Refilled(k)
  IN  /\ b.tokens = 0
      /\ buckets' = With(k, b)
      /\ promise' = [promise EXCEPT ![k] = IF @ = -1 THEN b.lastRefill + interval ELSE @]
      /\ UNCHANGED <<now, routine, since, granted>>

(* Reset gives the key a new bucket, and the observer begins anew.         *)
BucketReset(k) ==
  /\ buckets' = Restrict(buckets, DOMAIN buckets \ {k})
  /\ since' = [since EXCEPT ![k] = -1]
  /\ granted' = [granted EXCEPT ![k] = 0]
  /\ promise' = [promise EXCEPT ![k] = -1]
  /\ UNCHANGED <<now, routine>>

(* Mutant: a bucket is old after one interval.                             *)
bucketCleanUpEarly ==
  /\ routine = "running"
  /\ buckets' = Restrict(buckets,
       {k \in DOMAIN buckets : now - buckets[k].lastRefill <= interval})
  /\ UNCHANGED <<now, routine, bucketHist>>

bucketCleanUp ==
  /\ routine = "running"
  /\ buckets' = Restrict(buckets,
       {k \in DOMAIN buckets : now - buckets[k].lastRefill <= bucketCleanup})
  /\ UNCHANGED <<now, routine, bucketHist>>

BucketStop ==
  /\ routine' = "stopped"
  /\ UNCHANGED <<now, buckets, bucketHist>>

BucketTick ==
  /\ Advance
  /\ UNCHANGED <<buckets, routine, bucketHist>>

(* An observer may begin to count at any time.                             *)
Observe(k) ==
  /\ since[k] = -1
  /\ since' = [since EXCEPT ![k] = now]
  /\ UNCHANGED <<now, buckets, routine, granted, promise>>

BucketNext ==
  \/ \E k \in Key : BucketGrant(k) \/ BucketDeny(k) \/ BucketReset(k) \/ Observe(k)
  \/ bucketCleanUp \/ BucketStop \/ BucketTick

BucketSpec == now = 0 /\ BucketInit /\ [][BucketNext]_<<now, bucketVars>>
----------------------------------------------------------------------------
(***************************************************************************)
(* In any window of time the limiter allows at most one full bucket and    *)
(* the refill of every interval that the window touches, although refills  *)
(* are lazy, a refill starts a new interval, and a bucket that was idle is *)
(* forgotten and made again full: this needs a capacity that ten intervals *)
(* would have refilled anyway.                                             *)
(***************************************************************************)
BurstBounded ==
  capacity <= 10 * rate =>
    \A k \in Key : since[k] # -1 =>
      granted[k] <= capacity + rate * ((now - since[k] + interval - 1) \div interval)

(* A client that waits until the reset time of its first denial is not     *)
(* denied again: denials do not postpone the refill.                       *)
BucketResetHonoured(k) == BucketDeny(k) /\ promise[k] # -1 => now < promise[k]
=============================================================================
