------------------------------ MODULE Middleware ------------------------------
(***************************************************************************)
(* What an application may put in front of its routes, and what stands     *)
(* behind them: the middleware of api/ratelimit.go with one of its two     *)
(* strategies, that of security/throttle.go, the monitor of                *)
(* security/monitor.go, the metrics of logging/middleware.go, the sessions *)
(* of session/session.go, the cache and the database layer.  They share    *)
(* nothing, so a behaviour is about one of them, which is chosen at the    *)
(* start.                                                                  *)
(***************************************************************************)
EXTENDS TokenBucket, SlidingWindow, Throttle, Monitor, Metrics, Sessions, Cache,
        QueryBuilder, Chunking, Transactions

VARIABLE strategy

limitVars == <<now, bucketVars, windowVars, throttleVars>>
watchVars == <<monitorVars, metricsVars>>
dataVars == <<sessionVars, cacheVars, queryVars, chunkVars, txVars>>
vars == <<strategy, limitVars, watchVars, dataVars>>

Strategy ==
  {"bucket", "window", "throttle", "monitor", "metrics", "session", "cache", "query",
   "chunk", "tx"}

(* Type invariant: of each part in the behaviours that are about it.       *)
TypeOK ==
  /\ now \in Time
  /\ CASE strategy = "bucket" -> BucketTypeOK
       [] strategy = "window" -> WindowTypeOK
       [] strategy = "throttle" -> ThrottleTypeOK
       [] strategy = "monitor" -> MonitorTypeOK
       [] strategy = "metrics" -> MetricsTypeOK
       [] strategy = "session" -> SessionTypeOK
       [] strategy = "cache" -> CacheTypeOK
       [] strategy = "query" -> QueryTypeOK
       [] strategy = "chunk" -> ChunkTypeOK
       [] strategy = "tx" -> TxTypeOK

(* What is not used has any one of its initial states.                     *)
Init ==
  /\ now = 0 /\ strategy \in Strategy
  /\ BucketInit /\ WindowInit /\ ThrottleInit
  /\ strategy # "throttle" => setup = CHOOSE s \in Setups : TRUE
  /\ MonitorInit /\ MetricsInit /\ SessionInit /\ TxInit
  /\ CacheInit /\ (strategy # "cache" => backend = "redis")
  /\ QueryInit /\ (strategy # "query" => qb = Builder(FALSE, <<>>))
  /\ ChunkInit
  /\ strategy # "chunk" => /\ method = "Chunk" /\ rows = Row
                           /\ builder = [selects |-> Row, total |-> TRUE, err |-> FALSE]

LimitNext ==
  \/ strategy = "bucket" /\ BucketNext /\ UNCHANGED <<windowVars, throttleVars>>
  \/ strategy = "window" /\ WindowNext /\ UNCHANGED <<bucketVars, throttleVars>>
  \/ strategy = "throttle" /\ ThrottleNext /\ UNCHANGED <<now, bucketVars, windowVars>>

WatchNext ==
  \/ strategy = "monitor" /\ MonitorNext /\ UNCHANGED metricsVars
  \/ strategy = "metrics" /\ MetricsNext /\ UNCHANGED monitorVars

DataNext ==
  \/ strategy = "session" /\ SessionNext /\ UNCHANGED <<cacheVars, queryVars, chunkVars, txVars>>
  \/ strategy = "cache" /\ CacheNext /\ UNCHANGED <<sessionVars, queryVars, chunkVars, txVars>>
  \/ strategy = "query" /\ QueryNext /\ UNCHANGED <<sessionVars, cacheVars, chunkVars, txVars>>
  \/ strategy = "chunk" /\ ChunkNext /\ UNCHANGED <<sessionVars, cacheVars, queryVars, txVars>>
  \/ strategy = "tx" /\ TxNext /\ UNCHANGED <<sessionVars, cacheVars, queryVars, chunkVars>>

Next ==
  \/ LimitNext /\ UNCHANGED <<strategy, watchVars, dataVars>>
  \/ WatchNext /\ UNCHANGED <<strategy, limitVars, dataVars>>
  \/ DataNext /\ UNCHANGED <<strategy, limitVars, watchVars>>

Spec == Init /\ [][Next]_vars

(***************************************************************************)
(* The sliding window is exact: although old requests are dropped only     *)
(* when their key is asked for again, and idle windows are forgotten, a    *)
(* request is denied if and only if as many as the limit were allowed      *)
(* within the last duration.                                               *)
(***************************************************************************)
ImplementsWindowLimit == Promised!WindowLimitSpec

(***************************************************************************)
(* A client that waits for the reset time of a denial is not denied again, *)
(* by either strategy, unless another request of its key was allowed in    *)
(* between: neither denials nor the cleanup postpone it.                   *)
(***************************************************************************)
ResetHonoured ==
  [][\A k \in Key : BucketResetHonoured(k) /\ WindowResetHonoured(k)]_vars
=============================================================================
