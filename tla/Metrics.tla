------------------------------- MODULE Metrics -------------------------------
(***************************************************************************)
(* logging/middleware.go and logging/metrics.go: requests that the metrics *)
(* middleware counts, and a reader of the metrics endpoint.  A counter is  *)
(* atomic; a histogram is not: Observe and Value both hold its lock for    *)
(* reading only, and look at its buckets in the order of a map.            *)
(*                                                                         *)
(* A request takes as long as the least bucket that it falls into.         *)
(***************************************************************************)
EXTENDS Naturals, FiniteSets, Functions

CONSTANTS
  Served,     \* requests under way at once
  Bound,     \* upper bounds of the histogram's buckets
  Longest,    \* a duration that is in no bucket
  MaxServed   \* bound on the requests

ASSUME MetricsAssumption ==
  /\ Bound \subseteq Nat /\ Longest \in Nat /\ \A b \in Bound : b < Longest
  /\ MaxServed \in Nat /\ IsFiniteSet(Served)

VARIABLES
  RequestsTotal, ResponseStatusCodes, ErrorsTotal,  \* the counters
  ActiveConnections,                                \* the gauge
  count, inBucket,  \* of RequestDuration
  handled,   \* the requests: where each is, its status and its duration, and
             \* the buckets that it has still to count in
  endpoint,  \* the reader: what it has read of the histogram
  returned   \* history: of the requests whose handler returned, how many took
             \* no longer than each duration

counters == <<RequestsTotal, ResponseStatusCodes, ErrorsTotal, ActiveConnections>>
histogram == <<count, inBucket>>
metricsVars == <<counters, histogram, handled, endpoint, returned>>

Duration == Bound \cup {Longest}
Statuses == {"ok", "other", "error"}   \* 200; below 400; 400 and above
NotServed == [at |-> "idle", status |-> "other", duration |-> Longest, todo |-> {}]
Unread == [at |-> "idle", count |-> 0, seen |-> <<>>]

MetricsTypeOK ==
  /\ \A n \in {RequestsTotal, ResponseStatusCodes, ErrorsTotal, ActiveConnections, count}
              \cup Range(inBucket) : n \in 0..MaxServed
  /\ handled \in [Served ->
       [at : {"idle", "handler", "total", "observe", "buckets", "status"},
        status : Statuses, duration : Duration, todo : SUBSET Bound]]
  /\ endpoint.at \in {"idle", "buckets", "read"} /\ DOMAIN endpoint.seen \subseteq Bound
  /\ returned \in [Duration -> 0..MaxServed]

MetricsInit ==
  /\ RequestsTotal = 0 /\ ResponseStatusCodes = 0 /\ ErrorsTotal = 0
  /\ ActiveConnections = 0 /\ count = 0 /\ inBucket = [b \in Bound |-> 0]
  /\ handled = [s \in Served |-> NotServed] /\ endpoint = Unread
  /\ returned = [d \in Duration |-> 0]

Accepted == RequestsTotal + Cardinality({s \in Served : handled[s].at \in {"handler", "total"}})

Proceed(s, from, to) == handled[s].at = from /\ handled' = [handled EXCEPT ![s].at = to]

Enter(s) ==
  /\ Accepted < MaxServed /\ Proceed(s, "idle", "handler")
  /\ ActiveConnections' = ActiveConnections + 1
  /\ UNCHANGED <<RequestsTotal, ResponseStatusCodes, ErrorsTotal, histogram, endpoint, returned>>

HandlerReturns(s) ==
  /\ handled[s].at = "handler"
  /\ \E st \in Statuses, d \in Duration :
       /\ handled' = [handled EXCEPT ![s] =
            [at |-> "total", status |-> st, duration |-> d, todo |-> {b \in Bound : d <= b}]]
       /\ returned' = [e \in Duration |-> IF d <= e THEN returned[e] + 1 ELSE returned[e]]
  /\ UNCHANGED <<counters, histogram, endpoint>>

(* Mutant: the connection is given back by the last statement, which a     *)
(* panic skips.                                                            *)
HandlerPanicsConnected(s) ==
  /\ handled[s].at = "handler" /\ handled' = [handled EXCEPT ![s] = NotServed]
  /\ UNCHANGED <<counters, histogram, endpoint, returned>>

(* A panic passes through, to the recovery in front; only the deferred     *)
(* statement is executed.                                                  *)
HandlerPanics(s) ==
  /\ handled[s].at = "handler" /\ handled' = [handled EXCEPT ![s] = NotServed]
  /\ ActiveConnections' = ActiveConnections - 1
  /\ UNCHANGED <<RequestsTotal, ResponseStatusCodes, ErrorsTotal, histogram, endpoint, returned>>

CountRequest(s) ==
  /\ Proceed(s, "total", "observe") /\ RequestsTotal' = RequestsTotal + 1
  /\ UNCHANGED <<ResponseStatusCodes, ErrorsTotal, ActiveConnections, histogram, endpoint,
                 returned>>

(* Observe: the count first, and then every bucket.                        *)
ObserveCount(s) ==
  /\ Proceed(s, "observe", "buckets") /\ count' = count + 1
  /\ UNCHANGED <<counters, inBucket, endpoint, returned>>

ObserveBucket(s) ==
  /\ handled[s].at = "buckets"
  /\ \E b \in handled[s].todo :
       /\ inBucket' = [inBucket EXCEPT ![b] = @ + 1]
       /\ handled' = [handled EXCEPT ![s].todo = @ \ {b}]
  /\ UNCHANGED <<counters, count, endpoint, returned>>

CountStatus(s) ==
  /\ handled[s].todo = {} /\ Proceed(s, "buckets", "status")
  /\ ResponseStatusCodes' = ResponseStatusCodes + (IF handled[s].status = "ok" THEN 1 ELSE 0)
  /\ ErrorsTotal' = ErrorsTotal + (IF handled[s].status = "error" THEN 1 ELSE 0)
  /\ UNCHANGED <<RequestsTotal, ActiveConnections, histogram, endpoint, returned>>

Leave(s) ==
  /\ handled[s].at = "status" /\ handled' = [handled EXCEPT ![s] = NotServed]
  /\ ActiveConnections' = ActiveConnections - 1
  /\ UNCHANGED <<RequestsTotal, ResponseStatusCodes, ErrorsTotal, histogram, endpoint, returned>>

(* The endpoint asks the histogram for its Value: the buckets one by one,  *)
(* and then the count.                                                     *)
AskValue ==
  /\ endpoint.at # "buckets" /\ endpoint' = [Unread EXCEPT !.at = "buckets"]
  /\ UNCHANGED <<counters, histogram, handled, returned>>

ReadBucket ==
  /\ endpoint.at = "buckets"
  /\ \E b \in Bound \ DOMAIN endpoint.seen :
       endpoint' = [endpoint EXCEPT !.seen = [c \in DOMAIN @ \cup {b} |->
                                                IF c = b THEN inBucket[b] ELSE @[c]]]
  /\ UNCHANGED <<counters, histogram, handled, returned>>

ReadCount ==
  /\ endpoint.at = "buckets" /\ DOMAIN endpoint.seen = Bound
  /\ endpoint' = [endpoint EXCEPT !.at = "read", !.count = count]
  /\ UNCHANGED <<counters, histogram, handled, returned>>

MetricsNext ==
  \/ \E s \in Served :
       \/ Enter(s) \/ HandlerReturns(s) \/ HandlerPanics(s) \/ CountRequest(s)
       \/ ObserveCount(s) \/ ObserveBucket(s) \/ CountStatus(s) \/ Leave(s)
  \/ AskValue \/ ReadBucket \/ ReadCount

MetricsSpec == MetricsInit /\ [][MetricsNext]_metricsVars
-----------------------------------------------------------------------------
In(ats) == {s \in Served : handled[s].at \in ats}

(* However requests overlap and panic: the connections that are shown as   *)
(* active are those that are; when nothing is under way, every request     *)
(* that returned is in the total, in the histogram and in just the buckets *)
(* for its duration, and none is both a success and an error; and a reader *)
(* in between never sees more requests in a bucket than in all.            *)
MetricsAddUp ==
  /\ ActiveConnections = Cardinality(Served \ In({"idle"}))
  /\ ResponseStatusCodes + ErrorsTotal <= count /\ count <= RequestsTotal
  /\ In({"total", "observe", "buckets", "status"}) = {} =>
       /\ count = RequestsTotal /\ RequestsTotal = returned[Longest]
       /\ \A b \in Bound : inBucket[b] = returned[b]
  /\ endpoint.at = "read" => \A b \in Bound : endpoint.seen[b] <= endpoint.count
=============================================================================
