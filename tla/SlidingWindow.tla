---------------------------- MODULE SlidingWindow ----------------------------
(***************************************************************************)
(* api/ratelimit.go: the sliding window limiter.  As in the token bucket,  *)
(* every operation is one critical section of sw.mu.                       *)
(***************************************************************************)
EXTENDS LimiterBase, SequencesExt

CONSTANTS
  limit,      \* requests per window
  duration    \* length of the window

ASSUME SlidingWindowAssumption == limit \in Nat \ {0} /\ duration \in Nat \ {0}

windowCleanup == duration * 2

VARIABLES
  windows,       \* sw.windows: the requests of the keys that have a window
  windowRoutine, \* the cleanup goroutine, "running" or "stopped"
  answer,        \* history: what was last done for each key
  due            \* history: the reset time that the last denial announced,
                 \* or -1 when a request was allowed since

windowVars == <<windows, windowRoutine, answer, due>>

(* Type invariant: the requests of a window are in order of time, none in  *)
(* the future, and no more than the limit.                                 *)
WindowTypeOK ==
  /\ DOMAIN windows \subseteq Key
  /\ \A k \in DOMAIN windows :
       /\ windows[k] \in Seq(0 .. now) /\ Len(windows[k]) <= limit
       /\ \A i, j \in DOMAIN windows[k] : i < j => windows[k][i] <= windows[k][j]
  /\ windowRoutine \in {"running", "stopped"}
  /\ answer \in [Key -> {"none", "granted", "denied", "reset"}]
  /\ due \in [Key -> Int]

WindowInit ==
  /\ windows = <<>> /\ windowRoutine = "running"
  /\ answer = [k \in Key |-> "none"] /\ due = [k \in Key |-> -1]

Requests(k) == IF k \in DOMAIN windows THEN windows[k] ELSE <<>>

(* Mutant: a request as old as the window still counts.                    *)
ValidRequestsInclusive(k) == Later(Requests(k), now - duration - 1)

ValidRequests(k) == Later(Requests(k), now - duration)

Store(k, requests) ==
  windows' = [l \in DOMAIN windows \cup {k} |-> IF l = k THEN requests ELSE windows[l]]

WindowGrant(k) ==
  /\ Len(ValidRequests(k)) < limit
  /\ Store(k, Append(ValidRequests(k), now))
  /\ answer' = [answer EXCEPT ![k] = "granted"]
  /\ due' = [due EXCEPT ![k] = -1]
  /\ UNCHANGED <<now, windowRoutine>>

ResetTime(k) == ValidRequests(k)[1] + duration

WindowDeny(k) ==
  /\ Len(ValidRequests(k)) >= limit
  /\ Store(k, ValidRequests(k))
  /\ answer' = [answer EXCEPT ![k] = "denied"]
  /\ due' = [due EXCEPT ![k] = ResetTime(k)]
  /\ UNCHANGED <<now, windowRoutine>>

WindowReset(k) ==
  /\ windows' = Restrict(windows, DOMAIN windows \ {k})
  /\ answer' = [answer EXCEPT ![k] = "reset"]
  /\ due' = [due EXCEPT ![k] = -1]
  /\ UNCHANGED <<now, windowRoutine>>

(* Mutant: a window is old when its first request is.                      *)
windowCleanUpByFirst ==
  /\ windowRoutine = "running"
  /\ windows' = Restrict(windows,
       {k \in DOMAIN windows :
          windows[k] # <<>> /\ Head(windows[k]) >= now - duration})
  /\ UNCHANGED <<now, windowRoutine, answer, due>>

windowCleanUp ==
  /\ windowRoutine = "running"
  /\ windows' = Restrict(windows,
       {k \in DOMAIN windows :
          windows[k] # <<>> /\ Last(windows[k]) >= now - windowCleanup})
  /\ UNCHANGED <<now, windowRoutine, answer, due>>

WindowStop ==
  /\ windowRoutine' = "stopped"
  /\ UNCHANGED <<now, windows, answer, due>>

WindowTick ==
  /\ Advance
  /\ UNCHANGED windowVars

WindowNext ==
  \/ \E k \in Key : WindowGrant(k) \/ WindowDeny(k) \/ WindowReset(k)
  \/ windowCleanUp \/ WindowStop \/ WindowTick

WindowSpec == now = 0 /\ WindowInit /\ [][WindowNext]_<<now, windowVars>>

----------------------------------------------------------------------------
(* The promise that RateLimiter checks.                                    *)
Recent == [k \in Key |-> Later(Requests(k), now - duration)]
Promised == INSTANCE WindowLimit WITH recent <- Recent

(* A client that comes back at the announced reset time is not denied, as  *)
(* long as no other request of its key was allowed since.                  *)
WindowResetHonoured(k) == WindowDeny(k) /\ due[k] # -1 => now < due[k]
=============================================================================
