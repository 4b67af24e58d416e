----------------------------- MODULE WindowLimit -----------------------------
(* What a sliding window limiter promises: a request is denied exactly when *)
(* limit requests were allowed within the last duration.                    *)
EXTENDS LimiterBase

CONSTANTS limit, duration

VARIABLES
  recent,   \* for each key, when a request was allowed within the duration
  answer    \* what was last done for it

vars == <<now, recent, answer>>

WindowLimitInit ==
  /\ now = 0
  /\ recent = [k \in Key |-> <<>>] /\ answer = [k \in Key |-> "none"]

Allow(k) ==
  /\ Len(recent[k]) < limit
  /\ recent' = [recent EXCEPT ![k] = Append(@, now)]
  /\ answer' = [answer EXCEPT ![k] = "granted"]
  /\ UNCHANGED now

Refuse(k) ==
  /\ Len(recent[k]) = limit
  /\ answer' = [answer EXCEPT ![k] = "denied"]
  /\ UNCHANGED <<now, recent>>

Forget(k) ==
  /\ recent' = [recent EXCEPT ![k] = <<>>]
  /\ answer' = [answer EXCEPT ![k] = "reset"]
  /\ UNCHANGED now

Pass ==
  /\ Advance
  /\ recent' = [k \in Key |-> Later(recent[k], now' - duration)]
  /\ UNCHANGED answer

WindowLimitNext == Pass \/ \E k \in Key : Allow(k) \/ Refuse(k) \/ Forget(k)

WindowLimitSpec == WindowLimitInit /\ [][WindowLimitNext]_vars
=============================================================================
