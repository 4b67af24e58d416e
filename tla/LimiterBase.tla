----------------------------- MODULE LimiterBase -----------------------------
(* What the rate limiters share: whose requests they count, and the clock   *)
(* that time.Now reads, in units finer than any duration in use.            *)
EXTENDS Integers, Sequences

CONSTANTS
  Key,
  MaxTime     \* bound on the clock

ASSUME LimiterBaseAssumption == MaxTime \in Nat

VARIABLE now

Time == 0 .. MaxTime

Advance == now < MaxTime /\ now' = now + 1

(* Those of a list of times that are later than the cutoff.                 *)
Later(times, cutoff) ==
  LET kept[n \in 0 .. Len(times)] ==
        IF n = 0 THEN <<>>
        ELSE IF times[n] > cutoff THEN Append(kept[n - 1], times[n])
        ELSE kept[n - 1]
  IN  kept[Len(times)]
=============================================================================
