---------------------------- MODULE JobLifecycle ----------------------------
(***************************************************************************)
(* What the background-job system promises for each job, with no queue, no *)
(* worker and no lock: it waits, at most one execution of it is under way, *)
(* a failed execution either earns it another turn or buries it, and it    *)
(* is buried only when it has had as many further turns as MaxAttempts.    *)
(***************************************************************************)
EXTENDS Naturals

CONSTANTS Job, MaxAttempts

VARIABLES
  stage,    \* held by the application, waiting, executing, succeeded,
            \* unhandled, dead or discarded
  tries     \* failed executions that earned it another turn

lifeVars == <<stage, tries>>

LifeInit ==
  /\ stage = [j \in Job |-> "held"]
  /\ tries = [j \in Job |-> 0]

Advance(j, from, to) ==
  /\ stage[j] = from
  /\ stage' = [stage EXCEPT ![j] = to]

Accept(j)  == Advance(j, "held", "waiting") /\ UNCHANGED tries
Execute(j) == Advance(j, "waiting", "executing") /\ UNCHANGED tries
Succeed(j) == Advance(j, "executing", "succeeded") /\ UNCHANGED tries
Ignore(j)  == Advance(j, "executing", "unhandled") /\ UNCHANGED tries

Retry(j) ==
  /\ tries[j] < MaxAttempts[j]
  /\ Advance(j, "executing", "held")
  /\ tries' = [tries EXCEPT ![j] = @ + 1]

Bury(j) ==
  /\ tries[j] = MaxAttempts[j]
  /\ Advance(j, "executing", "dead")
  /\ UNCHANGED tries

(* Clearing a queue discards all the jobs that wait, or lie dead, there.   *)
Discard(from) ==
  /\ \E j \in Job : stage[j] = from
  /\ stage' = [j \in Job |-> IF stage[j] = from THEN "discarded" ELSE stage[j]]
  /\ UNCHANGED tries

LifeNext ==
  \/ \E j \in Job :
       \/ Accept(j) \/ Execute(j) \/ Succeed(j) \/ Ignore(j)
       \/ Retry(j)  \/ Bury(j)
  \/ \E from \in {"waiting", "dead"} : Discard(from)

LifeSpec == LifeInit /\ [][LifeNext]_lifeVars
=============================================================================
