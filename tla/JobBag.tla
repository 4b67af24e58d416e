------------------------------- MODULE JobBag -------------------------------
(***************************************************************************)
(* What a job queue promises to the workers: a bag of jobs from which a    *)
(* job is taken only when it is due, and never ahead of a more urgent one  *)
(* that needs no waiting.  Module Jobs uses exactly this rule in PopTake.  *)
(***************************************************************************)
EXTENDS Naturals

CONSTANTS
  Job,
  Delayed        \* jobs that are due only when their time comes

VARIABLES
  weight, \* how urgent each job is
  bag,    \* the jobs in the queue
  due,    \* the jobs whose time has come
  taken   \* the job that was taken last

BagInit ==
  /\ weight \in [Job -> Nat]
  /\ bag = {} /\ due = Job \ Delayed /\ taken = "none"

FallDue(j) == due' = due \cup {j} /\ UNCHANGED <<weight, bag, taken>>

Put(j) == j \notin bag /\ bag' = bag \cup {j} /\ UNCHANGED <<weight, due, taken>>

Take(j) ==
  /\ j \in bag \cap due
  /\ \A k \in bag \ Delayed : weight[k] <= weight[j]
  /\ bag' = bag \ {j}
  /\ taken' = j
  /\ UNCHANGED <<weight, due>>

Drop(gone) == bag' = bag \ gone /\ UNCHANGED <<weight, due, taken>>

BagNext ==
  \/ \E j \in Job : FallDue(j) \/ Put(j) \/ Take(j)
  \/ \E gone \in {bag} \cup {{j} : j \in bag} : Drop(gone)

BagSpec == BagInit /\ [][BagNext]_<<weight, bag, due, taken>>
=============================================================================
