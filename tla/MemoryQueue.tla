----------------------------- MODULE MemoryQueue -----------------------------
(***************************************************************************)
(* jobs/queue.go: the list of a MemoryQueue, its lock, the sort that Push  *)
(* performs and the scan of Pop, which holds the lock while time passes.   *)
(* sort.Slice is an insertion sort on lists shorter than 12, the case that *)
(* is modelled.                                                            *)
(***************************************************************************)
EXTENDS Naturals, SequencesExt

CONSTANTS
  Job,
  Worker,      \* goroutines that call Pop
  None,        \* the lock is free
  Priority,    \* values of job.Priority: low 0, normal 1, high 2, critical
               \* 3; others are unknown to getQueuePriority
  CreatedAt,   \* job.CreatedAt
  Delayed      \* jobs with a ScheduledAt in the future

ASSUME MemoryQueueAssumption ==
  /\ Cardinality(Job) < 12
  /\ None \notin Worker
  /\ Priority \subseteq Nat /\ CreatedAt \in [Job -> Nat]
  /\ Delayed \subseteq Job

VARIABLES
  priority,  \* job.Priority, which no code changes
  jobs,    \* mq.jobs
  lock,    \* the Pop that holds mq.mutex
  next,    \* where in the list the scan under way is
  due,     \* jobs for which IsReady holds
  taken,   \* the job that Pop returned last
  ready    \* history: jobs that were ready when the scan began

queueVars == <<priority, jobs, lock, next, due, taken, ready>>

Queued == ToSet(jobs)

(***************************************************************************)
(* The types: no job is twice in the list, and a scan is at a place   *)
(* of the list exactly while it holds the lock.                            *)
(***************************************************************************)
QueueTypeOK ==
  /\ priority \in [Job -> Priority]
  /\ jobs \in Seq(Job) /\ IsInjective(jobs)
  /\ lock \in Worker \cup {None}
  /\ next \in 0 .. Len(jobs) /\ (next = 0 <=> lock = None)
  /\ taken \in Job \cup {"none"}
  /\ due \subseteq Job /\ Job \ Delayed \subseteq due
  /\ ready \subseteq due

QueueInit ==
  /\ priority \in [Job -> Priority]
  /\ jobs = <<>> /\ lock = None /\ next = 0
  /\ due = Job \ Delayed /\ taken = "none" /\ ready = {}

Weight(j) ==
  CASE priority[j] = 3 -> 1000
    [] priority[j] = 2 -> 100
    [] priority[j] = 0 -> 1
    [] OTHER -> 10

(* The less function that Push gives to sort.Slice.                        *)
Less(i, j) ==
  IF priority[i] # priority[j] THEN Weight(i) > Weight(j)
                               ELSE CreatedAt[i] < CreatedAt[j]

(* One round of insertion sort: j moves left past the jobs it is less      *)
(* than, and stops at the first one it is not.                             *)
Inserted(list, j) ==
  LET stay == {i \in 1 .. Len(list) : ~Less(j, list[i])}
  IN  InsertAt(list, IF stay = {} THEN 1 ELSE Max(stay) + 1, j)

Sorted(list) ==
  LET sorted[n \in 0 .. Len(list)] ==
        IF n = 0 THEN <<>> ELSE Inserted(sorted[n - 1], list[n])
  IN  sorted[Len(list)]

(* Mutant: the new job is left at the end of the list.                     *)
PushUnsorted(j) ==
  /\ lock = None
  /\ j \notin Queued
  /\ jobs' = Append(jobs, j)
  /\ UNCHANGED <<priority, lock, next, due, taken, ready>>

Push(j) ==
  /\ lock = None
  /\ j \notin Queued
  /\ jobs' = Sorted(Append(jobs, j))
  /\ UNCHANGED <<priority, lock, next, due, taken, ready>>

PopBegin(w) ==
  /\ lock = None
  /\ jobs # <<>>
  /\ lock' = w /\ next' = 1
  /\ ready' = due \cap Queued
  /\ UNCHANGED <<priority, jobs, due, taken>>

(* Mutant: Pop takes the first job it looks at, ready or not.              *)
PopUnready ==
  /\ lock # None
  /\ jobs' = RemoveAt(jobs, next)
  /\ lock' = None /\ next' = 0
  /\ taken' = jobs[next]
  /\ UNCHANGED <<priority, due, ready>>

PopReady ==
  /\ lock # None
  /\ jobs[next] \in due
  /\ jobs' = RemoveAt(jobs, next)
  /\ lock' = None /\ next' = 0
  /\ taken' = jobs[next]
  /\ UNCHANGED <<priority, due, ready>>

(* Mutant: the lock is kept after a scan that finds nothing.               *)
PopPassKeepingLock ==
  /\ lock # None
  /\ jobs[next] \notin due
  /\ next' = IF next < Len(jobs) THEN next + 1 ELSE 0
  /\ UNCHANGED <<priority, jobs, lock, due, taken, ready>>

PopPass ==
  /\ lock # None
  /\ jobs[next] \notin due
  /\ IF next < Len(jobs) THEN next' = next + 1 /\ UNCHANGED lock
                         ELSE next' = 0 /\ lock' = None
  /\ UNCHANGED <<priority, jobs, due, taken, ready>>

Clear ==
  /\ lock = None
  /\ jobs' = <<>>
  /\ UNCHANGED <<priority, lock, next, due, taken, ready>>

RemoveJob(j) ==
  /\ lock = None
  /\ \E i \in DOMAIN jobs : jobs[i] = j /\ jobs' = RemoveAt(jobs, i)
  /\ UNCHANGED <<priority, lock, next, due, taken, ready>>

(* The clock passes a job's ScheduledAt, while a scan is under way or not. *)
FallDue(j) ==
  /\ j \notin due
  /\ due' = due \cup {j}
  /\ UNCHANGED <<priority, jobs, lock, next, taken, ready>>

QueueNext ==
  \/ \E j \in Job : Push(j) \/ RemoveJob(j) \/ FallDue(j)
  \/ \E w \in Worker : PopBegin(w)
  \/ PopReady \/ PopPass \/ Clear

QueueSpec == QueueInit /\ [][QueueNext]_queueVars
----------------------------------------------------------------------------
Known(j) == priority[j] \in 0 .. 3

Popped(j) == j \in Queued /\ lock # None /\ jobs' = RemoveAt(jobs, next)
               /\ jobs[next] = j

(***************************************************************************)
(* Pop serves by weight, and first in first out within a priority, all     *)
(* jobs that were ready when its scan began.  Across an unknown priority,  *)
(* which Less does not order against a known one of equal weight, only the *)
(* weight counts: the comparison is then no order, and two normal jobs may *)
(* stay in the wrong order on either side of the unknown one.              *)
(***************************************************************************)
ServedInOrder ==
  [][\A j \in Job : Popped(j) =>
       \A k \in ready \ {j} :
         /\ Weight(k) <= Weight(j)
         /\ (\A i \in Job : Known(i)) /\ priority[k] = priority[j] =>
              CreatedAt[j] <= CreatedAt[k]]_queueVars

Weights == [j \in Job |-> Weight(j)]

Bag == INSTANCE JobBag WITH bag <- Queued, weight <- Weights

(***************************************************************************)
(* The list, its lock and the scan implement the bag that module Jobs      *)
(* takes for a queue: only a due job is taken, and never ahead of a        *)
(* heavier one that is not delayed.                                        *)
(***************************************************************************)
ImplementsBag == Bag!BagSpec
=============================================================================
