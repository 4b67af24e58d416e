-------------------------------- MODULE Jobs --------------------------------
(***************************************************************************)
(* The background-job system of package jobs: a user queue and the         *)
(* dead-letter queue, the worker goroutines, the processor they share, the *)
(* manager's scheduled-job poller, and the application goroutines that     *)
(* call Enqueue.  A *Job is a shared pointer: workers, the poller and the  *)
(* application read and write its fields without a lock, so every write of *)
(* job.Status that another goroutine could interleave with is a step of    *)
(* its own.                                                                *)
(*                                                                         *)
(* A queue is the set of its jobs; the list order, which Push keeps, is    *)
(* the constant Rank, and Pop takes a job as JobBag says; module           *)
(* MemoryQueue models the list, the lock and the scan step by step.        *)
(* Time is abstracted to whether a job's ScheduledAt is unset, in the      *)
(* future or in the past.                                                  *)
(***************************************************************************)
EXTENDS Naturals, FiniteSets

CONSTANTS
  Job,              \* the *Job values the application creates
  Worker,           \* worker goroutines, running or still to be started
  InitialWorkers,   \* the DefaultWorkers that NewJobManager starts
  Producer,         \* goroutines that call Enqueue
  None,             \* nil
  MaxQueueSize,     \* ManagerConfig.MaxQueueSize; 0 means unlimited
  MaxAttempts,      \* what getMaxAttempts returns for each job
  Rank,             \* position of each job in the queue's sort order
  Delayed,          \* jobs created by EnqueueIn/EnqueueAt
  Handled,          \* jobs whose type has a registered handler
  Reenqueue         \* does the application enqueue a job again when a
                    \* listener is told that it is being retried?

ASSUME JobsAssumption ==
  /\ IsFiniteSet(Job) /\ IsFiniteSet(Producer) /\ IsFiniteSet(Worker)
  /\ None \notin Job
  /\ InitialWorkers \subseteq Worker
  /\ MaxQueueSize \in Nat
  /\ MaxAttempts \in [Job -> Nat]
  /\ Rank \in [Job -> Nat]
  /\ \A i, j \in Job : Rank[i] = Rank[j] => i = j
  /\ Delayed \subseteq Job
  /\ Handled \subseteq Job
  /\ Reenqueue \in BOOLEAN

VARIABLES
  status,      \* job.Status
  attempts,    \* job.Attempts
  sched,       \* job.ScheduledAt: unset, in the future, in the past
  queued,      \* the user queue
  dead,        \* the dead-letter queue
  app,         \* jobs in the application's hands: new, or handed to a
               \* listener by the retrying event
  ppc, pjob,   \* each producer's place in Enqueue, and its job
  peak,        \* history: the most calls of Enqueue in progress at once
  wpc, wjob,   \* each worker's place in its loop, and its job
  cancelled,   \* workers whose context is cancelled
  poller,      \* the place of runScheduledJobProcessor
  pollSet,     \* jobs of its snapshot still to look at
  pollJob,     \* the job it found ready and is about to write
  manager,     \* jm.running and jm.ctx: "stopped" and "restarted" are the
               \* two values in which jm.ctx is cancelled for good
  metrics,     \* ProcessorMetrics
  runs,        \* history: executions of each job
  outcome      \* history: how the life of each job ended

jobVars  == <<status, attempts, sched>>
prodVars == <<app, ppc, pjob, peak>>
workVars == <<wpc, wjob>>
pollVars == <<poller, pollSet, pollJob>>
mgrVars  == <<manager, cancelled>>
histVars == <<runs, outcome>>
vars == <<jobVars, queued, dead, prodVars, workVars, pollVars, mgrVars,
          metrics, histVars>>

Status == {"pending", "scheduled", "running", "completed", "failed"}
Outcome == {"none", "succeeded", "unhandled", "cleared", "purged"}
WorkerPc == {"off", "pop", "scan", "got", "running", "ok", "errored",
             "failing", "burying", "exited"}
Holding == {"got", "running", "ok", "errored", "failing", "burying"}

(***************************************************************************)
(* Type invariant: the values each field can take, that a place that holds *)
(* a job holds one, and that no poller runs before the first Start.        *)
(***************************************************************************)
TypeOK ==
  /\ status \in [Job -> Status]
  /\ attempts \in [Job -> Nat]
  /\ sched \in [Job -> {"none", "future", "past"}]
  /\ queued \subseteq Job /\ dead \subseteq Job /\ app \subseteq Job
  /\ ppc \in [Producer -> {"idle", "sized"}]
  /\ pjob \in [Producer -> Job \cup {None}]
  /\ \A p \in Producer : ppc[p] = "sized" <=> pjob[p] \in Job
  /\ peak \in Nat
  /\ wpc \in [Worker -> WorkerPc]
  /\ wjob \in [Worker -> Job \cup {None}]
  /\ \A w \in Worker : wpc[w] \in Holding <=> wjob[w] \in Job
  /\ cancelled \subseteq Worker
  /\ poller \in {"off", "idle", "scan", "write"}
  /\ pollSet \subseteq Job
  /\ pollJob \in Job \cup {None}
  /\ poller = "write" <=> pollJob \in Job
  /\ manager \in {"new", "running", "stopped", "restarted"}
  /\ manager = "new" => poller = "off"
  /\ metrics \in [processed : Nat, completed : Nat, failed : Nat, retried : Nat]
  /\ runs \in [Job -> Nat]
  /\ outcome \in [Job -> Outcome]

Init ==
  /\ status = [j \in Job |-> IF j \in Delayed THEN "scheduled" ELSE "pending"]
  /\ attempts = [j \in Job |-> 0]
  /\ sched = [j \in Job |-> IF j \in Delayed THEN "future" ELSE "none"]
  /\ queued = {} /\ dead = {} /\ app = Job
  /\ ppc = [p \in Producer |-> "idle"] /\ pjob = [p \in Producer |-> None]
  /\ peak = 1
  /\ wpc = [w \in Worker |-> IF w \in InitialWorkers THEN "pop" ELSE "off"]
  /\ wjob = [w \in Worker |-> None]
  /\ cancelled = {}
  /\ poller = "off" /\ pollSet = {} /\ pollJob = None
  /\ manager = "new"
  /\ metrics = [processed |-> 0, completed |-> 0, failed |-> 0, retried |-> 0]
  /\ runs = [j \in Job |-> 0]
  /\ outcome = [j \in Job |-> "none"]

(* Mutants: a pending status taken for due; delayed jobs never ready.      *)
IsReadyIfPending(j) ==
  status[j] = "pending" \/ (status[j] = "scheduled" /\ sched[j] = "past")
IsReadyUndelayed(j) == status[j] = "pending" /\ sched[j] = "none"

IsReady(j) ==
  /\ status[j] \in {"pending", "scheduled"}
  /\ IF sched[j] = "none" THEN status[j] = "pending" ELSE sched[j] = "past"

CtxDone == manager \in {"stopped", "restarted"}

Ready == {j \in queued : IsReady(j)}

----------------------------------------------------------------------------
(* Enqueue: the size check and the push take the queue's lock separately.  *)

(* Mutant: off by one.                                                     *)
QueueHasRoomForOneMore ==
  MaxQueueSize = 0 \/ Cardinality(queued) <= MaxQueueSize

QueueHasRoom == MaxQueueSize = 0 \/ Cardinality(queued) < MaxQueueSize

(* The calls that have seen room and not pushed yet.                       *)
InProgress == {p \in Producer : ppc[p] = "sized"}

EnqueueCheckSize(p, j) ==
  /\ ppc[p] = "idle"
  /\ j \in app
  /\ attempts[j] = 0 \/ Reenqueue
  /\ QueueHasRoom
  /\ app' = app \ {j}
  /\ ppc' = [ppc EXCEPT ![p] = "sized"]
  /\ pjob' = [pjob EXCEPT ![p] = j]
  /\ LET calls == Cardinality(InProgress')
     IN  peak' = IF calls > peak THEN calls ELSE peak
  /\ UNCHANGED <<jobVars, queued, dead, workVars, pollVars, mgrVars, metrics,
                 histVars>>

EnqueuePush(p) ==
  /\ ppc[p] = "sized"
  /\ queued' = queued \cup {pjob[p]}
  /\ ppc' = [ppc EXCEPT ![p] = "idle"]
  /\ pjob' = [pjob EXCEPT ![p] = None]
  /\ UNCHANGED <<jobVars, dead, app, peak, workVars, pollVars, mgrVars, metrics,
                 histVars>>

ClearQueue ==
  /\ queued # {}
  /\ queued' = {}
  /\ outcome' = [j \in Job |-> IF j \in queued THEN "cleared" ELSE outcome[j]]
  /\ UNCHANGED <<jobVars, dead, prodVars, workVars, pollVars, mgrVars, metrics,
                 runs>>

ClearDeadLetter ==
  /\ dead # {}
  /\ dead' = {}
  /\ outcome' = [j \in Job |-> IF j \in dead THEN "purged" ELSE outcome[j]]
  /\ UNCHANGED <<jobVars, queued, prodVars, workVars, pollVars, mgrVars,
                 metrics, runs>>

----------------------------------------------------------------------------
(* A worker: Pop, ProcessJob, and round again until it is cancelled.       *)

WorkerGoto(w, from, to) ==
  /\ wpc[w] = from
  /\ wpc' = [wpc EXCEPT ![w] = to]

WorkerRelease(w, from) ==
  /\ WorkerGoto(w, from, "pop")
  /\ wjob' = [wjob EXCEPT ![w] = None]

(* Mutant: Pop never looks at the context.                                 *)
PopIgnoreContext(w) ==
  /\ WorkerGoto(w, "pop", "scan")
  /\ UNCHANGED <<jobVars, queued, dead, prodVars, wjob, pollVars, mgrVars,
                 metrics, histVars>>

PopCheckContext(w) ==
  /\ WorkerGoto(w, "pop", IF w \in cancelled THEN "exited" ELSE "scan")
  /\ UNCHANGED <<jobVars, queued, dead, prodVars, wjob, pollVars, mgrVars,
                 metrics, histVars>>

(* Mutant: the job found ready is returned but stays in the list.          *)
PopTakeWithoutRemoval(w) ==
  \E j \in Ready :
    /\ WorkerGoto(w, "scan", "got")
    /\ wjob' = [wjob EXCEPT ![w] = j]
    /\ UNCHANGED <<jobVars, queued, dead, prodVars, pollVars, mgrVars, metrics,
                   histVars>>

(* A delayed job may fall due behind the scan, and be passed over.         *)
PopTake(w) ==
  \E j \in Ready :
    /\ \A k \in Ready : Rank[k] < Rank[j] => sched[k] # "none"
    /\ WorkerGoto(w, "scan", "got")
    /\ wjob' = [wjob EXCEPT ![w] = j]
    /\ queued' = queued \ {j}
    /\ UNCHANGED <<jobVars, dead, prodVars, pollVars, mgrVars, metrics,
                   histVars>>

PopNothingReady(w) ==
  /\ Ready = {}
  /\ WorkerGoto(w, "scan", "pop")
  /\ UNCHANGED <<jobVars, queued, dead, prodVars, wjob, pollVars, mgrVars,
                 metrics, histVars>>

StartProcessing(w) ==
  /\ WorkerGoto(w, "got", "running")
  /\ status' = [status EXCEPT ![wjob[w]] = "running"]
  /\ metrics' = [metrics EXCEPT !.processed = @ + 1]
  /\ runs' = [runs EXCEPT ![wjob[w]] = @ + 1]
  /\ UNCHANGED <<attempts, sched, queued, dead, prodVars, wjob, pollVars,
                 mgrVars, outcome>>

(* executeJob: no handler marks the job failed at once ...                 *)
ExecuteUnhandled(w) ==
  /\ WorkerGoto(w, "running", "errored")
  /\ wjob[w] \notin Handled
  /\ status' = [status EXCEPT ![wjob[w]] = "failed"]
  /\ UNCHANGED <<attempts, sched, queued, dead, prodVars, wjob, pollVars,
                 mgrVars, metrics, histVars>>

(* ... and a handler returns nil or an error, a timeout being an error.    *)
ExecuteHandler(w) ==
  /\ wjob[w] \in Handled
  /\ \E result \in {"ok", "errored"} : WorkerGoto(w, "running", result)
  /\ UNCHANGED <<jobVars, queued, dead, prodVars, wjob, pollVars, mgrVars,
                 metrics, histVars>>

(* Mutant: incrementCompleted forgotten.                                   *)
CompleteUncounted(w) ==
  /\ WorkerRelease(w, "ok")
  /\ status' = [status EXCEPT ![wjob[w]] = "completed"]
  /\ outcome' = [outcome EXCEPT ![wjob[w]] = "succeeded"]
  /\ UNCHANGED <<attempts, sched, queued, dead, prodVars, pollVars, mgrVars,
                 metrics, runs>>

Complete(w) ==
  /\ WorkerRelease(w, "ok")
  /\ status' = [status EXCEPT ![wjob[w]] = "completed"]
  /\ metrics' = [metrics EXCEPT !.completed = @ + 1]
  /\ outcome' = [outcome EXCEPT ![wjob[w]] = "succeeded"]
  /\ UNCHANGED <<attempts, sched, queued, dead, prodVars, pollVars, mgrVars,
                 runs>>

(* ProcessJob trusts job.Status to tell whether executeJob already failed  *)
(* the job.                                                                *)
ReturnUnhandled(w) ==
  /\ WorkerRelease(w, "errored")
  /\ status[wjob[w]] = "failed"
  /\ outcome' = [outcome EXCEPT ![wjob[w]] = "unhandled"]
  /\ UNCHANGED <<jobVars, queued, dead, prodVars, pollVars, mgrVars, metrics,
                 runs>>

BeginFailure(w) ==
  /\ WorkerGoto(w, "errored", "failing")
  /\ status[wjob[w]] # "failed"
  /\ metrics' = [metrics EXCEPT !.failed = @ + 1]
  /\ UNCHANGED <<jobVars, queued, dead, prodVars, wjob, pollVars, mgrVars,
                 histVars>>

(* The count goes up only with the retry: MaxAttempts bounds the retries.   *)
ShouldRetry(j) == attempts[j] < MaxAttempts[j]

(* scheduleRetry: the job is not pushed to any queue; the retrying event   *)
(* hands it to the application's listeners.                                *)
ScheduleRetry(w) ==
  /\ WorkerRelease(w, "failing")
  /\ ShouldRetry(wjob[w])
  /\ attempts' = [attempts EXCEPT ![wjob[w]] = @ + 1]
  /\ sched' = [sched EXCEPT ![wjob[w]] = "future"]
  /\ status' = [status EXCEPT ![wjob[w]] = "scheduled"]
  /\ metrics' = [metrics EXCEPT !.retried = @ + 1]
  /\ app' = app \cup {wjob[w]}
  /\ UNCHANGED <<queued, dead, ppc, pjob, peak, pollVars, mgrVars, histVars>>

(* Mutant: the job is failed for good without asking shouldRetryJob.       *)
MarkFailedAtOnce(w) ==
  /\ WorkerGoto(w, "failing", "burying")
  /\ status' = [status EXCEPT ![wjob[w]] = "failed"]
  /\ UNCHANGED <<attempts, sched, queued, dead, prodVars, wjob, pollVars,
                 mgrVars, metrics, histVars>>

MarkFailed(w) ==
  /\ WorkerGoto(w, "failing", "burying")
  /\ ~ShouldRetry(wjob[w])
  /\ status' = [status EXCEPT ![wjob[w]] = "failed"]
  /\ UNCHANGED <<attempts, sched, queued, dead, prodVars, wjob, pollVars,
                 mgrVars, metrics, histVars>>

MoveToDeadLetter(w) ==
  /\ WorkerRelease(w, "burying")
  /\ dead' = dead \cup {wjob[w]}
  /\ UNCHANGED <<jobVars, queued, prodVars, pollVars, mgrVars, metrics,
                 histVars>>

WorkerStep(w) ==
  \/ PopCheckContext(w)  \/ PopTake(w)         \/ PopNothingReady(w)
  \/ StartProcessing(w)  \/ ExecuteUnhandled(w) \/ ExecuteHandler(w)
  \/ Complete(w)         \/ ReturnUnhandled(w) \/ BeginFailure(w)
  \/ ScheduleRetry(w)    \/ MarkFailed(w)      \/ MoveToDeadLetter(w)

----------------------------------------------------------------------------
(* The poller: a snapshot under the queue's lock, then, without it, a read *)
(* of each job and a write of its status.                                  *)

PollSnapshot ==
  /\ poller = "idle"
  /\ \E q \in {queued, dead} :
       pollSet' = {j \in q : status[j] = "scheduled"}
  /\ pollSet' # {}
  /\ poller' = "scan"
  /\ UNCHANGED <<jobVars, queued, dead, prodVars, workVars, pollJob, mgrVars,
                 metrics, histVars>>

PollCheck ==
  /\ poller = "scan"
  /\ \E j \in pollSet :
       /\ pollSet' = pollSet \ {j}
       /\ \/ /\ IsReady(j)
             /\ poller' = "write" /\ pollJob' = j
          \/ /\ ~IsReady(j)
             /\ poller' = IF pollSet' = {} THEN "idle" ELSE "scan"
             /\ UNCHANGED pollJob
  /\ UNCHANGED <<jobVars, queued, dead, prodVars, workVars, mgrVars, metrics,
                 histVars>>

PollWrite ==
  /\ poller = "write"
  /\ status' = [status EXCEPT ![pollJob] = "pending"]
  /\ poller' = IF pollSet = {} THEN "idle" ELSE "scan"
  /\ pollJob' = None
  /\ UNCHANGED <<attempts, sched, queued, dead, prodVars, workVars, pollSet,
                 mgrVars, metrics, histVars>>

PollExit ==
  /\ poller = "idle"
  /\ CtxDone
  /\ poller' = "off"
  /\ UNCHANGED <<jobVars, queued, dead, prodVars, workVars, pollSet, pollJob,
                 mgrVars, metrics, histVars>>

PollerStep == PollSnapshot \/ PollCheck \/ PollWrite \/ PollExit

----------------------------------------------------------------------------
(* The manager, the pool (ScaleQueue, PauseQueue, ResumeQueue) and time.   *)

Started == {w \in Worker : wpc[w] # "off"}

(* After a Stop the context stays cancelled, and the goroutine that a      *)
(* second Start spawns returns at once.                                    *)
Start ==
  /\ \/ manager = "new" /\ manager' = "running" /\ poller' = "idle"
     \/ manager = "stopped" /\ manager' = "restarted" /\ UNCHANGED poller
  /\ UNCHANGED <<jobVars, queued, dead, prodVars, workVars, pollSet, pollJob,
                 cancelled, metrics, histVars>>

Stop ==
  /\ manager \in {"running", "restarted"}
  /\ manager' = "stopped"
  /\ cancelled' = Started
  /\ UNCHANGED <<jobVars, queued, dead, prodVars, workVars, pollVars, metrics,
                 histVars>>

StartWorker(w) ==
  /\ WorkerGoto(w, "off", "pop")
  /\ UNCHANGED <<jobVars, queued, dead, prodVars, wjob, pollVars, mgrVars,
                 metrics, histVars>>

CancelWorker(w) ==
  /\ w \in Started \ cancelled
  /\ cancelled' = cancelled \cup {w}
  /\ UNCHANGED <<jobVars, queued, dead, prodVars, workVars, pollVars, manager,
                 metrics, histVars>>

Tick(j) ==
  /\ sched[j] = "future"
  /\ sched' = [sched EXCEPT ![j] = "past"]
  /\ UNCHANGED <<status, attempts, queued, dead, prodVars, workVars, pollVars,
                 mgrVars, metrics, histVars>>

Next ==
  \/ \E p \in Producer : EnqueuePush(p) \/ \E j \in Job : EnqueueCheckSize(p, j)
  \/ \E w \in Worker : WorkerStep(w) \/ StartWorker(w) \/ CancelWorker(w)
  \/ PollerStep
  \/ ClearQueue \/ ClearDeadLetter \/ Start \/ Stop
  \/ \E j \in Job : Tick(j)

Spec == Init /\ [][Next]_vars

(***************************************************************************)
(* The scheduler runs every goroutine that can take a step, handlers       *)
(* return, and time passes; nothing obliges the application to enqueue,    *)
(* clear, scale, start or stop.  The poller's select picks at random among *)
(* its ready cases, so it cannot miss a cancelled context for ever: that   *)
(* choice is strongly fair.                                                *)
(***************************************************************************)
Fairness ==
  /\ \A w \in Worker : WF_vars(WorkerStep(w))
  /\ \A p \in Producer : WF_vars(EnqueuePush(p))
  /\ WF_vars(PollerStep) /\ SF_vars(PollExit)
  /\ \A j \in Job : WF_vars(Tick(j))

FairSpec == Spec /\ Fairness

----------------------------------------------------------------------------
(* Properties.                                                             *)

Ended(j) == outcome[j] # "none"

Owner ==
  {<<"app", None>>, <<"queue", None>>, <<"dead", None>>, <<"ended", None>>}
    \cup ({"producer"} \X Producer) \cup ({"worker"} \X Worker)

Owners(j) ==
  {o \in Owner :
     \/ o[1] = "app"      /\ j \in app
     \/ o[1] = "queue"    /\ j \in queued
     \/ o[1] = "dead"     /\ j \in dead
     \/ o[1] = "ended"    /\ Ended(j)
     \/ o[1] = "producer" /\ pjob[o[2]] = j
     \/ o[1] = "worker"   /\ wjob[o[2]] = j}

(***************************************************************************)
(* Every job is in exactly one place: with the application, in one         *)
(* Enqueue call, in one queue, with one worker, or at its end.  Concurrent *)
(* Pop, scheduleRetry and Enqueue neither lose nor duplicate a job.        *)
(***************************************************************************)
OneOwner == \A j \in Job : \E o \in Owner : Owners(j) = {o}

(***************************************************************************)
(* The racy size check of Enqueue can overrun MaxQueueSize, but only by    *)
(* the number of Enqueue calls that were ever in progress beside another:  *)
(* while calls follow one another the limit is kept exactly, and never do  *)
(* the overruns of separate races add up.                                  *)
(***************************************************************************)
OverrunBounded ==
  MaxQueueSize > 0 =>
    Cardinality(queued) + 1 <= MaxQueueSize + peak

(***************************************************************************)
(* No job reaches the dead-letter queue while it has an attempt left: it   *)
(* was executed MaxAttempts times at least, however its executions, its    *)
(* retries and the poller's writes were interleaved (handleJobFailure).    *)
(* That it is executed once more than that is AttemptsAreTotal below.      *)
(***************************************************************************)
DeadLetterExhausted == \A j \in dead : runs[j] >= MaxAttempts[j]

(***************************************************************************)
(* The four counters of ProcessorMetrics agree with what became of the     *)
(* jobs: an execution counted as processed completed, failed, is under way *)
(* or had no handler; a failure was retried, buried or is being buried.    *)
(***************************************************************************)
MetricsReconcile ==
  LET At(places) == Cardinality({w \in Worker : wpc[w] \in places})
      With(end)  == Cardinality({j \in Job : outcome[j] = end})
  IN  /\ metrics.completed = With("succeeded")
      /\ metrics.failed = metrics.retried + At({"failing", "burying"})
                            + Cardinality(dead) + With("purged")
      /\ metrics.processed = metrics.completed + metrics.failed
                            + At({"running", "ok", "errored"})
                            + With("unhandled")

(***************************************************************************)
(* No execution starts before the job's ScheduledAt, neither the delay of  *)
(* EnqueueIn nor that of a retry, whatever the poller writes meanwhile.    *)
(***************************************************************************)
DelayRespected ==
  [][\A j \in Job : runs'[j] > runs[j] => sched[j] # "future"]_vars

Live == {w \in Worker : wpc[w] \notin {"off", "exited"} /\ w \notin cancelled}

(***************************************************************************)
(* While some worker is left running, a job in the queue is popped sooner  *)
(* or later, delayed jobs included.                                        *)
(***************************************************************************)
QueuedJobIsTaken ==
  \A j \in Job : j \in queued ~> (j \notin queued \/ Live = {})

(***************************************************************************)
(* Cancellation ends every worker goroutine it reaches, after at most the  *)
(* job in hand, and the poller (worker.run, runScheduledJobProcessor).     *)
(***************************************************************************)
CancelledStops ==
  /\ \A w \in Worker : w \in cancelled ~> wpc[w] = "exited"
  /\ CtxDone ~> poller = "off"

----------------------------------------------------------------------------
(* The job system implements the abstract life of a job.                   *)

Stage(j) ==
  CASE outcome[j] = "succeeded" -> "succeeded"
    [] outcome[j] = "unhandled" -> "unhandled"
    [] outcome[j] \in {"cleared", "purged"} -> "discarded"
    [] j \in dead -> "dead"
    [] j \in queued -> "waiting"
    [] \E w \in Worker : wjob[w] = j -> "executing"
    [] OTHER -> "held"

Life == INSTANCE JobLifecycle WITH stage <- [j \in Job |-> Stage(j)],
                                   tries <- attempts

(***************************************************************************)
(* Every step of workers, poller, producers and manager is a step of some  *)
(* job's life, or none: the code follows the promised life cycle.          *)
(***************************************************************************)
ImplementsLifecycle == Life!LifeSpec

----------------------------------------------------------------------------
(***************************************************************************)
(* What comments and tests say and the code does not do.                   *)
(***************************************************************************)

(* processor_test.go: a job that ProcessJob completed has that status.     *)
CompletedStaysCompleted ==
  \A j \in Job : outcome[j] = "succeeded" => status[j] = "completed"

(* manager_test.go: "MaxAttempts = 3  // Allow 3 attempts total".          *)
AttemptsAreTotal ==
  \A j \in Job : MaxAttempts[j] > 0 => runs[j] <= MaxAttempts[j]

(* How far the code departs from it: by one execution, never by more.      *)
RunsBounded == \A j \in Job : runs[j] <= MaxAttempts[j] + 1

(* manager_test.go: the scheduled job processor executes retries.          *)
RetryRunsAgain ==
  \A j \in Job : attempts[j] > 0 ~> (runs[j] > attempts[j] \/ Live = {})
=============================================================================
