----------------------------- MODULE JobsProofs -----------------------------
(***************************************************************************)
(* Theorems about module Jobs for every number of jobs, workers and        *)
(* producers.                                                              *)
(***************************************************************************)
EXTENDS Jobs, FiniteSetTheorems, TLAPS

USE JobsAssumption DEF JobsAssumption

(* Every field of a job, every place of a worker, a producer or the poller *)
(* stays in its domain, and a worker holds a job exactly at the places of  *)
(* processNextJob between Pop and its return.                              *)
THEOREM TypeCorrect == Spec => []TypeOK
<1>1. Init => TypeOK
  <2> SUFFICES ASSUME Init PROVE TypeOK
    OBVIOUS
  <2> USE DEF Init, TypeOK, Status, WorkerPc, Holding, Outcome
  <2>1. status \in [Job -> Status] /\ sched \in [Job -> {"none", "future", "past"}]
    OBVIOUS
  <2>2. wpc \in [Worker -> WorkerPc] /\ wjob \in [Worker -> Job \cup {None}]
    OBVIOUS
  <2>3. \A w \in Worker : wpc[w] \in Holding <=> wjob[w] \in Job
    OBVIOUS
  <2> QED
    BY <2>1, <2>2, <2>3
<1>2. TypeOK /\ [Next]_vars => TypeOK'
  <2> SUFFICES ASSUME TypeOK, [Next]_vars PROVE TypeOK'
    OBVIOUS
  <2> USE DEF TypeOK, Status, WorkerPc, Holding, Outcome, jobVars, prodVars,
              workVars, pollVars, mgrVars, histVars, WorkerGoto, WorkerRelease
  <2>1. ASSUME NEW p \in Producer, EnqueuePush(p) PROVE TypeOK'
    BY <2>1 DEF EnqueuePush
  <2>2. ASSUME NEW p \in Producer, NEW j \in Job, EnqueueCheckSize(p, j)
        PROVE TypeOK'
    <3>1. Cardinality(InProgress') \in Nat
      BY FS_Subset, FS_CardinalityType, JobsAssumption DEF InProgress
    <3>2. peak' \in Nat
      BY <2>2, <3>1 DEF EnqueueCheckSize
    <3>3. pjob[p] = None /\ j \in Job /\ None \notin Job
      BY <2>2, JobsAssumption DEF EnqueueCheckSize
    <3> QED
      BY <2>2, <3>2, <3>3 DEF EnqueueCheckSize
  <2>3. ASSUME NEW w \in Worker, WorkerStep(w) PROVE TypeOK'
    <3>1. CASE PopCheckContext(w)  BY <3>1 DEF PopCheckContext
    <3>2. CASE PopTake(w)          BY <3>2 DEF PopTake, Ready
    <3>3. CASE PopNothingReady(w)  BY <3>3 DEF PopNothingReady
    <3>4. CASE StartProcessing(w)  BY <3>4 DEF StartProcessing
    <3>5. CASE ExecuteUnhandled(w) BY <3>5 DEF ExecuteUnhandled
    <3>6. CASE ExecuteHandler(w)   BY <3>6 DEF ExecuteHandler
    <3>7. CASE Complete(w)         BY <3>7 DEF Complete
    <3>8. CASE ReturnUnhandled(w)  BY <3>8 DEF ReturnUnhandled
    <3>9. CASE BeginFailure(w)     BY <3>9 DEF BeginFailure
    <3>10. CASE ScheduleRetry(w)   BY <3>10 DEF ScheduleRetry
    <3>11. CASE MarkFailed(w)      BY <3>11 DEF MarkFailed
    <3>12. CASE MoveToDeadLetter(w) BY <3>12 DEF MoveToDeadLetter
    <3> QED
      BY <2>3, <3>1, <3>2, <3>3, <3>4, <3>5, <3>6, <3>7, <3>8, <3>9, <3>10,
         <3>11, <3>12 DEF WorkerStep
  <2>4. ASSUME NEW w \in Worker, StartWorker(w) \/ CancelWorker(w)
        PROVE TypeOK'
    BY <2>4 DEF StartWorker, CancelWorker, Started
  <2>5. CASE PollSnapshot  BY <2>5 DEF PollSnapshot
  <2>6. CASE PollCheck     BY <2>6 DEF PollCheck
  <2>7. CASE PollWrite     BY <2>7 DEF PollWrite
  <2>8. CASE PollExit      BY <2>8 DEF PollExit
  <2>9. CASE ClearQueue \/ ClearDeadLetter
    BY <2>9 DEF ClearQueue, ClearDeadLetter
  <2>10. CASE Start \/ Stop
    <3>1. CASE Start  BY <3>1 DEF Start
    <3>2. CASE Stop   BY <3>2 DEF Stop, Started
    <3> QED  BY <2>10, <3>1, <3>2
  <2>11. ASSUME NEW j \in Job, Tick(j) PROVE TypeOK'
    BY <2>11 DEF Tick
  <2>12. CASE UNCHANGED vars
    BY <2>12 DEF vars
  <2> HIDE DEF TypeOK
  <2> QED
    BY <2>1, <2>2, <2>3, <2>4, <2>5, <2>6, <2>7, <2>8, <2>9, <2>10, <2>11,
       <2>12 DEF Next, PollerStep
<1> QED
  BY <1>1, <1>2, PTL DEF Spec

----------------------------------------------------------------------------
(* Ownership: the strengthening of OneOwner that every step preserves.      *)

Exclusive(j) ==
  /\ j \in app => j \notin queued \cup dead /\ ~Ended(j)
  /\ j \in queued => j \notin dead /\ ~Ended(j)
  /\ j \in dead => ~Ended(j)
  /\ \A p \in Producer : pjob[p] = j =>
       /\ j \notin app \cup queued \cup dead /\ ~Ended(j)
       /\ \A q \in Producer : pjob[q] = j => q = p
  /\ \A w \in Worker : wjob[w] = j =>
       /\ j \notin app \cup queued \cup dead /\ ~Ended(j)
       /\ \A p \in Producer : pjob[p] # j
       /\ \A v \in Worker : wjob[v] = j => v = w

Somewhere(j) ==
  \/ j \in app \cup queued \cup dead
  \/ Ended(j)
  \/ \E p \in Producer : pjob[p] = j
  \/ \E w \in Worker : wjob[w] = j

Ownership == \A j \in Job : Exclusive(j) /\ Somewhere(j)

LEMMA OwnershipStep == TypeOK /\ Ownership /\ [Next]_vars => Ownership'
<1> SUFFICES ASSUME TypeOK, Ownership, [Next]_vars PROVE Ownership'
  OBVIOUS
<1> USE DEF TypeOK, Holding, Ownership, Exclusive, Somewhere, Ended, jobVars,
            prodVars, workVars, pollVars, mgrVars, histVars, WorkerGoto,
            WorkerRelease
<1>1. ASSUME NEW p \in Producer, EnqueuePush(p) PROVE Ownership'
  BY <1>1 DEF EnqueuePush
<1>2. ASSUME NEW p \in Producer, NEW j \in Job, EnqueueCheckSize(p, j)
      PROVE Ownership'
  BY <1>2 DEF EnqueueCheckSize
<1>3. ASSUME NEW w \in Worker, WorkerStep(w) PROVE Ownership'
  <2>1. CASE PopCheckContext(w)  BY <2>1 DEF PopCheckContext
  <2>2. CASE PopTake(w)          BY <2>2 DEF PopTake, Ready
  <2>3. CASE PopNothingReady(w)  BY <2>3 DEF PopNothingReady
  <2>4. CASE StartProcessing(w)  BY <2>4 DEF StartProcessing
  <2>5. CASE ExecuteUnhandled(w) BY <2>5 DEF ExecuteUnhandled
  <2>6. CASE ExecuteHandler(w)   BY <2>6 DEF ExecuteHandler
  <2>7. CASE Complete(w)         BY <2>7 DEF Complete
  <2>8. CASE ReturnUnhandled(w)  BY <2>8 DEF ReturnUnhandled
  <2>9. CASE BeginFailure(w)     BY <2>9 DEF BeginFailure
  <2>10. CASE ScheduleRetry(w)   BY <2>10 DEF ScheduleRetry
  <2>11. CASE MarkFailed(w)      BY <2>11 DEF MarkFailed
  <2>12. CASE MoveToDeadLetter(w) BY <2>12 DEF MoveToDeadLetter
  <2> QED
    BY <1>3, <2>1, <2>2, <2>3, <2>4, <2>5, <2>6, <2>7, <2>8, <2>9, <2>10,
       <2>11, <2>12 DEF WorkerStep
<1>4. ASSUME NEW w \in Worker, StartWorker(w) \/ CancelWorker(w)
      PROVE Ownership'
  BY <1>4 DEF StartWorker, CancelWorker
<1>5. CASE PollerStep
  BY <1>5 DEF PollerStep, PollSnapshot, PollCheck, PollWrite, PollExit
<1>6. CASE ClearQueue       BY <1>6 DEF ClearQueue
<1>7. CASE ClearDeadLetter  BY <1>7 DEF ClearDeadLetter
<1>8. CASE Start \/ Stop    BY <1>8 DEF Start, Stop
<1>9. ASSUME NEW j \in Job, Tick(j) PROVE Ownership'
  BY <1>9 DEF Tick
<1>10. CASE UNCHANGED vars
  BY <1>10 DEF vars
<1> HIDE DEF TypeOK, Ownership
<1> QED
  BY <1>1, <1>2, <1>3, <1>4, <1>5, <1>6, <1>7, <1>8, <1>9, <1>10 DEF Next

LEMMA OwnershipInit == Init => Ownership
  BY DEF Init, Ownership, Exclusive, Somewhere, Ended

(***************************************************************************)
(* For every set of jobs, workers and producers, each job is at all times  *)
(* in exactly one place: Pop, Enqueue, scheduleRetry, moveToDeadLetter and *)
(* the clears never lose a job and never give it to two goroutines.        *)
(***************************************************************************)
THEOREM OneOwnerTheorem == Spec => []OneOwner
<1>1. Ownership => OneOwner
  <2> SUFFICES ASSUME Ownership, NEW j \in Job
               PROVE  \E o \in Owner : Owners(j) = {o}
    BY DEF OneOwner
  <2> USE DEF Ownership, Exclusive, Owner, Owners
  <2>1. CASE j \in app
    <3> <<"app", None>> \in Owner /\ Owners(j) = {<<"app", None>>}
      BY <2>1
    <3> QED  OBVIOUS
  <2>2. CASE j \in queued
    <3> <<"queue", None>> \in Owner /\ Owners(j) = {<<"queue", None>>}
      BY <2>2
    <3> QED  OBVIOUS
  <2>3. CASE j \in dead
    <3> <<"dead", None>> \in Owner /\ Owners(j) = {<<"dead", None>>}
      BY <2>3
    <3> QED  OBVIOUS
  <2>4. CASE Ended(j)
    <3> <<"ended", None>> \in Owner /\ Owners(j) = {<<"ended", None>>}
      BY <2>4
    <3> QED  OBVIOUS
  <2>5. ASSUME NEW p \in Producer, pjob[p] = j
        PROVE  \E o \in Owner : Owners(j) = {o}
    <3> <<"producer", p>> \in Owner /\ Owners(j) = {<<"producer", p>>}
      BY <2>5
    <3> QED  OBVIOUS
  <2>6. ASSUME NEW w \in Worker, wjob[w] = j
        PROVE  \E o \in Owner : Owners(j) = {o}
    <3> <<"worker", w>> \in Owner /\ Owners(j) = {<<"worker", w>>}
      BY <2>6
    <3> QED  OBVIOUS
  <2> HIDE DEF Owner, Owners
  <2> QED
    BY <2>1, <2>2, <2>3, <2>4, <2>5, <2>6 DEF Somewhere
<1> QED
  BY <1>1, OwnershipInit, OwnershipStep, TypeCorrect, PTL DEF Spec

----------------------------------------------------------------------------
(* Counting executions: what links runs, attempts and a job's place.        *)

Begun == {"running", "ok", "errored", "failing", "burying"}

Counting ==
  /\ \A j \in Job :
       /\ attempts[j] <= MaxAttempts[j]
       /\ j \in app \cup queued => runs[j] = attempts[j]
       /\ j \in dead => attempts[j] = MaxAttempts[j] /\ runs[j] = attempts[j] + 1
       /\ Ended(j) => runs[j] <= attempts[j] + 1
  /\ \A p \in Producer : pjob[p] \in Job => runs[pjob[p]] = attempts[pjob[p]]
  /\ \A w \in Worker :
       /\ wpc[w] = "got" => runs[wjob[w]] = attempts[wjob[w]]
       /\ wpc[w] \in Begun => runs[wjob[w]] = attempts[wjob[w]] + 1
       /\ wpc[w] = "burying" => attempts[wjob[w]] = MaxAttempts[wjob[w]]

LEMMA NotLessIsEqual ==
  \A m, n \in Nat : m <= n /\ ~(m < n) => m = n
  OBVIOUS

LEMMA CountingStep ==
  TypeOK /\ Ownership /\ Counting /\ [Next]_vars => Counting'
<1> SUFFICES ASSUME TypeOK, Ownership, Counting, [Next]_vars PROVE Counting'
  OBVIOUS
<1> USE DEF TypeOK, WorkerPc, Holding, Ownership, Exclusive, Ended, Counting, Begun,
            jobVars, prodVars, workVars, pollVars, mgrVars, histVars,
            WorkerGoto, WorkerRelease
<1>1. ASSUME NEW p \in Producer, EnqueuePush(p) PROVE Counting'
  BY <1>1 DEF EnqueuePush
<1>2. ASSUME NEW p \in Producer, NEW j \in Job, EnqueueCheckSize(p, j)
      PROVE Counting'
  BY <1>2 DEF EnqueueCheckSize
<1>3. ASSUME NEW w \in Worker, WorkerStep(w) PROVE Counting'
  <2>1. CASE PopCheckContext(w)  BY <2>1 DEF PopCheckContext
  <2>2. CASE PopTake(w)          BY <2>2 DEF PopTake, Ready
  <2>3. CASE PopNothingReady(w)  BY <2>3 DEF PopNothingReady
  <2>4. CASE StartProcessing(w)  BY <2>4 DEF StartProcessing
  <2>5. CASE ExecuteUnhandled(w) BY <2>5 DEF ExecuteUnhandled
  <2>6. CASE ExecuteHandler(w)   BY <2>6 DEF ExecuteHandler
  <2>7. CASE Complete(w)         BY <2>7 DEF Complete
  <2>8. CASE ReturnUnhandled(w)  BY <2>8 DEF ReturnUnhandled
  <2>9. CASE BeginFailure(w)     BY <2>9 DEF BeginFailure
  <2>10. CASE ScheduleRetry(w)   BY <2>10 DEF ScheduleRetry, ShouldRetry
  <2>11. CASE MarkFailed(w)
    <3>1. wjob[w] \in Job
      BY <2>11 DEF MarkFailed
    <3>2. attempts[wjob[w]] <= MaxAttempts[wjob[w]]
      BY <3>1
    <3>3. ~(attempts[wjob[w]] < MaxAttempts[wjob[w]])
      BY <2>11 DEF MarkFailed, ShouldRetry
    <3>4. attempts[wjob[w]] \in Nat /\ MaxAttempts[wjob[w]] \in Nat
      BY <3>1
    <3>5. attempts[wjob[w]] = MaxAttempts[wjob[w]]
      BY <3>2, <3>3, <3>4, NotLessIsEqual, ZenonT(60)
    <3> QED
      BY <2>11, <3>1, <3>5 DEF MarkFailed
  <2>12. CASE MoveToDeadLetter(w) BY <2>12 DEF MoveToDeadLetter
  <2> QED
    BY <1>3, <2>1, <2>2, <2>3, <2>4, <2>5, <2>6, <2>7, <2>8, <2>9, <2>10,
       <2>11, <2>12 DEF WorkerStep
<1>4. ASSUME NEW w \in Worker, StartWorker(w) \/ CancelWorker(w)
      PROVE Counting'
  BY <1>4 DEF StartWorker, CancelWorker
<1>5. CASE PollerStep
  BY <1>5 DEF PollerStep, PollSnapshot, PollCheck, PollWrite, PollExit
<1>6. CASE ClearQueue       BY <1>6 DEF ClearQueue
<1>7. CASE ClearDeadLetter  BY <1>7 DEF ClearDeadLetter
<1>8. CASE Start \/ Stop    BY <1>8 DEF Start, Stop
<1>9. ASSUME NEW j \in Job, Tick(j) PROVE Counting'
  BY <1>9 DEF Tick
<1>10. CASE UNCHANGED vars
  BY <1>10 DEF vars
<1> HIDE DEF TypeOK, Ownership, Counting
<1> QED
  BY <1>1, <1>2, <1>3, <1>4, <1>5, <1>6, <1>7, <1>8, <1>9, <1>10 DEF Next

LEMMA CountingInit == Init => Counting
  BY DEF Init, Counting, Begun, Ended

LEMMA CountingAlways == Spec => [](TypeOK /\ Ownership /\ Counting)
  BY TypeCorrect, OwnershipInit, OwnershipStep, CountingInit, CountingStep, PTL
  DEF Spec

(***************************************************************************)
(* Whatever the interleaving of workers, poller and re-enqueueing          *)
(* listeners, a job is executed at most once more than the MaxAttempts     *)
(* that the comment of the test promises in total, ...                     *)
(***************************************************************************)
THEOREM RunsBoundedTheorem == Spec => []RunsBounded
<1>1. TypeOK /\ Ownership /\ Counting => RunsBounded
  <2> SUFFICES ASSUME TypeOK, Ownership, Counting, NEW j \in Job
               PROVE  runs[j] <= MaxAttempts[j] + 1
    BY DEF RunsBounded
  <2>1. attempts[j] <= MaxAttempts[j] /\ attempts[j] \in Nat /\ runs[j] \in Nat
        /\ MaxAttempts[j] \in Nat
    BY DEF TypeOK, Counting
  <2>2. runs[j] <= attempts[j] + 1
    BY DEF TypeOK, Holding, Ownership, Somewhere, Counting, Begun
  <2> QED
    BY <2>1, <2>2
<1> QED
  BY <1>1, CountingAlways, PTL

(***************************************************************************)
(* ... and it lies in the dead-letter queue only when it has used the      *)
(* attempts of its MaxAttempts.                                            *)
(***************************************************************************)
THEOREM DeadLetterTheorem == Spec => []DeadLetterExhausted
<1>1. TypeOK /\ Counting => DeadLetterExhausted
  BY DEF TypeOK, Counting, DeadLetterExhausted
<1> QED
  BY <1>1, CountingAlways, PTL

----------------------------------------------------------------------------
(* Delays: a job between Pop and MarkRunning is due.                        *)

TakenIsDue == \A w \in Worker : wpc[w] = "got" => sched[wjob[w]] # "future"

LEMMA TakenIsDueStep ==
  TypeOK /\ Ownership /\ TakenIsDue /\ [Next]_vars => TakenIsDue'
<1> SUFFICES ASSUME TypeOK, Ownership, TakenIsDue, [Next]_vars
             PROVE  TakenIsDue'
  OBVIOUS
<1> USE DEF TypeOK, Holding, Ownership, Exclusive, TakenIsDue, jobVars,
            prodVars, workVars, pollVars, mgrVars, histVars, WorkerGoto,
            WorkerRelease
<1>1. ASSUME NEW p \in Producer,
             EnqueuePush(p) \/ \E j \in Job : EnqueueCheckSize(p, j)
      PROVE  TakenIsDue'
  BY <1>1 DEF EnqueuePush, EnqueueCheckSize
<1>2. ASSUME NEW w \in Worker, WorkerStep(w) PROVE TakenIsDue'
  <2>1. CASE PopTake(w)
    BY <2>1 DEF PopTake, Ready, IsReady
  <2>2. CASE ScheduleRetry(w)
    BY <2>2 DEF ScheduleRetry
  <2>3. CASE \/ PopCheckContext(w)  \/ PopNothingReady(w)  \/ StartProcessing(w)
             \/ ExecuteUnhandled(w) \/ ExecuteHandler(w)   \/ BeginFailure(w)
             \/ MarkFailed(w)
    BY <2>3 DEF PopCheckContext, PopNothingReady, StartProcessing,
       ExecuteUnhandled, ExecuteHandler, BeginFailure, MarkFailed
  <2>4. CASE Complete(w) \/ ReturnUnhandled(w) \/ MoveToDeadLetter(w)
    BY <2>4 DEF Complete, ReturnUnhandled, MoveToDeadLetter
  <2> QED
    BY <1>2, <2>1, <2>2, <2>3, <2>4 DEF WorkerStep
<1>3. ASSUME NEW w \in Worker, StartWorker(w) \/ CancelWorker(w)
      PROVE TakenIsDue'
  BY <1>3 DEF StartWorker, CancelWorker
<1>4. CASE PollerStep
  BY <1>4 DEF PollerStep, PollSnapshot, PollCheck, PollWrite, PollExit
<1>5. CASE ClearQueue \/ ClearDeadLetter \/ Start \/ Stop
  BY <1>5 DEF ClearQueue, ClearDeadLetter, Start, Stop
<1>6. ASSUME NEW j \in Job, Tick(j) PROVE TakenIsDue'
  BY <1>6 DEF Tick
<1>7. CASE UNCHANGED vars
  BY <1>7 DEF vars
<1> HIDE DEF TypeOK, Ownership, TakenIsDue
<1> QED
  BY <1>1, <1>2, <1>3, <1>4, <1>5, <1>6, <1>7 DEF Next

(***************************************************************************)
(* No execution starts before its job's ScheduledAt, in any interleaving   *)
(* with the poller's unlocked writes of job.Status.                        *)
(***************************************************************************)
THEOREM DelayRespectedTheorem == Spec => DelayRespected
<1>1. Init => TakenIsDue
  BY DEF Init, TakenIsDue
<1>2. TypeOK /\ TakenIsDue /\ [Next]_vars =>
        [\A j \in Job : runs'[j] > runs[j] => sched[j] # "future"]_vars
  <2> SUFFICES ASSUME TypeOK, TakenIsDue, Next, NEW j \in Job, runs'[j] > runs[j]
               PROVE  sched[j] # "future"
    OBVIOUS
  <2>1. runs[j] \in Nat /\ ~(runs[j] > runs[j])
    BY DEF TypeOK
  <2>2. PICK w \in Worker : StartProcessing(w)
    BY <2>1 DEF Next, EnqueuePush, EnqueueCheckSize, WorkerStep,
       PopCheckContext, PopTake, PopNothingReady, ExecuteUnhandled,
       ExecuteHandler, Complete, ReturnUnhandled, BeginFailure, ScheduleRetry,
       MarkFailed, MoveToDeadLetter, StartWorker, CancelWorker, PollerStep,
       PollSnapshot, PollCheck, PollWrite, PollExit, ClearQueue,
       ClearDeadLetter, Start, Stop, Tick, histVars
  <2>3. runs' = [runs EXCEPT ![wjob[w]] = runs[wjob[w]] + 1] /\ wpc[w] = "got"
    BY <2>2 DEF StartProcessing, WorkerGoto
  <2>4. j = wjob[w]
    BY <2>1, <2>3 DEF TypeOK
  <2> QED
    BY <2>3, <2>4 DEF TakenIsDue
<1> QED
  BY <1>1, <1>2, TakenIsDueStep, CountingAlways, PTL DEF Spec, DelayRespected

----------------------------------------------------------------------------
(* The queue's bound.                                                       *)

Overrun ==
  /\ Cardinality(InProgress) <= peak
  /\ MaxQueueSize > 0 =>
       Cardinality(queued) + Cardinality(InProgress) < MaxQueueSize + peak

LEMMA Counts ==
  ASSUME TypeOK
  PROVE  /\ IsFiniteSet(queued) /\ IsFiniteSet(InProgress)
         /\ Cardinality(queued) \in Nat /\ Cardinality(InProgress) \in Nat
         /\ peak \in Nat
  BY JobsAssumption, FS_Subset, FS_CardinalityType DEF TypeOK, InProgress

LEMMA OverrunStep == TypeOK /\ Overrun /\ [Next]_vars => Overrun'
<1> SUFFICES ASSUME TypeOK, Overrun, [Next]_vars
             PROVE  Overrun'
  OBVIOUS
<1> USE JobsAssumption, Counts
<1>1. ASSUME NEW p \in Producer, EnqueuePush(p)
      PROVE  Overrun'
  <2>1. queued' = queued \cup {pjob[p]} /\ peak' = peak
    BY <1>1 DEF EnqueuePush
  <2>2. p \in InProgress /\ InProgress' = InProgress \ {p}
    BY <1>1 DEF EnqueuePush, InProgress, TypeOK
  <2>3. Cardinality(InProgress') = Cardinality(InProgress) - 1
    BY <2>2, FS_RemoveElement
  <2>4. Cardinality(queued') \in {Cardinality(queued), Cardinality(queued) + 1}
    BY <2>1, FS_AddElement
  <2> QED
    BY <2>1, <2>3, <2>4 DEF Overrun
<1>2. ASSUME NEW p \in Producer, NEW j \in Job, EnqueueCheckSize(p, j)
      PROVE  Overrun'
  <2>1. queued' = queued /\ (MaxQueueSize > 0 => Cardinality(queued) < MaxQueueSize)
    BY <1>2 DEF EnqueueCheckSize, QueueHasRoom
  <2>2. peak' = IF Cardinality(InProgress') > peak THEN Cardinality(InProgress')
                                                   ELSE peak
    BY <1>2 DEF EnqueueCheckSize
  <2>3. Cardinality(InProgress') \in Nat
    BY FS_Subset, FS_CardinalityType DEF InProgress
  <2> QED
    BY <2>1, <2>2, <2>3 DEF Overrun
<1>3. CASE UNCHANGED <<ppc, peak>> /\ queued' \subseteq queued
  <2>1. Cardinality(queued') <= Cardinality(queued) /\ Cardinality(queued') \in Nat
    BY <1>3, FS_Subset, FS_CardinalityType
  <2>2. InProgress' = InProgress /\ peak' = peak
    BY <1>3 DEF InProgress
  <2> QED
    BY <2>1, <2>2 DEF Overrun
<1>4. \/ UNCHANGED <<ppc, peak>> /\ queued' \subseteq queued
      \/ \E p \in Producer : EnqueuePush(p) \/ \E j \in Job : EnqueueCheckSize(p, j)
  BY DEF Next, WorkerStep, PopCheckContext, PopTake, PopNothingReady,
     StartProcessing, ExecuteUnhandled, ExecuteHandler, Complete,
     ReturnUnhandled, BeginFailure, ScheduleRetry, MarkFailed,
     MoveToDeadLetter, StartWorker, CancelWorker, PollerStep, PollSnapshot,
     PollCheck, PollWrite, PollExit, ClearQueue, ClearDeadLetter, Start, Stop,
     Tick, prodVars, vars
<1> QED
  BY <1>1, <1>2, <1>3, <1>4

(***************************************************************************)
(* However many goroutines call Enqueue, the queue exceeds MaxQueueSize by *)
(* less than the most of them that were ever in Enqueue at one time.       *)
(***************************************************************************)
THEOREM OverrunTheorem == Spec => []OverrunBounded
<1>1. Init => Overrun
  <2> SUFFICES ASSUME Init
               PROVE  Overrun
    OBVIOUS
  <2>1. queued = {} /\ InProgress = {} /\ peak = 1
    BY DEF Init, InProgress
  <2> QED
    BY <2>1, JobsAssumption, FS_EmptySet DEF Overrun
<1>2. TypeOK /\ Overrun => OverrunBounded
  <2> SUFFICES ASSUME TypeOK, Overrun, MaxQueueSize > 0
               PROVE  Cardinality(queued) + 1 <= MaxQueueSize + peak
    BY DEF OverrunBounded
  <2> QED
    BY Counts, JobsAssumption DEF Overrun
<1> QED
  BY <1>1, <1>2, OverrunStep, TypeCorrect, PTL DEF Spec

----------------------------------------------------------------------------
(* Refinement: every step is a step of module JobLifecycle, or none.        *)

Stages == [j \in Job |-> Stage(j)]

(* In a state where every job has one owner, the owner tells the stage.     *)
LEMMA StageByOwner ==
  ASSUME TypeOK, Ownership, NEW j \in Job
  PROVE  /\ \A p \in Producer : pjob[p] = j => Stage(j) = "held"
         /\ j \in app => Stage(j) = "held"
         /\ j \in queued => Stage(j) = "waiting"
         /\ j \in dead => Stage(j) = "dead"
         /\ \A w \in Worker : wjob[w] = j => Stage(j) = "executing"
  BY DEF TypeOK, Outcome, Ownership, Exclusive, Ended, Stage

LEMMA StageByOwnerAfter ==
  ASSUME TypeOK', Ownership', NEW j \in Job
  PROVE  /\ j \in app' => Stage(j)' = "held"
         /\ j \in queued' => Stage(j)' = "waiting"
         /\ j \in dead' => Stage(j)' = "dead"
         /\ \A w \in Worker : wjob'[w] = j => Stage(j)' = "executing"
         /\ outcome'[j] = "succeeded" => Stage(j)' = "succeeded"
         /\ outcome'[j] = "unhandled" => Stage(j)' = "unhandled"
         /\ outcome'[j] \in {"cleared", "purged"} => Stage(j)' = "discarded"
  BY DEF TypeOK, Outcome, Ownership, Exclusive, Ended, Stage

LEMMA RefinementStep ==
  TypeOK /\ Ownership /\ Counting /\ TypeOK' /\ Ownership' /\ [Next]_vars
    => [Life!LifeNext]_(Life!lifeVars)
<1> SUFFICES ASSUME TypeOK, Ownership, Counting, TypeOK', Ownership', [Next]_vars
             PROVE  Life!LifeNext \/ UNCHANGED <<Stages, attempts>>
  BY DEF Life!lifeVars, Stages
<1> USE DEF jobVars, prodVars, workVars, pollVars, mgrVars, histVars,
            WorkerGoto, WorkerRelease
<1>1. ASSUME UNCHANGED <<queued, dead, wjob, outcome, attempts>>
      PROVE  UNCHANGED <<Stages, attempts>>
  BY <1>1 DEF Stages, Stage
<1>2. ASSUME NEW k \in Job, NEW from, NEW to, Stage(k) = from, Stage(k)' = to,
             \A j \in Job : j # k => Stage(j)' = Stage(j)
      PROVE  Life!Advance(k, from, to)
  BY <1>2 DEF Life!Advance
<1>3. ASSUME NEW p \in Producer, EnqueuePush(p) PROVE Life!LifeNext
  <2>1. PICK k \in Job : k = pjob[p]
    BY <1>3 DEF EnqueuePush, TypeOK
  <2>2. Stage(k) = "held" /\ Stage(k)' = "waiting"
    BY <1>3, <2>1, StageByOwner, StageByOwnerAfter DEF EnqueuePush
  <2>3. \A j \in Job : j # k => Stage(j)' = Stage(j)
    BY <1>3, <2>1 DEF EnqueuePush, Stage
  <2>4. Life!Accept(k)
    BY <1>2, <1>3, <2>2, <2>3 DEF Life!Accept, EnqueuePush
  <2> QED
    BY <2>4 DEF Life!LifeNext
<1>4. ASSUME NEW w \in Worker, WorkerStep(w)
      PROVE  Life!LifeNext \/ UNCHANGED <<Stages, attempts>>
  <2>1. CASE PopTake(w)
    <3>1. PICK k \in Job : k \in queued /\ wjob' = [wjob EXCEPT ![w] = k]
                          /\ queued' = queued \ {k}
      BY <2>1 DEF PopTake, Ready, TypeOK
    <3>2. Stage(k) = "waiting" /\ Stage(k)' = "executing"
      BY <3>1, StageByOwner, StageByOwnerAfter DEF TypeOK
    <3>3. wjob[w] \notin Job
      BY <2>1 DEF PopTake, TypeOK, Holding
    <3>4. \A j \in Job : j # k => Stage(j)' = Stage(j)
      BY <2>1, <3>1, <3>3 DEF PopTake, Stage, TypeOK
    <3>5. Life!Execute(k)
      BY <1>2, <2>1, <3>2, <3>4 DEF Life!Execute, PopTake
    <3> QED
      BY <3>5 DEF Life!LifeNext
  <2>2. CASE \/ PopCheckContext(w)  \/ PopNothingReady(w)  \/ StartProcessing(w)
             \/ ExecuteUnhandled(w) \/ ExecuteHandler(w)   \/ BeginFailure(w)
             \/ MarkFailed(w)
    BY <1>1, <2>2 DEF PopCheckContext, PopNothingReady, StartProcessing,
       ExecuteUnhandled, ExecuteHandler, BeginFailure, MarkFailed
  <2>3. CASE \/ Complete(w) \/ ReturnUnhandled(w) \/ ScheduleRetry(w)
             \/ MoveToDeadLetter(w)
    <3>1. PICK k \in Job : k = wjob[w]
      BY <2>3 DEF Complete, ReturnUnhandled, ScheduleRetry, MoveToDeadLetter,
         TypeOK, Holding
    <3>2. /\ Stage(k) = "executing"
          /\ \A v \in Worker : v # w => wjob[v] # k
          /\ wjob' = [wjob EXCEPT ![w] = None]
      BY <2>3, <3>1, StageByOwner DEF Complete, ReturnUnhandled, ScheduleRetry,
         MoveToDeadLetter, Ownership, Exclusive
    <3>3. \A j \in Job : j # k => Stage(j)' = Stage(j)
      BY <2>3, <3>1, <3>2 DEF Complete, ReturnUnhandled, ScheduleRetry,
         MoveToDeadLetter, Stage, TypeOK
    <3>4. CASE Complete(w)
      <4>1. Stage(k)' = "succeeded"
        <5> outcome'[k] = "succeeded"
          BY <3>1, <3>4 DEF Complete, TypeOK
        <5> QED
          BY StageByOwnerAfter
      <4>2. Life!Succeed(k)
        BY <1>2, <3>2, <3>3, <3>4, <4>1 DEF Life!Succeed, Complete
      <4> QED
        BY <4>2 DEF Life!LifeNext
    <3>5. CASE ReturnUnhandled(w)
      <4>1. Stage(k)' = "unhandled"
        <5> outcome'[k] = "unhandled"
          BY <3>1, <3>5 DEF ReturnUnhandled, TypeOK
        <5> QED
          BY StageByOwnerAfter
      <4>2. Life!Ignore(k)
        BY <1>2, <3>2, <3>3, <3>5, <4>1 DEF Life!Ignore, ReturnUnhandled
      <4> QED
        BY <4>2 DEF Life!LifeNext
    <3>6. CASE ScheduleRetry(w)
      <4>1. Stage(k)' = "held"
        BY <3>1, <3>6, StageByOwnerAfter DEF ScheduleRetry
      <4>2. Life!Retry(k)
        <5>1. Life!Advance(k, "executing", "held")
          BY <1>2, <3>2, <3>3, <4>1
        <5>2. attempts[k] < MaxAttempts[k]
              /\ attempts' = [attempts EXCEPT ![k] = attempts[k] + 1]
          BY <3>1, <3>6 DEF ScheduleRetry, ShouldRetry
        <5> QED
          BY <5>1, <5>2 DEF Life!Retry
      <4> QED
        BY <4>2 DEF Life!LifeNext
    <3>7. CASE MoveToDeadLetter(w)
      <4>1. Stage(k)' = "dead" /\ attempts[k] = MaxAttempts[k]
        BY <3>1, <3>7, StageByOwnerAfter DEF MoveToDeadLetter, Counting
      <4>2. Life!Bury(k)
        <5>1. Life!Advance(k, "executing", "dead")
          BY <1>2, <3>2, <3>3, <4>1
        <5> QED
          BY <3>7, <4>1, <5>1 DEF Life!Bury, MoveToDeadLetter
      <4> QED
        BY <4>2 DEF Life!LifeNext
    <3> QED
      BY <2>3, <3>4, <3>5, <3>6, <3>7
  <2> QED
    BY <1>4, <2>1, <2>2, <2>3 DEF WorkerStep
<1>5. ASSUME ClearQueue PROVE Life!LifeNext
  <2>1. PICK k \in Job : k \in queued
    BY <1>5 DEF ClearQueue, TypeOK
  <2>2. \A j \in Job : j \in queued <=> Stage(j) = "waiting"
    BY StageByOwner DEF Stage
  <2>3. \A j \in Job : Stage(j)' = IF j \in queued THEN "discarded" ELSE Stage(j)
    <3> SUFFICES ASSUME NEW j \in Job
                 PROVE  Stage(j)' = IF j \in queued THEN "discarded" ELSE Stage(j)
      OBVIOUS
    <3>1. CASE j \in queued
      <4>1. outcome'[j] = "cleared"
        BY <1>5, <3>1 DEF ClearQueue
      <4> QED
        BY <3>1, <4>1, StageByOwnerAfter
    <3>2. CASE j \notin queued
      <4>1. outcome'[j] = outcome[j] /\ (j \in queued' <=> j \in queued)
            /\ (j \in dead' <=> j \in dead) /\ wjob' = wjob
        BY <1>5, <3>2 DEF ClearQueue
      <4> QED
        BY <3>2, <4>1 DEF Stage
    <3> QED
      BY <3>1, <3>2
  <2>4. Stages' = [j \in Job |-> IF Stages[j] = "waiting" THEN "discarded" ELSE Stages[j]]
        /\ Stages[k] = "waiting" /\ UNCHANGED attempts
    BY <1>5, <2>1, <2>2, <2>3 DEF Stages, ClearQueue
  <2>5. Life!Discard("waiting")
    BY <2>1, <2>4 DEF Life!Discard, Stages
  <2> QED
    BY <2>5 DEF Life!LifeNext
<1>6. ASSUME ClearDeadLetter PROVE Life!LifeNext
  <2>1. PICK k \in Job : k \in dead
    BY <1>6 DEF ClearDeadLetter, TypeOK
  <2>2. \A j \in Job : j \in dead <=> Stage(j) = "dead"
    BY StageByOwner DEF Stage
  <2>3. \A j \in Job : Stage(j)' = IF j \in dead THEN "discarded" ELSE Stage(j)
    <3> SUFFICES ASSUME NEW j \in Job
                 PROVE  Stage(j)' = IF j \in dead THEN "discarded" ELSE Stage(j)
      OBVIOUS
    <3>1. CASE j \in dead
      <4>1. outcome'[j] = "purged"
        BY <1>6, <3>1 DEF ClearDeadLetter
      <4> QED
        BY <3>1, <4>1, StageByOwnerAfter
    <3>2. CASE j \notin dead
      <4>1. outcome'[j] = outcome[j] /\ (j \in queued' <=> j \in queued)
            /\ (j \in dead' <=> j \in dead) /\ wjob' = wjob
        BY <1>6, <3>2 DEF ClearDeadLetter
      <4> QED
        BY <3>2, <4>1 DEF Stage
    <3> QED
      BY <3>1, <3>2
  <2>4. Stages' = [j \in Job |-> IF Stages[j] = "dead" THEN "discarded" ELSE Stages[j]]
        /\ Stages[k] = "dead" /\ UNCHANGED attempts
    BY <1>6, <2>1, <2>2, <2>3 DEF Stages, ClearDeadLetter
  <2>5. Life!Discard("dead")
    BY <2>1, <2>4 DEF Life!Discard, Stages
  <2> QED
    BY <2>5 DEF Life!LifeNext
<1>7. CASE \/ \E p \in Producer, j \in Job : EnqueueCheckSize(p, j)
           \/ \E w \in Worker : StartWorker(w) \/ CancelWorker(w)
           \/ PollerStep \/ Start \/ Stop
           \/ \E j \in Job : Tick(j)
           \/ UNCHANGED vars
  BY <1>1, <1>7 DEF EnqueueCheckSize, StartWorker, CancelWorker, PollerStep,
     PollSnapshot, PollCheck, PollWrite, PollExit, Start, Stop, Tick, vars
<1> QED
  BY <1>3, <1>4, <1>5, <1>6, <1>7 DEF Next

(***************************************************************************)
(* The job system implements the abstract life of a job, for any number of *)
(* jobs, workers and producers.                                            *)
(***************************************************************************)
THEOREM RefinementTheorem == Spec => ImplementsLifecycle
<1>1. Init => Life!LifeInit
  BY DEF Init, Life!LifeInit, Stage
<1> QED
  BY <1>1, RefinementStep, CountingAlways, PTL
  DEF Spec, ImplementsLifecycle, Life!LifeSpec

----------------------------------------------------------------------------
(* The metrics: who stands where and what ended how, counted.               *)

HIDE JobsAssumption DEF JobsAssumption

Standing(places) == {w \in Worker : wpc[w] \in places}
EndedAs(end) == {j \in Job : outcome[j] = end}
Counted(failing, buried, purged, working, unhandled, succeeded) ==
  /\ metrics.completed = succeeded
  /\ metrics.failed = metrics.retried + failing + buried + purged
  /\ metrics.processed = metrics.completed + metrics.failed + working + unhandled

LEMMA ReconcileIs ==
  MetricsReconcile <=>
    Counted(Cardinality(Standing({"failing", "burying"})), Cardinality(dead),
            Cardinality(EndedAs("purged")),
            Cardinality(Standing({"running", "ok", "errored"})),
            Cardinality(EndedAs("unhandled")), Cardinality(EndedAs("succeeded")))
BY DEF MetricsReconcile, Counted, Standing, EndedAs

LEMMA AllFinite ==
  ASSUME TypeOK
  PROVE  /\ \A places : IsFiniteSet(Standing(places))
         /\ \A end : IsFiniteSet(EndedAs(end))
         /\ IsFiniteSet(dead)
<1>1. dead \subseteq Job
  BY DEF TypeOK
<1>2. IsFiniteSet(Worker) /\ IsFiniteSet(Job)
  BY JobsAssumption DEF JobsAssumption
<1>3. /\ \A places : Standing(places) \in SUBSET Worker
      /\ \A end : EndedAs(end) \in SUBSET Job
  BY DEF Standing, EndedAs
<1>4. /\ \A T \in SUBSET Worker : IsFiniteSet(T)
      /\ \A T \in SUBSET Job : IsFiniteSet(T)
  BY <1>2, FS_Subset
<1> QED BY <1>1, <1>3, <1>4

LEMMA OneMore ==
  ASSUME NEW S, IsFiniteSet(S), NEW x
  PROVE  /\ Cardinality(S) \in Nat
         /\ x \notin S => Cardinality(S \cup {x}) = Cardinality(S) + 1
         /\ x \in S => Cardinality(S \ {x}) = Cardinality(S) - 1
         /\ x \notin S => Cardinality(S \ {x}) = Cardinality(S)
         /\ x \in S => Cardinality(S \cup {x}) = Cardinality(S)
BY FS_CardinalityType, FS_AddElement, FS_RemoveElement

LEMMA MetricsStep ==
  TypeOK /\ Ownership /\ MetricsReconcile /\ [Next]_vars => MetricsReconcile'
<1> SUFFICES ASSUME TypeOK, Ownership, MetricsReconcile, [Next]_vars
             PROVE  MetricsReconcile'
  OBVIOUS
<1> DEFINE failing == Standing({"failing", "burying"})
           working == Standing({"running", "ok", "errored"})
           c == Cardinality(failing)
           d == Cardinality(dead)
           p == Cardinality(EndedAs("purged"))
           r == Cardinality(working)
           u == Cardinality(EndedAs("unhandled"))
           s == Cardinality(EndedAs("succeeded"))
<1>1. Counted(c, d, p, r, u, s)
  BY ReconcileIs
<1>2. Counted(c, d, p, r, u, s)' => MetricsReconcile'
  BY DEF MetricsReconcile, Counted, Standing, EndedAs
<1>3. /\ c \in Nat /\ d \in Nat /\ p \in Nat /\ r \in Nat /\ u \in Nat /\ s \in Nat
      /\ metrics \in [processed : Nat, completed : Nat, failed : Nat, retried : Nat]
  BY AllFinite, FS_CardinalityType DEF TypeOK
<1>4. ASSUME UNCHANGED <<metrics, dead, outcome>>, failing' = failing, working' = working
      PROVE  MetricsReconcile'
  <2>1. EndedAs("purged")' = EndedAs("purged") /\ EndedAs("unhandled")' = EndedAs("unhandled")
        /\ EndedAs("succeeded")' = EndedAs("succeeded")
    BY <1>4 DEF EndedAs
  <2>2. c' = c /\ d' = d /\ p' = p /\ r' = r /\ u' = u /\ s' = s
    BY <1>4, <2>1
  <2> HIDE DEF c, d, p, r, u, s
  <2> QED BY <1>1, <1>2, <1>4, <2>2 DEF Counted
<1>5. ASSUME UNCHANGED <<metrics, dead, outcome, wpc>> PROVE MetricsReconcile'
  BY <1>4, <1>5 DEF Standing
<1>6. ASSUME NEW w \in Worker, WorkerStep(w) PROVE MetricsReconcile'
  <2> DEFINE j == wjob[w]
  <2>1. wpc[w] \in Holding => j \in Job /\ outcome[j] = "none" /\ j \notin dead
    BY DEF TypeOK, Ownership, Exclusive, Ended
  <2>2. /\ w \in failing <=> wpc[w] \in {"failing", "burying"}
        /\ w \in working <=> wpc[w] \in {"running", "ok", "errored"}
    BY DEF Standing
  <2>3. ASSUME NEW to, wpc' = [wpc EXCEPT ![w] = to]
        PROVE  /\ failing' = IF to \in {"failing", "burying"} THEN failing \cup {w}
                             ELSE failing \ {w}
               /\ working' = IF to \in {"running", "ok", "errored"} THEN working \cup {w}
                             ELSE working \ {w}
    BY <2>3 DEF TypeOK, Standing
  <2>15. ASSUME wpc' = [wpc EXCEPT ![w] = "pop"]
         PROVE  failing' = failing \ {w} /\ working' = working \ {w}
    BY <2>15 DEF TypeOK, Standing
  <2>14. /\ w \notin failing => failing \ {w} = failing
         /\ w \in failing => failing \cup {w} = failing
         /\ w \notin working => working \ {w} = working
         /\ w \in working => working \cup {w} = working
    OBVIOUS
  <2>4. IsFiniteSet(failing) /\ IsFiniteSet(working) /\ IsFiniteSet(dead)
        /\ \A end : IsFiniteSet(EndedAs(end))
    BY AllFinite
  <2> HIDE DEF failing, working, j
  <2>12. /\ w \notin failing => Cardinality(failing \cup {w}) = c + 1
         /\ w \in failing => Cardinality(failing \ {w}) = c - 1
         /\ w \notin working => Cardinality(working \cup {w}) = r + 1
         /\ w \in working => Cardinality(working \ {w}) = r - 1
    BY <2>4, OneMore
  <2>13. /\ j \notin dead => Cardinality(dead \cup {j}) = d + 1
         /\ j \notin EndedAs("unhandled") => Cardinality(EndedAs("unhandled") \cup {j}) = u + 1
         /\ j \notin EndedAs("succeeded") => Cardinality(EndedAs("succeeded") \cup {j}) = s + 1
    BY <2>4, OneMore
  <2>5. CASE PopCheckContext(w) \/ PopTake(w) \/ PopNothingReady(w) \/ ExecuteUnhandled(w)
             \/ ExecuteHandler(w) \/ MarkFailed(w)
    <3>1. UNCHANGED <<metrics, dead, outcome>>
      BY <2>5 DEF PopCheckContext, PopTake, PopNothingReady, ExecuteUnhandled,
                  ExecuteHandler, MarkFailed, histVars
    <3>2. PICK to \in WorkerPc :
            /\ wpc' = [wpc EXCEPT ![w] = to]
            /\ wpc[w] \in {"failing", "burying"} <=> to \in {"failing", "burying"}
            /\ wpc[w] \in {"running", "ok", "errored"} <=> to \in {"running", "ok", "errored"}
      BY <2>5 DEF PopCheckContext, PopTake, PopNothingReady, ExecuteUnhandled,
                  ExecuteHandler, MarkFailed, WorkerGoto, WorkerPc
    <3>3. failing' = failing /\ working' = working
      BY <2>2, <2>3, <2>14, <3>2
    <3> QED BY <1>4, <3>1, <3>3
  <2>6. CASE StartProcessing(w)
    <3>1. wpc[w] = "got" /\ wpc' = [wpc EXCEPT ![w] = "running"] /\ dead' = dead
          /\ outcome' = outcome /\ metrics' = [metrics EXCEPT !.processed = @ + 1]
      BY <2>6 DEF StartProcessing, WorkerGoto
    <3>2. failing' = failing /\ working' = working \cup {w} /\ w \notin working
      BY <2>2, <2>3, <2>14, <3>1
    <3>3. c' = c /\ d' = d /\ p' = p /\ r' = r + 1 /\ u' = u /\ s' = s
      BY <2>12, <3>1, <3>2 DEF EndedAs
    <3> HIDE DEF c, d, p, r, u, s
    <3> QED BY <1>1, <1>2, <1>3, <3>1, <3>3 DEF Counted
  <2>7. CASE Complete(w)
    <3>1. wpc[w] = "ok" /\ wpc' = [wpc EXCEPT ![w] = "pop"] /\ dead' = dead
          /\ outcome' = [outcome EXCEPT ![j] = "succeeded"]
          /\ metrics' = [metrics EXCEPT !.completed = @ + 1]
      BY <2>7 DEF Complete, WorkerGoto, WorkerRelease, j
    <3>2. failing' = failing /\ working' = working \ {w} /\ w \in working
      BY <2>2, <2>14, <2>15, <3>1
    <3>3. j \in Job /\ outcome[j] = "none"
      BY <2>1, <3>1 DEF Holding
    <3>4. /\ EndedAs("purged")' = EndedAs("purged")
          /\ EndedAs("unhandled")' = EndedAs("unhandled")
          /\ EndedAs("succeeded")' = EndedAs("succeeded") \cup {j}
          /\ j \notin EndedAs("succeeded")
      BY <3>1, <3>3 DEF TypeOK, EndedAs
    <3>5. c' = c /\ d' = d /\ p' = p /\ r' = r - 1 /\ u' = u /\ s' = s + 1
      BY <2>12, <2>13, <3>1, <3>2, <3>4
    <3> HIDE DEF c, d, p, r, u, s
    <3> QED BY <1>1, <1>2, <1>3, <3>1, <3>5 DEF Counted
  <2>8. CASE ReturnUnhandled(w)
    <3>1. wpc[w] = "errored" /\ wpc' = [wpc EXCEPT ![w] = "pop"] /\ dead' = dead
          /\ outcome' = [outcome EXCEPT ![j] = "unhandled"] /\ metrics' = metrics
      BY <2>8 DEF ReturnUnhandled, WorkerGoto, WorkerRelease, j
    <3>2. failing' = failing /\ working' = working \ {w} /\ w \in working
      BY <2>2, <2>14, <2>15, <3>1
    <3>3. j \in Job /\ outcome[j] = "none"
      BY <2>1, <3>1 DEF Holding
    <3>4. /\ EndedAs("purged")' = EndedAs("purged")
          /\ EndedAs("unhandled")' = EndedAs("unhandled") \cup {j}
          /\ EndedAs("succeeded")' = EndedAs("succeeded")
          /\ j \notin EndedAs("unhandled")
      BY <3>1, <3>3 DEF TypeOK, EndedAs
    <3>5. c' = c /\ d' = d /\ p' = p /\ r' = r - 1 /\ u' = u + 1 /\ s' = s
      BY <2>12, <2>13, <3>1, <3>2, <3>4
    <3> HIDE DEF c, d, p, r, u, s
    <3> QED BY <1>1, <1>2, <1>3, <3>1, <3>5 DEF Counted
  <2>9. CASE BeginFailure(w)
    <3>1. wpc[w] = "errored" /\ wpc' = [wpc EXCEPT ![w] = "failing"] /\ dead' = dead
          /\ outcome' = outcome /\ metrics' = [metrics EXCEPT !.failed = @ + 1]
      BY <2>9 DEF BeginFailure, WorkerGoto, histVars
    <3>2. failing' = failing \cup {w} /\ w \notin failing
          /\ working' = working \ {w} /\ w \in working
      BY <2>2, <2>3, <2>14, <3>1
    <3>3. c' = c + 1 /\ d' = d /\ p' = p /\ r' = r - 1 /\ u' = u /\ s' = s
      BY <2>12, <3>1, <3>2 DEF EndedAs
    <3> HIDE DEF c, d, p, r, u, s
    <3> QED BY <1>1, <1>2, <1>3, <3>1, <3>3 DEF Counted
  <2>10. CASE ScheduleRetry(w)
    <3>1. wpc[w] = "failing" /\ wpc' = [wpc EXCEPT ![w] = "pop"] /\ dead' = dead
          /\ outcome' = outcome /\ metrics' = [metrics EXCEPT !.retried = @ + 1]
      BY <2>10 DEF ScheduleRetry, WorkerGoto, WorkerRelease, histVars
    <3>2. failing' = failing \ {w} /\ w \in failing /\ working' = working
      BY <2>2, <2>14, <2>15, <3>1
    <3>3. c' = c - 1 /\ d' = d /\ p' = p /\ r' = r /\ u' = u /\ s' = s
      BY <2>12, <3>1, <3>2 DEF EndedAs
    <3> HIDE DEF c, d, p, r, u, s
    <3> QED BY <1>1, <1>2, <1>3, <3>1, <3>3 DEF Counted
  <2>11. CASE MoveToDeadLetter(w)
    <3>1. wpc[w] = "burying" /\ wpc' = [wpc EXCEPT ![w] = "pop"] /\ dead' = dead \cup {j}
          /\ outcome' = outcome /\ metrics' = metrics
      BY <2>11 DEF MoveToDeadLetter, WorkerGoto, WorkerRelease, histVars, j
    <3>2. failing' = failing \ {w} /\ w \in failing /\ working' = working
      BY <2>2, <2>14, <2>15, <3>1
    <3>3. j \notin dead
      BY <2>1, <3>1 DEF Holding
    <3>4. c' = c - 1 /\ d' = d + 1 /\ p' = p /\ r' = r /\ u' = u /\ s' = s
      BY <2>12, <2>13, <3>1, <3>2, <3>3 DEF EndedAs
    <3> HIDE DEF c, d, p, r, u, s
    <3> QED BY <1>1, <1>2, <1>3, <3>1, <3>4 DEF Counted
  <2> QED
    BY <1>6, <2>5, <2>6, <2>7, <2>8, <2>9, <2>10, <2>11 DEF WorkerStep
<1>7. ASSUME NEW w \in Worker, StartWorker(w) PROVE MetricsReconcile'
  <2>1. wpc[w] = "off" /\ wpc' = [wpc EXCEPT ![w] = "pop"] /\ UNCHANGED <<metrics, dead, outcome>>
    BY <1>7 DEF StartWorker, WorkerGoto, histVars
  <2>2. failing' = failing /\ working' = working
    BY <2>1 DEF TypeOK, Standing
  <2> QED BY <1>4, <2>1, <2>2
<1>8. CASE ClearQueue
  <2>1. UNCHANGED <<wpc, dead, metrics>>
    BY <1>8 DEF ClearQueue, workVars
  <2>2. \A i \in queued : outcome[i] = "none" /\ i \in Job
    BY DEF TypeOK, Ownership, Exclusive, Ended
  <2>3. outcome' = [i \in Job |-> IF i \in queued THEN "cleared" ELSE outcome[i]]
    BY <1>8 DEF ClearQueue
  <2>4. EndedAs("purged")' = EndedAs("purged") /\ EndedAs("unhandled")' = EndedAs("unhandled")
        /\ EndedAs("succeeded")' = EndedAs("succeeded")
    BY <2>2, <2>3 DEF EndedAs
  <2>5. c' = c /\ d' = d /\ p' = p /\ r' = r /\ u' = u /\ s' = s
    BY <2>1, <2>4 DEF Standing
  <2> HIDE DEF c, d, p, r, u, s
  <2> QED BY <1>1, <1>2, <2>1, <2>5 DEF Counted
<1>9. CASE ClearDeadLetter
  <2>1. UNCHANGED <<wpc, metrics>> /\ dead' = {}
    BY <1>9 DEF ClearDeadLetter, workVars
  <2>2. \A i \in dead : outcome[i] = "none" /\ i \in Job
    BY DEF TypeOK, Ownership, Exclusive, Ended
  <2>3. outcome' = [i \in Job |-> IF i \in dead THEN "purged" ELSE outcome[i]]
    BY <1>9 DEF ClearDeadLetter
  <2>4. /\ EndedAs("purged")' = EndedAs("purged") \cup dead
        /\ EndedAs("purged") \cap dead = {}
        /\ EndedAs("unhandled")' = EndedAs("unhandled")
        /\ EndedAs("succeeded")' = EndedAs("succeeded")
    BY <2>2, <2>3 DEF EndedAs
  <2>5. c' = c /\ r' = r /\ u' = u /\ s' = s
    BY <2>1, <2>4 DEF Standing
  <2>6. d' = 0
    BY <2>1, FS_EmptySet
  <2>7. p' = p + d
    <3>1. IsFiniteSet(EndedAs("purged")) /\ IsFiniteSet(dead)
      BY AllFinite
    <3>2. Cardinality(EndedAs("purged") \cap dead) = 0
      BY <2>4, FS_EmptySet
    <3>3. Cardinality(EndedAs("purged") \cup dead) = p + d - 0
      BY <3>1, <3>2, FS_Union
    <3> HIDE DEF p, d
    <3> QED BY <1>3, <2>4, <3>3 DEF p
  <2> HIDE DEF c, d, p, r, u, s
  <2> QED BY <1>1, <1>2, <1>3, <2>1, <2>5, <2>6, <2>7 DEF Counted
<1> QED
  <2> HIDE DEF failing, working, c, d, p, r, u, s
  <2>1. ASSUME NEW q \in Producer, EnqueuePush(q) \/ \E j \in Job : EnqueueCheckSize(q, j)
        PROVE  MetricsReconcile'
    BY <1>5, <2>1 DEF EnqueuePush, EnqueueCheckSize, workVars, histVars
  <2>2. ASSUME NEW w \in Worker, CancelWorker(w) PROVE MetricsReconcile'
    BY <1>5, <2>2 DEF CancelWorker, workVars, histVars
  <2>3. CASE PollerStep
    BY <1>5, <2>3 DEF PollerStep, PollSnapshot, PollCheck, PollWrite, PollExit, workVars,
                      histVars
  <2>4. CASE Start \/ Stop
    BY <1>5, <2>4 DEF Start, Stop, workVars, histVars
  <2>5. ASSUME NEW j \in Job, Tick(j) PROVE MetricsReconcile'
    BY <1>5, <2>5 DEF Tick, workVars, histVars
  <2>6. CASE UNCHANGED vars
    BY <1>5, <2>6 DEF vars, workVars, histVars
  <2> QED
    BY <1>6, <1>7, <1>8, <1>9, <2>1, <2>2, <2>3, <2>4, <2>5, <2>6 DEF Next

LEMMA MetricsInit == Init => MetricsReconcile
<1> SUFFICES ASSUME Init PROVE MetricsReconcile
  OBVIOUS
<1>1. /\ Standing({"failing", "burying"}) = {} /\ Standing({"running", "ok", "errored"}) = {}
      /\ dead = {}
  BY DEF Init, Standing
<1>2. EndedAs("purged") = {} /\ EndedAs("unhandled") = {} /\ EndedAs("succeeded") = {}
  BY DEF Init, EndedAs
<1>3. Counted(0, 0, 0, 0, 0, 0)
  BY DEF Init, Counted
<1> QED BY <1>1, <1>2, <1>3, ReconcileIs, FS_EmptySet

(***************************************************************************)
(* For any number of jobs and workers the four counters of                 *)
(* ProcessorMetrics agree with what became of the jobs, whatever is        *)
(* retried, cleared, cancelled or enqueued again in between.               *)
(***************************************************************************)
THEOREM MetricsReconcileTheorem == Spec => []MetricsReconcile
  BY TypeCorrect, OwnershipInit, OwnershipStep, MetricsInit, MetricsStep, PTL DEF Spec

----------------------------------------------------------------------------
(* A job that succeeded, and the poller's late write.                       *)

(* A status of "scheduled" goes with a ScheduledAt, which nothing unsets,   *)
(* so the poller holds no job without one.                                  *)
SchedulesKept ==
  /\ \A j \in Job : status[j] = "scheduled" => sched[j] # "none"
  /\ \A j \in pollSet : sched[j] # "none"
  /\ pollJob \in Job => sched[pollJob] # "none"

(* A job that was neither delayed nor ever retried keeps its status.        *)
UndelayedStaysCompleted ==
  \A j \in Job : outcome[j] = "succeeded" /\ sched[j] = "none" => status[j] = "completed"

(* Whoever else holds a pointer to a job that succeeded leaves its status.  *)
OnlyPollerDisturbs ==
  [][\A j \in Job : outcome[j] = "succeeded" /\ status'[j] # status[j] =>
       pollJob = j /\ status'[j] = "pending"]_vars

LEMMA CompletedStep ==
  TypeOK /\ Ownership /\ SchedulesKept /\ UndelayedStaysCompleted /\ [Next]_vars =>
    SchedulesKept' /\ UndelayedStaysCompleted'
<1> SUFFICES ASSUME TypeOK, Ownership, SchedulesKept, UndelayedStaysCompleted, [Next]_vars
             PROVE  SchedulesKept' /\ UndelayedStaysCompleted'
  OBVIOUS
<1> USE DEF TypeOK, Holding, Ownership, Exclusive, Ended, SchedulesKept,
            UndelayedStaysCompleted, jobVars, prodVars, workVars, pollVars, mgrVars,
            histVars, WorkerGoto, WorkerRelease
<1>1. ASSUME NEW p \in Producer,
             EnqueuePush(p) \/ \E j \in Job : EnqueueCheckSize(p, j)
      PROVE  SchedulesKept' /\ UndelayedStaysCompleted'
  BY <1>1 DEF EnqueuePush, EnqueueCheckSize
<1>2. ASSUME NEW w \in Worker, WorkerStep(w)
      PROVE  SchedulesKept' /\ UndelayedStaysCompleted'
  <2>1. CASE PopTake(w)          BY <2>1 DEF PopTake
  <2>2. CASE StartProcessing(w)  BY <2>2 DEF StartProcessing
  <2>3. CASE ExecuteUnhandled(w) BY <2>3 DEF ExecuteUnhandled
  <2>4. CASE Complete(w)         BY <2>4 DEF Complete
  <2>5. CASE ReturnUnhandled(w)  BY <2>5 DEF ReturnUnhandled
  <2>6. CASE ScheduleRetry(w)    BY <2>6 DEF ScheduleRetry
  <2>7. CASE MarkFailed(w)       BY <2>7 DEF MarkFailed
  <2>8. CASE \/ PopCheckContext(w) \/ PopNothingReady(w) \/ ExecuteHandler(w)
             \/ BeginFailure(w)    \/ MoveToDeadLetter(w)
    BY <2>8 DEF PopCheckContext, PopNothingReady, ExecuteHandler, BeginFailure,
       MoveToDeadLetter
  <2> QED
    BY <1>2, <2>1, <2>2, <2>3, <2>4, <2>5, <2>6, <2>7, <2>8 DEF WorkerStep
<1>3. ASSUME NEW w \in Worker, StartWorker(w) \/ CancelWorker(w)
      PROVE  SchedulesKept' /\ UndelayedStaysCompleted'
  BY <1>3 DEF StartWorker, CancelWorker
<1>4. CASE PollerStep
  <2>1. CASE PollSnapshot  BY <2>1 DEF PollSnapshot
  <2>2. CASE PollCheck     BY <2>2 DEF PollCheck
  <2>3. CASE PollWrite     BY <2>3, JobsAssumption DEF PollWrite, JobsAssumption
  <2>4. CASE PollExit      BY <2>4 DEF PollExit
  <2> QED  BY <1>4, <2>1, <2>2, <2>3, <2>4 DEF PollerStep
<1>5. CASE ClearQueue \/ ClearDeadLetter \/ Start \/ Stop
  BY <1>5 DEF ClearQueue, ClearDeadLetter, Start, Stop
<1>6. ASSUME NEW j \in Job, Tick(j) PROVE SchedulesKept' /\ UndelayedStaysCompleted'
  BY <1>6 DEF Tick
<1>7. CASE UNCHANGED vars
  BY <1>7 DEF vars
<1> HIDE DEF TypeOK, Ownership, SchedulesKept, UndelayedStaysCompleted
<1> QED
  BY <1>1, <1>2, <1>3, <1>4, <1>5, <1>6, <1>7 DEF Next

(***************************************************************************)
(* The poller's unlocked write is the only thing that can take back the    *)
(* status of a job that succeeded: without a delay or a retry that status  *)
(* stays "completed", and with one only the poller ever changes it.        *)
(***************************************************************************)
THEOREM CompletedTheorem == Spec => []UndelayedStaysCompleted /\ OnlyPollerDisturbs
<1>1. Init => SchedulesKept /\ UndelayedStaysCompleted
  BY JobsAssumption DEF JobsAssumption, Init, SchedulesKept, UndelayedStaysCompleted
<1>2. TypeOK /\ Ownership /\ [Next]_vars =>
        [\A j \in Job : outcome[j] = "succeeded" /\ status'[j] # status[j] =>
           pollJob = j /\ status'[j] = "pending"]_vars
  <2> SUFFICES ASSUME TypeOK, Ownership, Next, NEW j \in Job,
                      outcome[j] = "succeeded", status'[j] # status[j]
               PROVE  pollJob = j /\ status'[j] = "pending"
    OBVIOUS
  <2>1. \A w \in Worker : wjob[w] # j
    BY DEF Ownership, Exclusive, Ended
  <2>2. ASSUME NEW w \in Worker, WorkerStep(w) PROVE FALSE
    <3>1. status' = status \/ \E s \in Status : status' = [status EXCEPT ![wjob[w]] = s]
      BY <2>2 DEF WorkerStep, PopCheckContext, PopTake, PopNothingReady,
         StartProcessing, ExecuteUnhandled, ExecuteHandler, Complete,
         ReturnUnhandled, BeginFailure, ScheduleRetry, MarkFailed,
         MoveToDeadLetter, jobVars, Status
    <3> QED
      BY <2>1, <3>1 DEF TypeOK
  <2>3. PollWrite
    BY <2>2 DEF Next, EnqueuePush, EnqueueCheckSize, StartWorker, CancelWorker,
       PollerStep, PollSnapshot, PollCheck, PollExit, ClearQueue,
       ClearDeadLetter, Start, Stop, Tick, jobVars
  <2> QED
    BY <2>3 DEF PollWrite, TypeOK
<1> QED
  BY <1>1, <1>2, CompletedStep, CountingAlways, PTL DEF Spec, OnlyPollerDisturbs

----------------------------------------------------------------------------
(* Retries without a listener.                                              *)

(* A job that failed lies with the application, where scheduleRetry leaves  *)
(* it, and has run that one time.                                           *)
FailedJobRests ==
  \A j \in Job : runs[j] <= 1 /\ (attempts[j] > 0 => j \in app)

RestsInv == \A j \in Job : attempts[j] <= 1 /\ (attempts[j] > 0 => j \in app)

LEMMA RestsStep ==
  TypeOK /\ Ownership /\ RestsInv /\ ~Reenqueue /\ [Next]_vars => RestsInv'
<1> SUFFICES ASSUME TypeOK, Ownership, RestsInv, ~Reenqueue, [Next]_vars PROVE RestsInv'
  OBVIOUS
<1> USE DEF TypeOK, Holding, Ownership, Exclusive, RestsInv, jobVars, prodVars,
            workVars, pollVars, mgrVars, histVars, WorkerGoto, WorkerRelease
<1>1. ASSUME NEW p \in Producer, EnqueuePush(p) PROVE RestsInv'
  BY <1>1 DEF EnqueuePush
<1>2. ASSUME NEW p \in Producer, NEW j \in Job, EnqueueCheckSize(p, j) PROVE RestsInv'
  BY <1>2 DEF EnqueueCheckSize
<1>3. ASSUME NEW w \in Worker, WorkerStep(w) PROVE RestsInv'
  <2>1. CASE ScheduleRetry(w)
    <3>1. wjob[w] \in Job /\ wjob[w] \notin app /\ attempts[wjob[w]] \in Nat
      BY <2>1 DEF ScheduleRetry
    <3>2. attempts[wjob[w]] = 0
      BY <3>1
    <3> QED
      BY <2>1, <3>1, <3>2 DEF ScheduleRetry
  <2>2. CASE ~ScheduleRetry(w)
    <3>1. UNCHANGED <<attempts, app>>
      BY <1>3, <2>2 DEF WorkerStep, PopCheckContext, PopTake, PopNothingReady,
         StartProcessing, ExecuteUnhandled, ExecuteHandler, Complete,
         ReturnUnhandled, BeginFailure, MarkFailed, MoveToDeadLetter
    <3> QED
      BY <3>1
  <2> QED  BY <2>1, <2>2
<1>4. CASE \/ PollerStep \/ ClearQueue \/ ClearDeadLetter \/ Start \/ Stop
           \/ \E w \in Worker : StartWorker(w) \/ CancelWorker(w)
           \/ \E j \in Job : Tick(j)
           \/ UNCHANGED vars
  <2>1. UNCHANGED <<attempts, app>>
    BY <1>4 DEF PollerStep, PollSnapshot, PollCheck, PollWrite, PollExit, ClearQueue,
       ClearDeadLetter, Start, Stop, StartWorker, CancelWorker, Tick, vars
  <2> QED
    BY <2>1
<1> HIDE DEF TypeOK, Ownership, RestsInv
<1> QED
  BY <1>1, <1>2, <1>3, <1>4 DEF Next

(***************************************************************************)
(* scheduleRetry pushes to no queue and the poller looks only at queues:   *)
(* unless a listener of the retrying event enqueues it, a job that failed  *)
(* is never executed again, however many attempts it has left.             *)
(***************************************************************************)
THEOREM NoListenerNoRetry == Spec /\ ~Reenqueue => []FailedJobRests
<1>1. Init => RestsInv
  BY DEF Init, RestsInv
<1>2. TypeOK /\ Ownership /\ Counting /\ RestsInv => FailedJobRests
  <2> SUFFICES ASSUME TypeOK, Ownership, Counting, RestsInv, NEW j \in Job
               PROVE  runs[j] <= 1 /\ (attempts[j] > 0 => j \in app)
    BY DEF FailedJobRests
  <2>1. attempts[j] \in Nat /\ attempts[j] <= 1 /\ runs[j] \in Nat
    BY DEF TypeOK, RestsInv
  <2>2. runs[j] <= attempts[j] + 1
    BY DEF TypeOK, Holding, Ownership, Somewhere, Counting, Begun
  <2>3. attempts[j] > 0 => j \in app /\ runs[j] = attempts[j]
    BY DEF RestsInv, Counting
  <2> QED
    BY <2>1, <2>2, <2>3
<1>3. ASSUME ~Reenqueue PROVE Spec => []FailedJobRests
  <2>1. TypeOK /\ Ownership /\ RestsInv /\ [Next]_vars => RestsInv'
    BY <1>3, RestsStep
  <2> QED
    BY <1>1, <1>2, <2>1, CountingAlways, PTL DEF Spec
<1> QED
  BY <1>3
====
