----------------------------- MODULE WorkerPool -----------------------------
(***************************************************************************)
(* jobs/worker.go: the pool of a JobManager, which maps worker ids to      *)
(* workers, and the goroutines behind them.  Every operation of the pool   *)
(* holds wp.mutex, so it is one step; goroutines run between the steps.    *)
(* The manager never stops a worker but through the pool.                  *)
(***************************************************************************)
EXTENDS Integers, FiniteSets, Functions

CONSTANTS
  Queue,           \* queue names
  DefaultQueue, DefaultWorkers,
  MaxCreated,      \* bound on the number of workers ever created
  MaxWorkers       \* bound on the target of ScaleQueue

ASSUME WorkerPoolAssumption ==
  /\ DefaultQueue \in Queue
  /\ {DefaultWorkers, MaxCreated, MaxWorkers} \subseteq Nat
  /\ DefaultWorkers <= MaxCreated

VARIABLES
  workers,     \* wp.workers: a function from the ids in use
  queueOf,     \* worker.queue
  status,      \* worker.status
  cancelled,   \* workers whose context is cancelled
  place        \* where each worker's goroutine is

poolVars == <<workers, queueOf, status, cancelled, place>>

(* The *Worker values, each with its goroutine, by their order of creation. *)
PoolWorker == 1 .. MaxCreated

Id == Queue \X (1 .. (MaxWorkers + DefaultWorkers))

(***************************************************************************)
(* Type invariant: ids name their queue, and no worker has two ids.        *)
(***************************************************************************)
PoolTypeOK ==
  /\ DOMAIN workers \subseteq Id
  /\ workers \in [DOMAIN workers -> PoolWorker] /\ IsInjective(workers)
  /\ queueOf \in [PoolWorker -> Queue]
  /\ status \in [PoolWorker -> {"idle", "busy", "stopped"}]
  /\ cancelled \subseteq PoolWorker
  /\ place \in [PoolWorker -> {"new", "loop", "pop", "busy", "exited"}]
  /\ \A id \in DOMAIN workers : queueOf[workers[id]] = id[1]

Created == Cardinality({w \in PoolWorker : place[w] # "new"})
Active == {id \in DOMAIN workers : status[workers[id]] # "stopped"}
Of(q) == {id \in DOMAIN workers : id[1] = q}

(* NewWorker and Start, for the ids in the domain of new; an entry under   *)
(* the same id is overwritten.                                             *)
StartWorkers(q, new) ==
  /\ workers' = [id \in DOMAIN workers \cup DOMAIN new |->
                   IF id \in DOMAIN new THEN new[id] ELSE workers[id]]
  /\ queueOf' = [w \in PoolWorker |-> IF w \in Range(new) THEN q ELSE queueOf[w]]
  /\ place' = [w \in PoolWorker |-> IF w \in Range(new) THEN "loop" ELSE place[w]]
  /\ UNCHANGED <<status, cancelled>>

(* Mutant: the stopped workers stay listed.                                *)
StopWorkersKeepingEntry(ids) ==
  /\ LET stopped == {workers[id] : id \in ids}
     IN  /\ cancelled' = cancelled \cup stopped
         /\ status' = [w \in PoolWorker |-> IF w \in stopped THEN "stopped" ELSE status[w]]
  /\ UNCHANGED <<workers, queueOf, place>>

(* Worker.Stop, and delete, for the workers under these ids.               *)
StopWorkers(ids) ==
  /\ LET stopped == {workers[id] : id \in ids}
     IN  /\ cancelled' = cancelled \cup stopped
         /\ status' = [w \in PoolWorker |-> IF w \in stopped THEN "stopped" ELSE status[w]]
  /\ workers' = Restrict(workers, DOMAIN workers \ ids)
  /\ UNCHANGED <<queueOf, place>>

(* NewJobManager calls AddWorker, which takes len(wp.workers) + 1 for the  *)
(* number of the id, DefaultWorkers times.                                 *)
PoolInit ==
  /\ workers = [id \in {DefaultQueue} \X (1 .. DefaultWorkers) |-> id[2]]
  /\ place = [w \in PoolWorker |-> IF w <= DefaultWorkers THEN "loop" ELSE "new"]
  /\ queueOf = [w \in PoolWorker |-> DefaultQueue]
  /\ status = [w \in PoolWorker |-> "idle"]
  /\ cancelled = {}

(* The ids and workers that make n of current.                             *)
New(q, current, n) ==
  [id \in {q} \X ((current + 1) .. n) |-> Created + id[2] - current]

(* ScaleQueue, and PauseQueue with n = 0.  Which workers are stopped is    *)
(* the map's iteration order.                                              *)
ScaleQueue(q, n) ==
  LET current == Cardinality(Of(q) \cap Active)
  IN  \/ /\ current < n
         /\ Created + n - current <= MaxCreated
         /\ StartWorkers(q, New(q, current, n))
      \/ /\ current > n
         /\ \E ids \in SUBSET Of(q) :
              Cardinality(ids) = current - n /\ StopWorkers(ids)

StopAll == workers # <<>> /\ StopWorkers(DOMAIN workers)

Goto(w, from, to) == place[w] = from /\ place' = [place EXCEPT ![w] = to]

CheckContext(w) ==
  /\ Goto(w, "loop", IF w \in cancelled THEN "exited" ELSE "pop")
  /\ UNCHANGED <<workers, queueOf, status, cancelled>>

PopNothing(w) ==
  /\ Goto(w, "pop", "loop")
  /\ UNCHANGED <<workers, queueOf, status, cancelled>>

PopJob(w) ==
  /\ Goto(w, "pop", "busy")
  /\ status' = [status EXCEPT ![w] = "busy"]
  /\ UNCHANGED <<workers, queueOf, cancelled>>

FinishJob(w) ==
  /\ Goto(w, "busy", "loop")
  /\ status' = [status EXCEPT ![w] = "idle"]
  /\ UNCHANGED <<workers, queueOf, cancelled>>

PoolNext ==
  \/ \E q \in Queue, n \in 0 .. MaxWorkers : ScaleQueue(q, n)
  \/ StopAll
  \/ \E w \in PoolWorker : CheckContext(w) \/ PopNothing(w) \/ PopJob(w) \/ FinishJob(w)

PoolSpec == PoolInit /\ [][PoolNext]_poolVars

----------------------------------------------------------------------------
RunningIn(q) ==
  {w \in PoolWorker : place[w] \notin {"new", "exited"} /\ w \notin cancelled
                    /\ queueOf[w] = q}

(***************************************************************************)
(* The pool counts on what it lists: a worker in wp.workers is neither     *)
(* cancelled nor marked stopped, although a stopped worker that finishes   *)
(* its job marks itself idle again.                                        *)
(***************************************************************************)
ListedIsRunning ==
  \A id \in DOMAIN workers :
    workers[id] \in RunningIn(id[1]) /\ status[workers[id]] # "stopped"

----------------------------------------------------------------------------
(* What a test says and the code does not do.                              *)

(* manager_test.go: a paused queue has no active worker.                   *)
PausedQueueIsIdle == \A q \in Queue : Of(q) = {} => RunningIn(q) = {}
=============================================================================
