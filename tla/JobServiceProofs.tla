--------------------------- MODULE JobServiceProofs ----------------------------
(***************************************************************************)
(* Theorems about what stands around the jobs: the worker pool of          *)
(* jobs/worker.go, the table of jobs/manager.go and the memory queue of    *)
(* jobs/queue.go, for any queues, workers, jobs and callers.               *)
(***************************************************************************)
EXTENDS WorkerPool, JobStore, MemoryQueue, SequenceTheorems, FiniteSetTheorems,
        WellFoundedInduction, TLAPS


-----------------------------------------------------------------------------
(* Part 1: the worker pool.                                                *)
USE WorkerPoolAssumption DEF WorkerPoolAssumption

(* Workers are created in their order, so that Created is the last one.    *)
CreatedInOrder == \E n \in 0..MaxCreated : \A w \in PoolWorker : place[w] # "new" <=> w <= n

(* A worker that does not exist yet has been told nothing.                 *)
NewIsFresh == \A w \in PoolWorker : place[w] = "new" => w \notin cancelled /\ status[w] = "idle"

PInv == PoolTypeOK /\ ListedIsRunning /\ CreatedInOrder /\ NewIsFresh

LEMMA CreatedIsLast ==
  ASSUME CreatedInOrder
  PROVE  Created \in 0..MaxCreated /\ \A w \in PoolWorker : place[w] # "new" <=> w <= Created
<1>1. PICK n \in 0..MaxCreated : \A w \in PoolWorker : place[w] # "new" <=> w <= n
  BY DEF CreatedInOrder
<1>2. {w \in PoolWorker : place[w] # "new"} = 1..n
  BY <1>1 DEF PoolWorker
<1>3. Cardinality(1..n) = n
  BY FS_Interval
<1> QED
  BY <1>1, <1>2, <1>3 DEF Created

LEMMA PoolInitInv == PoolInit => PInv
<1> SUFFICES ASSUME PoolInit PROVE PInv
  OBVIOUS
<1>1. \A id \in DOMAIN workers : id[1] = DefaultQueue /\ id[2] \in 1..DefaultWorkers
                              /\ workers[id] = id[2] /\ id = <<id[1], id[2]>>
  BY DEF PoolInit
<1>2. PoolTypeOK
  <2>1. DOMAIN workers \subseteq Id
    BY DEF PoolInit, Id
  <2>2. workers \in [DOMAIN workers -> PoolWorker]
    <3>1. \A id \in DOMAIN workers : workers[id] \in PoolWorker
      BY <1>1 DEF PoolWorker
    <3>2. workers = [id \in DOMAIN workers |-> workers[id]]
      BY DEF PoolInit
    <3> QED BY <3>1, <3>2
  <2>3. IsInjective(workers)
    BY <1>1 DEF IsInjective
  <2> QED BY <1>1, <2>1, <2>2, <2>3 DEF PoolTypeOK, PoolInit, PoolWorker
<1>3. ListedIsRunning
  BY <1>1 DEF ListedIsRunning, RunningIn, PoolInit, PoolWorker
<1>4. CreatedInOrder /\ NewIsFresh
  BY SMTT(60) DEF CreatedInOrder, NewIsFresh, PoolInit, PoolWorker
<1> QED
  BY <1>2, <1>3, <1>4 DEF PInv

(* What is stopped leaves the map, and the other entries are of others.    *)
LEMMA StopKeeps ==
  ASSUME PInv, NEW ids \in SUBSET DOMAIN workers, StopWorkers(ids)
  PROVE  PInv'
<1> DEFINE stopped == {workers[id] : id \in ids}
<1>1. /\ cancelled' = cancelled \cup stopped
      /\ status' = [w \in PoolWorker |-> IF w \in stopped THEN "stopped" ELSE status[w]]
      /\ workers' = [id \in DOMAIN workers \ ids |-> workers[id]]
      /\ UNCHANGED <<queueOf, place>>
  BY DEF StopWorkers, Restrict
<1>2. \A id \in DOMAIN workers' : /\ id \in DOMAIN workers /\ workers'[id] = workers[id]
                                  /\ workers[id] \notin stopped
  BY <1>1 DEF PInv, PoolTypeOK, IsInjective
<1>3. PoolTypeOK'
  <2>1. stopped \subseteq PoolWorker
    BY DEF PInv, PoolTypeOK
  <2>2. IsInjective(workers)'
    BY <1>2 DEF PInv, PoolTypeOK, IsInjective
  <2>3. workers' \in [DOMAIN workers' -> PoolWorker]
    BY <1>1 DEF PInv, PoolTypeOK
  <2> QED BY <1>1, <1>2, <2>1, <2>2, <2>3 DEF PInv, PoolTypeOK
<1>4. ListedIsRunning'
  BY <1>1, <1>2 DEF PInv, ListedIsRunning, RunningIn, PoolTypeOK
<1>5. \A w \in stopped : place[w] # "new"
  BY DEF PInv, ListedIsRunning, RunningIn
<1>6. CreatedInOrder' /\ NewIsFresh'
  BY <1>1, <1>5 DEF PInv, CreatedInOrder, NewIsFresh
<1> QED
  BY <1>3, <1>4, <1>6 DEF PInv

(* What is started is new, so nothing that is listed can be the same.      *)
LEMMA StartWorkerKeeps ==
  ASSUME PInv, NEW q \in Queue, NEW n \in 0..MaxWorkers, NEW current \in Nat, current < n,
         Created + n - current <= MaxCreated, StartWorkers(q, New(q, current, n))
  PROVE  PInv'
<1> DEFINE new == New(q, current, n)
           last == Created + n - current
<1>1. Created \in 0..MaxCreated /\ \A w \in PoolWorker : place[w] # "new" <=> w <= Created
  BY CreatedIsLast DEF PInv
<1>2. /\ DOMAIN new = {q} \X ((current + 1) .. n)
      /\ \A id \in DOMAIN new : new[id] = Created + id[2] - current
  BY DEF New
<1>3. \A id \in DOMAIN new : /\ id = <<id[1], id[2]>> /\ id[1] = q /\ id[2] \in (current + 1) .. n
                             /\ new[id] \in PoolWorker /\ new[id] > Created /\ new[id] <= last
                             /\ place[new[id]] = "new"
  BY <1>1, <1>2 DEF PoolWorker
<1>4. Range(new) = (Created + 1) .. last
  <2>1. ASSUME NEW w \in (Created + 1) .. last PROVE w \in Range(new)
    <3>1. <<q, w - Created + current>> \in DOMAIN new
      BY <1>1, <1>2
    <3>2. new[<<q, w - Created + current>>] = w
      BY <1>1, <1>2, <3>1
    <3> QED BY <3>1, <3>2 DEF Range
  <2>2. ASSUME NEW w \in Range(new) PROVE w \in (Created + 1) .. last
    BY <1>1, <1>3 DEF Range, PoolWorker
  <2> QED BY <2>1, <2>2
<1>5. /\ workers' = [id \in DOMAIN workers \cup DOMAIN new |->
                       IF id \in DOMAIN new THEN new[id] ELSE workers[id]]
      /\ queueOf' = [w \in PoolWorker |-> IF w \in Range(new) THEN q ELSE queueOf[w]]
      /\ place' = [w \in PoolWorker |-> IF w \in Range(new) THEN "loop" ELSE place[w]]
      /\ UNCHANGED <<status, cancelled>>
  BY DEF StartWorkers
<1>6. \A id \in DOMAIN workers : workers[id] \in PoolWorker /\ workers[id] <= Created
  BY <1>1 DEF PInv, PoolTypeOK, ListedIsRunning, RunningIn
<1>7. PoolTypeOK'
  <2>1. DOMAIN workers' \subseteq Id
    <3>1. DOMAIN new \subseteq Id
      BY <1>2 DEF Id
    <3> QED BY <1>5, <3>1 DEF PInv, PoolTypeOK
  <2>2. workers' \in [DOMAIN workers' -> PoolWorker]
    BY <1>3, <1>5, <1>6
  <2>3. IsInjective(workers)'
    <3>1. ASSUME NEW a \in DOMAIN workers', NEW b \in DOMAIN workers', workers'[a] = workers'[b]
          PROVE  a = b
      <4>1. CASE a \in DOMAIN new /\ b \in DOMAIN new
        <5>1. a[2] = b[2]
          BY <1>1, <1>2, <1>3, <1>5, <3>1, <4>1
        <5> QED BY <1>3, <4>1, <5>1
      <4>2. CASE a \notin DOMAIN new /\ b \notin DOMAIN new
        BY <1>5, <3>1, <4>2 DEF PInv, PoolTypeOK, IsInjective
      <4>3. CASE a \in DOMAIN new /\ b \notin DOMAIN new
        BY <1>1, <1>3, <1>5, <1>6, <3>1, <4>3 DEF PoolWorker
      <4>4. CASE a \notin DOMAIN new /\ b \in DOMAIN new
        BY <1>1, <1>3, <1>5, <1>6, <3>1, <4>4 DEF PoolWorker
      <4> QED BY <4>1, <4>2, <4>3, <4>4
    <3> QED BY <3>1 DEF IsInjective
  <2>4. \A id \in DOMAIN workers' : queueOf'[workers'[id]] = id[1]
    <3>1. ASSUME NEW id \in DOMAIN new PROVE queueOf'[workers'[id]] = id[1]
      BY <1>3, <1>5 DEF Range
    <3>2. ASSUME NEW id \in DOMAIN workers \ DOMAIN new PROVE queueOf'[workers'[id]] = id[1]
      BY <1>1, <1>4, <1>5, <1>6 DEF PInv, PoolTypeOK, PoolWorker
    <3> QED BY <1>5, <3>1, <3>2
  <2>5. queueOf' \in [PoolWorker -> Queue]
    BY <1>5 DEF PInv, PoolTypeOK
  <2>6. place' \in [PoolWorker -> {"new", "loop", "pop", "busy", "exited"}]
    BY <1>5 DEF PInv, PoolTypeOK
  <2> QED BY <1>5, <2>1, <2>2, <2>3, <2>4, <2>5, <2>6 DEF PInv, PoolTypeOK
<1>8. ListedIsRunning'
  <2>1. ASSUME NEW id \in DOMAIN new
        PROVE  workers'[id] \in RunningIn(id[1])' /\ status'[workers'[id]] # "stopped"
    BY <1>3, <1>5 DEF PInv, NewIsFresh, RunningIn, Range
  <2>2. ASSUME NEW id \in DOMAIN workers \ DOMAIN new
        PROVE  workers'[id] \in RunningIn(id[1])' /\ status'[workers'[id]] # "stopped"
    BY <1>1, <1>4, <1>5, <1>6 DEF PInv, ListedIsRunning, RunningIn, PoolWorker
  <2> QED BY <1>5, <2>1, <2>2 DEF ListedIsRunning
<1>9. CreatedInOrder'
  <2>1. last \in 0..MaxCreated /\ \A w \in PoolWorker : place'[w] # "new" <=> w <= last
    BY <1>1, <1>4, <1>5 DEF PoolWorker
  <2> QED BY <2>1 DEF CreatedInOrder
<1>10. NewIsFresh'
  BY <1>5 DEF PInv, NewIsFresh
<1> QED
  BY <1>7, <1>8, <1>9, <1>10 DEF PInv

(* A goroutine moves: whatever it marks itself, it is not what is stopped. *)
LEMMA GoroutineKeeps ==
  ASSUME PInv, NEW w \in PoolWorker, NEW from, NEW to \in {"loop", "pop", "busy", "exited"},
         from # "new", Goto(w, from, to), to = "exited" => w \in cancelled,
         \/ UNCHANGED status
         \/ \E s \in {"idle", "busy"} : status' = [status EXCEPT ![w] = s],
         UNCHANGED <<workers, queueOf, cancelled>>
  PROVE  PInv'
<1>1. place[w] = from /\ place' = [place EXCEPT ![w] = to]
  BY DEF Goto
<1>2. \A v \in PoolWorker : place'[v] = "new" <=> place[v] = "new"
  BY <1>1 DEF PInv, PoolTypeOK
<1>3. \A v \in PoolWorker : status'[v] = "stopped" => status[v] = "stopped"
  BY DEF PInv, PoolTypeOK
<1>4. PoolTypeOK'
  BY <1>1 DEF PInv, PoolTypeOK
<1>5. ListedIsRunning'
  BY <1>1, <1>2, <1>3 DEF PInv, PoolTypeOK, ListedIsRunning, RunningIn
<1>6. CreatedInOrder' /\ NewIsFresh'
  BY <1>1, <1>2 DEF PInv, PoolTypeOK, CreatedInOrder, NewIsFresh
<1> QED
  BY <1>4, <1>5, <1>6 DEF PInv

LEMMA PoolNextKeeps ==
  ASSUME PInv, PoolNext
  PROVE  PInv'
<1>1. ASSUME NEW q \in Queue, NEW n \in 0..MaxWorkers, ScaleQueue(q, n) PROVE PInv'
  <2> DEFINE current == Cardinality(Of(q) \cap Active)
  <2>1. CASE current < n /\ Created + n - current <= MaxCreated /\ StartWorkers(q, New(q, current, n))
    <3>1. current \in Nat
      <4>1. IsFiniteSet(Id \cap (Of(q) \cap Active)) /\ Of(q) \cap Active \subseteq Id
        <5>1. Of(q) \cap Active \subseteq {q} \X (1 .. (MaxWorkers + DefaultWorkers))
          BY DEF PInv, PoolTypeOK, Of, Id
        <5>2. IsFiniteSet({q} \X (1 .. (MaxWorkers + DefaultWorkers)))
          <6>1. IsFiniteSet({q})
            BY FS_Singleton
          <6>2. 1 \in Int /\ MaxWorkers + DefaultWorkers \in Int
            OBVIOUS
          <6>3. IsFiniteSet(1 .. (MaxWorkers + DefaultWorkers))
            BY <6>2, FS_Interval
          <6> QED BY <6>1, <6>3, FS_Product
        <5> QED BY <5>1, <5>2, FS_Subset DEF PInv, PoolTypeOK, Of
      <4>2. IsFiniteSet(Of(q) \cap Active)
        BY <4>1
      <4> QED BY <4>2, FS_CardinalityType
    <3> QED BY <2>1, <3>1, StartWorkerKeeps
  <2>2. CASE \E ids \in SUBSET Of(q) : StopWorkers(ids)
    BY <2>2, StopKeeps DEF Of
  <2> QED BY <1>1, <2>1, <2>2 DEF ScaleQueue
<1>2. CASE StopAll
  BY <1>2, StopKeeps DEF StopAll
<1>3. ASSUME NEW w \in PoolWorker,
             CheckContext(w) \/ PopNothing(w) \/ PopJob(w) \/ FinishJob(w)
      PROVE  PInv'
  <2>1. CASE CheckContext(w)
    BY <2>1, GoroutineKeeps DEF CheckContext
  <2>2. CASE PopNothing(w)
    BY <2>2, GoroutineKeeps DEF PopNothing
  <2>3. CASE PopJob(w)
    BY <2>3, GoroutineKeeps DEF PopJob
  <2>4. CASE FinishJob(w)
    BY <2>4, GoroutineKeeps DEF FinishJob
  <2> QED BY <1>3, <2>1, <2>2, <2>3, <2>4
<1> QED
  BY <1>1, <1>2, <1>3 DEF PoolNext

THEOREM PoolInvariant == PoolSpec => []PInv
<1>1. PInv /\ [PoolNext]_poolVars => PInv'
  <2>1. PInv /\ UNCHANGED poolVars => PInv'
    BY DEF PInv, PoolTypeOK, ListedIsRunning, RunningIn, CreatedInOrder, NewIsFresh, poolVars
  <2> QED BY <2>1, PoolNextKeeps
<1> QED
  BY <1>1, PoolInitInv, PTL DEF PoolSpec

(* Ids name their queue, and no worker has two of them.                    *)
THEOREM PoolTypesCorrect == PoolSpec => []PoolTypeOK
<1>1. PInv => PoolTypeOK
  BY DEF PInv
<1> QED
  BY <1>1, PoolInvariant, PTL

(* However the pool is scaled and stopped, what it lists runs: no worker   *)
(* in the map is cancelled or marked as stopped.                           *)
THEOREM ListedRuns == PoolSpec => []ListedIsRunning
<1>1. PInv => ListedIsRunning
  BY DEF PInv
<1> QED
  BY <1>1, PoolInvariant, PTL

(* The workers of a queue are numbered without a gap, as ScaleQueue takes   *)
(* for granted when it numbers new ones from how many there are.            *)
Gapless == \A q \in Queue : \E n \in Nat : Of(q) = {q} \X (1 .. n)

(* ScaleQueue to fewer workers, but some, stops any of them.                *)
ScalesDown ==
  \E q \in Queue, n \in 1 .. MaxWorkers : ScaleQueue(q, n) /\ n < Cardinality(Of(q))

RunningIsListed == \A q \in Queue : RunningIn(q) \subseteq Range(workers)

LEMMA CurrentIsAll ==
  ASSUME PInv, NEW q \in Queue
  PROVE  /\ Of(q) \cap Active = Of(q) /\ IsFiniteSet(Of(q))
         /\ \A n \in Nat : Of(q) = {q} \X (1 .. n) => Cardinality(Of(q)) = n
<1>1. Of(q) \cap Active = Of(q)
  BY DEF PInv, ListedIsRunning, Of, Active
<1>2. IsFiniteSet({q}) /\ Cardinality({q}) = 1
  BY FS_Singleton
<1>3. ASSUME NEW n \in Nat
      PROVE  IsFiniteSet({q} \X (1 .. n)) /\ Cardinality({q} \X (1 .. n)) = n
  <2>1. 1 \in Int /\ n \in Int
    OBVIOUS
  <2>2. IsFiniteSet(1 .. n) /\ Cardinality(1 .. n) = n
    <3>1. IsFiniteSet(1 .. n) /\ Cardinality(1 .. n) = IF 1 > n THEN 0 ELSE n - 1 + 1
      BY <2>1, FS_Interval, Zenon
    <3> QED BY <3>1
  <2>3. /\ IsFiniteSet({q} \X (1 .. n))
        /\ Cardinality({q} \X (1 .. n)) = Cardinality({q}) * Cardinality(1 .. n)
    BY <1>2, <2>2, FS_Product
  <2> QED BY <1>2, <2>2, <2>3
<1>4. Of(q) \subseteq {q} \X (1 .. (MaxWorkers + DefaultWorkers))
  BY DEF PInv, PoolTypeOK, Of, Id
<1>5. IsFiniteSet(Of(q))
  <2>1. MaxWorkers + DefaultWorkers \in Nat
    OBVIOUS
  <2>2. IsFiniteSet({q} \X (1 .. (MaxWorkers + DefaultWorkers)))
    BY <1>3, <2>1
  <2> QED BY <1>4, <2>2, FS_Subset
<1> QED
  BY <1>1, <1>3, <1>5

LEMMA InitIsGapless == PoolInit => Gapless /\ RunningIsListed
<1> SUFFICES ASSUME PoolInit PROVE Gapless /\ RunningIsListed
  OBVIOUS
<1>1. workers = [id \in {DefaultQueue} \X (1 .. DefaultWorkers) |-> id[2]]
  BY DEF PoolInit
<1>2. ASSUME NEW q \in Queue PROVE \E n \in Nat : Of(q) = {q} \X (1 .. n)
  <2>1. CASE q = DefaultQueue
    <3>1. Of(q) = {q} \X (1 .. DefaultWorkers)
      BY <1>1, <2>1 DEF Of
    <3> QED BY <3>1
  <2>2. CASE q # DefaultQueue
    <3>1. Of(q) = {q} \X (1 .. 0)
      BY <1>1, <2>2 DEF Of
    <3> QED BY <3>1
  <2> QED BY <2>1, <2>2
<1>3. ASSUME NEW q \in Queue, NEW w \in RunningIn(q) PROVE w \in Range(workers)
  <2>1. w \in 1 .. DefaultWorkers
    BY DEF PoolInit, RunningIn, PoolWorker
  <2>2. <<DefaultQueue, w>> \in DOMAIN workers /\ workers[<<DefaultQueue, w>>] = w
    BY <1>1, <2>1
  <2> QED BY <2>2 DEF Range
<1> QED
  BY <1>2, <1>3 DEF Gapless, RunningIsListed

(* New workers stand behind the others of their queue, over nobody.         *)
LEMMA StartFillsUp ==
  ASSUME PInv, Gapless, NEW q \in Queue, NEW n \in 0 .. MaxWorkers,
         NEW current \in Nat, current = Cardinality(Of(q)), current < n,
         StartWorkers(q, New(q, current, n))
  PROVE  Gapless' /\ (RunningIsListed => RunningIsListed')
<1> DEFINE new == New(q, current, n)
<1>1. Of(q) = {q} \X (1 .. current)
  <2>1. PICK m \in Nat : Of(q) = {q} \X (1 .. m)
    BY DEF Gapless
  <2> QED BY <2>1, CurrentIsAll
<1>2. DOMAIN new = {q} \X ((current + 1) .. n)
  BY DEF New
<1>3. /\ workers' = [id \in DOMAIN workers \cup DOMAIN new |->
                       IF id \in DOMAIN new THEN new[id] ELSE workers[id]]
      /\ queueOf' = [w \in PoolWorker |-> IF w \in Range(new) THEN q ELSE queueOf[w]]
      /\ place' = [w \in PoolWorker |-> IF w \in Range(new) THEN "loop" ELSE place[w]]
      /\ UNCHANGED <<status, cancelled>>
  BY DEF StartWorkers
<1>4. \A id \in DOMAIN new : id \notin DOMAIN workers
  <2>1. ASSUME NEW id \in DOMAIN new, id \in DOMAIN workers PROVE FALSE
    <3>1. id[1] = q /\ id[2] \in (current + 1) .. n
      BY <1>2, <2>1
    <3>2. id \in Of(q)
      BY <2>1, <3>1 DEF Of
    <3>3. id \in {q} \X (1 .. current)
      BY <1>1, <3>2
    <3>4. id[2] \in 1 .. current
      BY <3>3
    <3> QED BY <3>1, <3>4
  <2> QED BY <2>1
<1>5. Gapless'
  <2>1. Of(q)' = {q} \X (1 .. n)
    <3>1. DOMAIN workers' = DOMAIN workers \cup DOMAIN new
      BY <1>3
    <3>2. Of(q)' = Of(q) \cup DOMAIN new
      <4>1. \A id \in DOMAIN new : id[1] = q
        BY <1>2
      <4> HIDE DEF new
      <4> QED BY <3>1, <4>1 DEF Of
    <3>3. (1 .. current) \cup ((current + 1) .. n) = 1 .. n
      OBVIOUS
    <3> QED BY <1>1, <1>2, <3>2, <3>3
  <2>2. ASSUME NEW r \in Queue, r # q PROVE Of(r)' = Of(r)
    <3>1. DOMAIN workers' = DOMAIN workers \cup DOMAIN new
      BY <1>3
    <3>2. \A id \in DOMAIN new : id[1] # r
      BY <1>2, <2>2
    <3> HIDE DEF new
    <3> QED BY <3>1, <3>2 DEF Of
  <2> QED BY <2>1, <2>2 DEF Gapless
<1>6. ASSUME RunningIsListed, NEW r \in Queue, NEW w \in RunningIn(r)' PROVE w \in Range(workers')
  <2>1. CASE w \in Range(new)
    <3>1. PICK id \in DOMAIN new : new[id] = w
      BY <2>1 DEF Range
    <3>2. id \in DOMAIN workers' /\ workers'[id] = w
      <4> HIDE DEF new
      <4> QED BY <1>3, <3>1
    <3> QED BY <3>2 DEF Range
  <2>2. CASE w \notin Range(new)
    <3>1. w \in RunningIn(r)
      BY <1>3, <2>2 DEF RunningIn
    <3>2. PICK id \in DOMAIN workers : workers[id] = w
      BY <1>6, <3>1 DEF RunningIsListed, Range
    <3> QED BY <1>3, <1>4, <3>2 DEF Range
  <2> QED BY <2>1, <2>2
<1> QED
  BY <1>5, <1>6 DEF RunningIsListed

LEMMA StopListed ==
  ASSUME PInv, RunningIsListed, NEW ids \in SUBSET DOMAIN workers, StopWorkers(ids)
  PROVE  RunningIsListed'
<1>1. /\ cancelled' = cancelled \cup {workers[id] : id \in ids}
      /\ workers' = [id \in DOMAIN workers \ ids |-> workers[id]]
      /\ UNCHANGED <<queueOf, place>>
  BY DEF StopWorkers, Restrict
<1>2. ASSUME NEW q \in Queue, NEW w \in RunningIn(q)' PROVE w \in Range(workers')
  <2>1. w \in RunningIn(q) /\ w \notin cancelled'
    BY <1>1 DEF RunningIn
  <2>2. PICK id \in DOMAIN workers : workers[id] = w
    BY <2>1 DEF RunningIsListed, Range
  <2>3. id \notin ids
    BY <1>1, <2>1, <2>2
  <2> QED BY <1>1, <2>2, <2>3 DEF Range
<1> QED
  BY <1>2 DEF RunningIsListed

LEMMA GoroutineStays ==
  ASSUME PInv, NEW v \in PoolWorker,
         CheckContext(v) \/ PopNothing(v) \/ PopJob(v) \/ FinishJob(v)
  PROVE  workers' = workers /\ \A q \in Queue : RunningIn(q)' \subseteq RunningIn(q)
<1>1. UNCHANGED <<workers, queueOf, cancelled>>
  BY DEF CheckContext, PopNothing, PopJob, FinishJob
<1>2. PICK from \in {"loop", "pop", "busy"}, to \in {"loop", "pop", "busy", "exited"} :
           place[v] = from /\ place' = [place EXCEPT ![v] = to]
  BY DEF CheckContext, PopNothing, PopJob, FinishJob, Goto
<1>3. place \in [PoolWorker -> {"new", "loop", "pop", "busy", "exited"}]
  BY DEF PInv, PoolTypeOK
<1>4. \A w \in PoolWorker : place'[w] \notin {"new", "exited"} => place[w] \notin {"new", "exited"}
  BY <1>2, <1>3
<1> QED
  BY <1>1, <1>4 DEF RunningIn

LEMMA ListedStep ==
  ASSUME PInv, Gapless, RunningIsListed, [PoolNext]_poolVars
  PROVE  RunningIsListed'
<1>1. ASSUME NEW q \in Queue, NEW n \in 0 .. MaxWorkers, ScaleQueue(q, n) PROVE RunningIsListed'
  <2>1. Of(q) \cap Active = Of(q) /\ Cardinality(Of(q)) \in Nat
    BY CurrentIsAll, FS_CardinalityType
  <2>2. CASE Cardinality(Of(q)) < n /\ StartWorkers(q, New(q, Cardinality(Of(q)), n))
    BY <2>1, <2>2, StartFillsUp
  <2>3. CASE \E ids \in SUBSET Of(q) : StopWorkers(ids)
    BY <2>3, StopListed DEF Of
  <2> QED BY <1>1, <2>1, <2>2, <2>3 DEF ScaleQueue
<1>2. CASE StopAll
  BY <1>2, StopListed DEF StopAll
<1>3. ASSUME NEW w \in PoolWorker, CheckContext(w) \/ PopNothing(w) \/ PopJob(w) \/ FinishJob(w)
      PROVE  RunningIsListed'
  BY <1>3, GoroutineStays DEF RunningIsListed
<1>4. CASE UNCHANGED poolVars
  BY <1>4 DEF poolVars, RunningIsListed, RunningIn
<1> QED
  BY <1>1, <1>2, <1>3, <1>4 DEF PoolNext

LEMMA GaplessStep ==
  ASSUME PInv, Gapless, [PoolNext]_poolVars
  PROVE  Gapless' \/ ScalesDown
<1>1. ASSUME NEW q \in Queue, NEW n \in 0 .. MaxWorkers, ScaleQueue(q, n)
      PROVE  Gapless' \/ ScalesDown
  <2> DEFINE current == Cardinality(Of(q))
  <2>1. Of(q) \cap Active = Of(q) /\ IsFiniteSet(Of(q)) /\ current \in Nat
    BY CurrentIsAll, FS_CardinalityType
  <2>2. CASE current < n /\ StartWorkers(q, New(q, current, n))
    BY <2>1, <2>2, StartFillsUp
  <2>3. ASSUME current > n, NEW ids \in SUBSET Of(q), Cardinality(ids) = current - n, StopWorkers(ids)
        PROVE  Gapless' \/ ScalesDown
    <3>1. CASE n \in 1 .. MaxWorkers
      BY <1>1, <2>3, <3>1 DEF ScalesDown
    <3>2. CASE n = 0
      <4>1. ids = Of(q)
        <5>1. Cardinality(ids) = Cardinality(Of(q))
          BY <2>1, <2>3, <3>2
        <5> QED BY <2>1, <5>1, FS_Subset
      <4>2. DOMAIN workers' = DOMAIN workers \ Of(q)
        BY <2>3, <4>1 DEF StopWorkers, Restrict
      <4>3. Of(q)' = {q} \X (1 .. 0)
        BY <4>2 DEF Of
      <4>4. ASSUME NEW r \in Queue, r # q PROVE Of(r)' = Of(r)
        BY <4>2, <4>4 DEF Of
      <4> QED BY <4>3, <4>4 DEF Gapless
    <3> QED BY <3>1, <3>2
  <2> QED BY <1>1, <2>1, <2>2, <2>3 DEF ScaleQueue
<1>2. CASE StopAll
  <2>1. DOMAIN workers' = {}
    BY <1>2 DEF StopAll, StopWorkers, Restrict
  <2>2. \A q \in Queue : Of(q)' = {q} \X (1 .. 0)
    BY <2>1 DEF Of
  <2> QED BY <2>2 DEF Gapless
<1>3. ASSUME NEW w \in PoolWorker, CheckContext(w) \/ PopNothing(w) \/ PopJob(w) \/ FinishJob(w)
      PROVE  Gapless'
  BY <1>3, GoroutineStays DEF Gapless, Of
<1>4. CASE UNCHANGED poolVars
  BY <1>4 DEF poolVars, Gapless, Of
<1> QED
  BY <1>1, <1>2, <1>3, <1>4 DEF PoolNext

LEMMA ListedIsEnough == PInv /\ RunningIsListed => PausedQueueIsIdle
<1> SUFFICES ASSUME PInv, RunningIsListed, NEW q \in Queue, Of(q) = {}, NEW w \in RunningIn(q)
             PROVE  FALSE
  BY DEF PausedQueueIsIdle
<1>1. PICK id \in DOMAIN workers : workers[id] = w
  BY DEF RunningIsListed, Range
<1>2. id[1] = q
  BY <1>1 DEF PInv, PoolTypeOK, RunningIn
<1> QED
  BY <1>1, <1>2 DEF Of

(* As long as no queue is scaled down to fewer workers but some, PauseQueue *)
(* and Stop reach every worker that runs: what the test of the manager says *)
(* holds for any number of queues and workers.                              *)
THEOREM PauseReachesAll == PoolSpec /\ []Gapless => []PausedQueueIsIdle
  BY InitIsGapless, ListedStep, ListedIsEnough, PoolInvariant, PTL DEF PoolSpec

(* The numbers have a gap only after ScaleQueue went down to fewer, and not *)
(* to none: it is the only way to lose a worker that runs.                  *)
THEOREM OnlyScalingDownLoses == PoolSpec /\ [][~ScalesDown]_poolVars => []PausedQueueIsIdle
<1>1. PInv /\ Gapless /\ [PoolNext]_poolVars /\ [~ScalesDown]_poolVars => Gapless'
  <2>1. UNCHANGED poolVars /\ Gapless => Gapless'
    BY DEF poolVars, Gapless, Of
  <2> QED BY <2>1, GaplessStep
<1>2. PoolSpec /\ [][~ScalesDown]_poolVars => []Gapless
  BY <1>1, InitIsGapless, PoolInvariant, PTL DEF PoolSpec
<1> QED
  BY <1>2, PauseReachesAll, PTL

-----------------------------------------------------------------------------
(* Part 2: the table of jobs.                                              *)
HIDE WorkerPoolAssumption
    DEF WorkerPoolAssumption

USE JobStoreAssumption DEF JobStoreAssumption

Stored(j, since) == j \in DOMAIN row /\ row[j] >= since

(* Goroutine g will save j as it was then, or later.                       *)
WillSave(g, j, since) ==
  j \in saving[g].todo \/ (saving[g].job = j /\ saving[g].copy >= since)

(* What is read is of the past.                                            *)
NoMarkAhead == \A j \in StoredJob : queuedAt[j] <= edits[j] /\ atStop[j] <= edits[j]
NoCopyAhead ==
  \A g \in Goroutine : saving[g].job # NoJob => saving[g].copy \in 1..edits[saving[g].job]

(* Until Enqueue has saved the job, its caller is about to; the same of    *)
(* Stop and its goroutine.                                                 *)
EnqueueSaves ==
  \A j \in StoredJob \ doubtful :
    held_by[j] = "queue" =>
      Stored(j, queuedAt[j]) \/ \E g \in Caller : WillSave(g, j, queuedAt[j])
StopWillSave ==
  \A j \in StoredJob \ doubtful :
    stop # "no" /\ atStop[j] > 0 =>
      Stored(j, atStop[j]) \/ (stop = "saving" /\ WillSave(Stopper, j, atStop[j]))
NotStopped == stop = "no" => \A j \in StoredJob : atStop[j] = 0

STInv == StoreTypeOK /\ NoMarkAhead /\ NoCopyAhead /\ EnqueueSaves /\ StopWillSave /\ NotStopped

LEMMA StoreImplies == STInv => QueuedIsStored
  BY DEF STInv, StoreTypeOK, EnqueueSaves, StopWillSave, NotStopped, QueuedIsStored, Stored, WillSave

LEMMA StoreInitInv == StoreInit => STInv
  BY DEF StoreInit, STInv, StoreTypeOK, NoMarkAhead, NoCopyAhead, EnqueueSaves, StopWillSave,
       NotStopped, ToSave

LEMMA EnqueueKeeps ==
  ASSUME STInv, NEW g \in Caller, NEW j \in StoredJob, EnqueueStored(g, j)
  PROVE  STInv'
<1> USE DEF EnqueueStored, Hand, Saved, Goroutine
<1>1. saving' = [saving EXCEPT ![g] = [todo |-> {j}, job |-> NoJob, copy |-> 0]]
  BY DEF Collect, ToSave
<1>2. StoreTypeOK'
  BY <1>1 DEF STInv, StoreTypeOK
<1>3. NoMarkAhead' /\ NoCopyAhead'
  BY <1>1 DEF STInv, StoreTypeOK, NoMarkAhead, NoCopyAhead
<1>4. EnqueueSaves'
  BY <1>1 DEF STInv, StoreTypeOK, EnqueueSaves, Stored, WillSave
<1>5. StopWillSave' /\ NotStopped'
  BY <1>1 DEF STInv, StoreTypeOK, StopWillSave, NotStopped, Stored, WillSave
<1> QED
  BY <1>2, <1>3, <1>4, <1>5 DEF STInv

LEMMA HandoverKeeps ==
  ASSUME STInv, NEW j \in StoredJob, Handover(j)
  PROVE  STInv'
<1>1. /\ UNCHANGED <<edits, row, saving, stop, queuedAt, atStop, doubtful>>
      /\ held_by' \in [StoredJob -> {"app", "queue", "worker", "dead_letter"}]
      /\ \A i \in StoredJob : held_by'[i] = "queue" => held_by[i] = "queue"
  BY DEF Handover, Hand, marks, STInv, StoreTypeOK
<1>2. StoreTypeOK' /\ NoMarkAhead' /\ NoCopyAhead' /\ NotStopped'
  BY <1>1 DEF STInv, StoreTypeOK, NoMarkAhead, NoCopyAhead, NotStopped
<1>3. EnqueueSaves' /\ StopWillSave'
  BY <1>1 DEF STInv, EnqueueSaves, StopWillSave, Stored, WillSave
<1> QED
  BY <1>2, <1>3 DEF STInv

LEMMA EditKeeps ==
  ASSUME STInv, NEW j \in StoredJob, Edit(j)
  PROVE  STInv'
<1>1. /\ UNCHANGED <<held_by, row, saving, stop, queuedAt, atStop, doubtful>>
      /\ edits' = [edits EXCEPT ![j] = edits[j] + 1] /\ edits[j] < MaxEdits
  BY DEF Edit, marks
<1>2. StoreTypeOK' /\ NoMarkAhead' /\ NoCopyAhead' /\ NotStopped'
  BY <1>1 DEF STInv, StoreTypeOK, NoMarkAhead, NoCopyAhead, NotStopped
<1>3. EnqueueSaves' /\ StopWillSave'
  BY <1>1 DEF STInv, EnqueueSaves, StopWillSave, Stored, WillSave
<1> QED
  BY <1>2, <1>3 DEF STInv

LEMMA TickerKeeps ==
  ASSUME STInv, runPersistence
  PROVE  STInv'
<1>1. /\ UNCHANGED <<held_by, edits, row, stop, queuedAt, atStop, doubtful>>
      /\ saving' = [saving EXCEPT ![Ticker] = [todo |-> Queues, job |-> NoJob, copy |-> 0]]
  BY DEF runPersistence, Collect, ToSave, marks
<1>2. StoreTypeOK' /\ NoMarkAhead' /\ NoCopyAhead' /\ NotStopped'
  BY <1>1 DEF STInv, StoreTypeOK, NoMarkAhead, NoCopyAhead, NotStopped, Queues, Goroutine
<1>3. \A g \in Caller \cup {Stopper} : saving'[g] = saving[g]
  BY <1>1 DEF STInv, StoreTypeOK, Goroutine
<1>4. EnqueueSaves' /\ StopWillSave'
  BY <1>1, <1>3 DEF STInv, EnqueueSaves, StopWillSave, Stored, WillSave
<1> QED
  BY <1>2, <1>4 DEF STInv

LEMMA StopSavesKeeps ==
  ASSUME STInv, StopSaves
  PROVE  STInv'
<1>1. /\ UNCHANGED <<held_by, edits, row, queuedAt, doubtful>>
      /\ saving' = [saving EXCEPT ![Stopper] = [todo |-> Queues, job |-> NoJob, copy |-> 0]]
      /\ atStop' = [j \in StoredJob |-> IF j \in Queues THEN edits[j] ELSE 0]
      /\ stop' = "saving"
  BY DEF StopSaves, Collect, ToSave
<1>2. StoreTypeOK'
  BY <1>1 DEF STInv, StoreTypeOK, Queues, Goroutine
<1>3. NoMarkAhead' /\ NoCopyAhead' /\ NotStopped'
  BY <1>1 DEF STInv, StoreTypeOK, NoMarkAhead, NoCopyAhead, NotStopped
<1>4. EnqueueSaves'
  <2>1. \A g \in Caller : saving'[g] = saving[g]
    BY <1>1 DEF STInv, StoreTypeOK, Goroutine
  <2> QED BY <1>1, <2>1 DEF STInv, EnqueueSaves, Stored, WillSave
<1>5. StopWillSave'
  <2>1. saving'[Stopper].todo = Queues
    BY <1>1 DEF STInv, StoreTypeOK, Goroutine
  <2> QED BY <1>1, <2>1 DEF StopWillSave, WillSave
<1> QED
  BY <1>2, <1>3, <1>4, <1>5 DEF STInv

LEMMA StopReturnsKeeps ==
  ASSUME STInv, StopReturns
  PROVE  STInv'
<1>1. /\ UNCHANGED <<held_by, edits, row, saving, queuedAt, atStop, doubtful>>
      /\ stop = "saving" /\ stop' = "done" /\ Saved(Stopper)
  BY DEF StopReturns, marks
<1>2. StoreTypeOK' /\ NoMarkAhead' /\ NoCopyAhead' /\ NotStopped'
  BY <1>1 DEF STInv, StoreTypeOK, NoMarkAhead, NoCopyAhead, NotStopped
<1>3. EnqueueSaves'
  BY <1>1 DEF STInv, EnqueueSaves, Stored, WillSave
<1>4. StopWillSave'
  BY <1>1 DEF STInv, StopWillSave, Stored, WillSave, Saved
<1> QED
  BY <1>2, <1>3, <1>4 DEF STInv

LEMMA ReadKeeps ==
  ASSUME STInv, NEW g \in Goroutine, ReadFields(g)
  PROVE  STInv'
<1>1. PICK j \in saving[g].todo :
        saving' = [saving EXCEPT ![g] = [todo |-> saving[g].todo \ {j}, job |-> j, copy |-> edits[j]]]
  BY DEF ReadFields
<1>2. /\ UNCHANGED <<held_by, edits, row, stop, queuedAt, atStop, doubtful>>
      /\ saving[g].job = NoJob /\ j \in StoredJob
  BY <1>1 DEF ReadFields, marks, STInv, StoreTypeOK
<1>3. StoreTypeOK' /\ NoMarkAhead' /\ NoCopyAhead' /\ NotStopped'
  BY <1>1, <1>2 DEF STInv, StoreTypeOK, NoMarkAhead, NoCopyAhead, NotStopped
<1>4. \A h \in Goroutine, i \in StoredJob : \A n \in 0..edits[i] :
        WillSave(h, i, n) => WillSave(h, i, n)'
  BY <1>1, <1>2 DEF STInv, StoreTypeOK, WillSave
<1>5. \A i \in StoredJob : queuedAt[i] \in 0..edits[i] /\ atStop[i] \in 0..edits[i]
  BY DEF STInv, StoreTypeOK, NoMarkAhead
<1>6. EnqueueSaves' /\ StopWillSave'
  BY <1>2, <1>4, <1>5 DEF STInv, EnqueueSaves, StopWillSave, Stored, Goroutine
<1> QED
  BY <1>3, <1>6 DEF STInv

LEMMA SaveKeeps ==
  ASSUME STInv, NEW g \in Goroutine, saveJobToDB(g)
  PROVE  STInv'
<1> DEFINE j == saving[g].job
           copy == saving[g].copy
           late == j \in DOMAIN row /\ row[j] > copy
           written == row' = [i \in DOMAIN row \cup {j} |-> IF i = j THEN copy ELSE row[i]]
<1>1. /\ UNCHANGED <<held_by, edits, stop, queuedAt, atStop>>
      /\ saving' = [saving EXCEPT ![g] = [todo |-> saving[g].todo, job |-> NoJob, copy |-> 0]]
      /\ j # NoJob
      /\ \/ written /\ doubtful' = IF late THEN doubtful \cup {j} ELSE doubtful
         \/ row' = row /\ doubtful' = doubtful \cup {j}
  BY DEF saveJobToDB, Collect, ToSave
<1>2. j \in StoredJob /\ copy \in 1..edits[j] /\ edits[j] \in 1..MaxEdits
  BY <1>1 DEF STInv, StoreTypeOK, NoCopyAhead
<1>3. \A i \in DOMAIN row : i \in StoredJob /\ row[i] \in 1..edits[i] /\ edits[i] \in 1..MaxEdits
  BY DEF STInv, StoreTypeOK
<1>4. \A h \in Goroutine, i \in StoredJob, n \in Nat :
        WillSave(h, i, n) /\ ~(h = g /\ i = j) => WillSave(h, i, n)'
  BY <1>1 DEF STInv, StoreTypeOK, WillSave
<1>5. \A i \in StoredJob \ doubtful', n \in Nat : Stored(i, n) => Stored(i, n)'
  BY <1>1, <1>2, <1>3 DEF Stored
<1>6. \A i \in StoredJob \ doubtful', n \in Nat :
        i = j /\ WillSave(g, i, n) => Stored(i, n)' \/ WillSave(g, i, n)'
  <2> SUFFICES ASSUME NEW i \in StoredJob \ doubtful', NEW n \in Nat, i = j, WillSave(g, i, n)
               PROVE  Stored(i, n)' \/ WillSave(g, i, n)'
    OBVIOUS
  <2>1. CASE i \in saving[g].todo
    <3>1. saving'[g].todo = saving[g].todo
      BY <1>1 DEF STInv, StoreTypeOK
    <3> QED BY <2>1, <3>1 DEF WillSave
  <2>2. CASE copy >= n
    <3>1. written
      BY <1>1
    <3>2. i \in DOMAIN row' /\ row'[i] = copy
      BY <3>1
    <3> QED BY <2>2, <3>2 DEF Stored
  <2> QED BY <2>1, <2>2 DEF WillSave
<1>7. \A i \in StoredJob \ doubtful', n \in Nat, h \in Goroutine :
        Stored(i, n) \/ WillSave(h, i, n) => Stored(i, n)' \/ WillSave(h, i, n)'
  BY <1>4, <1>5, <1>6
<1>8. doubtful \subseteq doubtful' /\ doubtful' \subseteq StoredJob
  BY <1>1, <1>2 DEF STInv, StoreTypeOK
<1>9. /\ DOMAIN row' \subseteq StoredJob
      /\ \A i \in DOMAIN row' : row'[i] \in 1..edits'[i]
  BY <1>1, <1>2, <1>3
<1>10. StoreTypeOK'
  BY <1>1, <1>8, <1>9 DEF STInv, StoreTypeOK
<1>11. NoMarkAhead' /\ NoCopyAhead' /\ NotStopped'
  BY <1>1 DEF STInv, StoreTypeOK, NoMarkAhead, NoCopyAhead, NotStopped
<1>12. \A i \in StoredJob : queuedAt[i] \in Nat /\ atStop[i] \in Nat
  BY DEF STInv, StoreTypeOK
<1>13. EnqueueSaves'
  <2> SUFFICES ASSUME NEW i \in StoredJob \ doubtful', held_by[i] = "queue"
               PROVE  Stored(i, queuedAt[i])' \/ \E h \in Caller : WillSave(h, i, queuedAt[i])'
    BY <1>1 DEF EnqueueSaves
  <2>1. Stored(i, queuedAt[i]) \/ \E h \in Caller : WillSave(h, i, queuedAt[i])
    BY <1>8 DEF STInv, EnqueueSaves
  <2>2. CASE Stored(i, queuedAt[i])
    BY <1>1, <1>5, <1>12, <2>2 DEF Stored
  <2>3. CASE \E h \in Caller : WillSave(h, i, queuedAt[i])
    BY <1>1, <1>7, <1>12, <2>3 DEF Stored, WillSave, Goroutine
  <2> QED BY <2>1, <2>2, <2>3
<1>14. StopWillSave'
  <2> SUFFICES ASSUME NEW i \in StoredJob \ doubtful', stop # "no", atStop[i] > 0
               PROVE  \/ Stored(i, atStop[i])'
                      \/ stop = "saving" /\ WillSave(Stopper, i, atStop[i])'
    BY <1>1 DEF StopWillSave
  <2>1. Stored(i, atStop[i]) \/ (stop = "saving" /\ WillSave(Stopper, i, atStop[i]))
    BY <1>8 DEF STInv, StopWillSave
  <2>2. CASE Stored(i, atStop[i])
    BY <1>1, <1>5, <1>12, <2>2 DEF Stored
  <2>3. CASE stop = "saving" /\ WillSave(Stopper, i, atStop[i])
    BY <1>1, <1>7, <1>12, <2>3 DEF Stored, WillSave, Goroutine
  <2> QED BY <2>1, <2>2, <2>3
<1> QED
  BY <1>10, <1>11, <1>13, <1>14 DEF STInv

LEMMA StoreNextKeeps == STInv /\ [StoreNext]_storeVars => STInv'
<1> SUFFICES ASSUME STInv, [StoreNext]_storeVars PROVE STInv'
  OBVIOUS
<1>1. CASE UNCHANGED storeVars
  BY <1>1 DEF storeVars, marks, STInv, StoreTypeOK, NoMarkAhead, NoCopyAhead, EnqueueSaves,
              StopWillSave, NotStopped, Stored, WillSave
<1>2. CASE \E g \in Caller, j \in StoredJob : EnqueueStored(g, j)
  BY <1>2, EnqueueKeeps
<1>3. CASE \E j \in StoredJob : Handover(j) \/ Edit(j)
  BY <1>3, HandoverKeeps, EditKeeps
<1>4. CASE runPersistence \/ StopSaves \/ StopReturns
  BY <1>4, TickerKeeps, StopSavesKeeps, StopReturnsKeeps
<1>5. CASE \E g \in Goroutine : ReadFields(g) \/ saveJobToDB(g)
  BY <1>5, ReadKeeps, SaveKeeps
<1> QED
  BY <1>1, <1>2, <1>3, <1>4, <1>5 DEF StoreNext

(* What holds in every state of the table and of those who write it: a job *)
(* that was queued and not yet saved is still in somebody's hands to save. *)
THEOREM StoreInvariant == StoreSpec => []STInv
<1>1. StoreInit => STInv
  BY StoreInitInv
<1>2. STInv /\ [StoreNext]_storeVars => STInv'
  BY StoreNextKeeps
<1> QED
  BY <1>1, <1>2, PTL DEF StoreSpec

(* The types; in them, that no row is ahead of its job.                    *)
THEOREM StoreTypesCorrect == StoreSpec => []StoreTypeOK
  BY StoreInvariant, PTL DEF STInv

(* Enqueue and Stop of manager.go leave what they promise in the table,    *)
(* whoever saves the same job meanwhile and however often it is edited.    *)
THEOREM QueuedStored == StoreSpec => []QueuedIsStored
  BY StoreInvariant, StoreImplies, PTL

-----------------------------------------------------------------------------
(* Part 3: the memory queue.                                               *)
HIDE JobStoreAssumption
    DEF JobStoreAssumption

USE MemoryQueueAssumption DEF MemoryQueueAssumption

LEMMA LeastNumber ==
  ASSUME NEW T, T \subseteq Nat, T # {}
  PROVE  \E x \in T : \A y \in T : x <= y
<1>1. PICK x \in T : \A y \in T : ~(<<y, x>> \in OpToRel(<, Nat))
  BY WFMin, NatLessThanWellFounded
<1>2. \A y \in T : ~(y < x)
  BY <1>1 DEF OpToRel
<1> QED
  BY <1>2

Priorities == priority \in [Job -> Priority]

LEMMA WeightIs ==
  ASSUME Priorities, NEW i \in Job, NEW j \in Job
  PROVE  /\ Weight(i) \in Nat
         /\ priority[i] = priority[j] => Weight(i) = Weight(j)
         /\ Known(i) /\ Known(j) /\ priority[i] # priority[j] => Weight(i) # Weight(j)
<1>1. priority[i] \in Nat /\ priority[j] \in Nat
  BY DEF Priorities
<1> DEFINE p == priority[i]
           q == priority[j]
<1>2. /\ p = 0 => Weight(i) = 1
      /\ p = 1 => Weight(i) = 10
      /\ p = 2 => Weight(i) = 100
      /\ p = 3 => Weight(i) = 1000
      /\ p \notin {0, 1, 2, 3} => Weight(i) = 10
  BY <1>1 DEF Weight
<1>3. /\ q = 0 => Weight(j) = 1
      /\ q = 1 => Weight(j) = 10
      /\ q = 2 => Weight(j) = 100
      /\ q = 3 => Weight(j) = 1000
      /\ q \notin {0, 1, 2, 3} => Weight(j) = 10
  BY <1>1 DEF Weight
<1>4. (Known(i) => p \in {0, 1, 2, 3}) /\ (Known(j) => q \in {0, 1, 2, 3})
  BY <1>1 DEF Known
<1> HIDE DEF p, q
<1>5. Weight(i) \in Nat
  BY <1>2
<1>6. p = q => Weight(i) = Weight(j)
  BY <1>2, <1>3
<1>7. Known(i) /\ Known(j) /\ p # q => Weight(i) # Weight(j)
  BY <1>2, <1>3, <1>4
<1> QED
  BY <1>5, <1>6, <1>7 DEF p, q

(* The order in which Pop is to find the jobs: by weight, and where all     *)
(* priorities are known, first in first out within each.                    *)
InTurn(i, k) ==
  /\ Weight(k) <= Weight(i)
  /\ (\A j \in Job : Known(j)) /\ priority[k] = priority[i] => CreatedAt[i] <= CreatedAt[k]

ListInOrder(list) == \A i, k \in 1 .. Len(list) : i < k => InTurn(list[i], list[k])

(* What stands before j is not behind it, and what Less puts behind j is.   *)
LEMMA LessIsTurn ==
  ASSUME Priorities, NEW i \in Job, NEW j \in Job
  PROVE  /\ Less(j, i) => InTurn(j, i)
         /\ ~Less(j, i) => InTurn(i, j)
<1>1. Weight(i) \in Nat /\ Weight(j) \in Nat /\ CreatedAt[i] \in Nat /\ CreatedAt[j] \in Nat
  BY WeightIs
<1>2. priority[i] = priority[j] => Weight(i) = Weight(j)
  BY WeightIs
<1> QED
  BY <1>1, <1>2 DEF Less, InTurn

LEMMA TurnsFollow ==
  ASSUME Priorities, NEW i \in Job, NEW j \in Job, NEW k \in Job, InTurn(i, j), InTurn(j, k)
  PROVE  InTurn(i, k)
<1>1. /\ Weight(i) \in Nat /\ Weight(j) \in Nat /\ Weight(k) \in Nat
      /\ CreatedAt[i] \in Nat /\ CreatedAt[j] \in Nat /\ CreatedAt[k] \in Nat
  BY WeightIs
<1>2. Weight(j) <= Weight(i) /\ Weight(k) <= Weight(j)
  BY DEF InTurn
<1>3. ASSUME \A l \in Job : Known(l), priority[k] = priority[i] PROVE CreatedAt[i] <= CreatedAt[k]
  <2>1. Weight(i) = Weight(k)
    BY <1>3, WeightIs
  <2>2. Weight(i) = Weight(j)
    BY <1>1, <1>2, <2>1
  <2>3. priority[i] = priority[j]
    BY <1>3, <2>2, WeightIs
  <2>4. CreatedAt[i] <= CreatedAt[j] /\ CreatedAt[j] <= CreatedAt[k]
    BY <1>3, <2>3 DEF InTurn
  <2> QED BY <1>1, <2>4
<1>4. Weight(k) <= Weight(i)
  BY <1>1, <1>2
<1> QED
  BY <1>3, <1>4 DEF InTurn

(* A job inserted at p.                                                     *)
LEMMA InsertIs ==
  ASSUME NEW s \in Seq(Job), NEW p \in 1 .. Len(s) + 1, NEW j \in Job
  PROVE  /\ InsertAt(s, p, j) \in Seq(Job)
         /\ Len(InsertAt(s, p, j)) = Len(s) + 1
         /\ \A i \in 1 .. Len(s) + 1 :
              InsertAt(s, p, j)[i] = IF i < p THEN s[i] ELSE IF i = p THEN j ELSE s[i - 1]
<1> DEFINE a == SubSeq(s, 1, p - 1)
           b == SubSeq(s, p, Len(s))
           c == a \o <<j>>
<1>1. Len(s) \in Nat /\ p \in Nat /\ p # 0 /\ p <= Len(s) + 1 /\ \A i \in 1 .. Len(s) : s[i] \in Job
  BY ElementOfSeq
<1>2. a \in Seq(Job) /\ Len(a) = p - 1 /\ \A i \in 1 .. p - 1 : a[i] = s[i]
  <2>1. \A i \in 1 .. p - 1 : s[i] \in Job
    BY <1>1
  <2> QED BY <1>1, <2>1, SubSeqProperties
<1>3. b \in Seq(Job) /\ Len(b) = Len(s) - p + 1 /\ \A i \in 1 .. Len(s) - p + 1 : b[i] = s[p + i - 1]
  <2>1. \A i \in p .. Len(s) : s[i] \in Job
    BY <1>1
  <2> QED BY <1>1, <2>1, SubSeqProperties
<1>4. <<j>> \in Seq(Job) /\ Len(<<j>>) = 1 /\ <<j>>[1] = j
  OBVIOUS
<1>5. /\ c \in Seq(Job) /\ Len(c) = p
      /\ \A i \in 1 .. p : c[i] = IF i < p THEN s[i] ELSE j
  <2> HIDE DEF a
  <2>1. /\ c \in Seq(Job) /\ Len(c) = Len(a) + 1
        /\ \A i \in 1 .. Len(a) + 1 : c[i] = IF i <= Len(a) THEN a[i] ELSE <<j>>[i - Len(a)]
    BY <1>2, <1>4, ConcatProperties
  <2>2. Len(a) + 1 = p /\ \A i \in 1 .. p : (i <= Len(a) <=> i < p) /\ (~(i < p) => i - Len(a) = 1)
    BY <1>1, <1>2
  <2>3. ASSUME NEW i \in 1 .. p PROVE c[i] = IF i < p THEN s[i] ELSE j
    <3> HIDE DEF c
    <3>1. CASE i < p
      <4>1. c[i] = a[i] /\ i \in 1 .. p - 1
        BY <1>1, <2>1, <2>2, <3>1, SMTT(60)
      <4> QED BY <1>2, <3>1, <4>1
    <3>2. CASE ~(i < p)
      BY <1>4, <2>1, <2>2, <3>2
    <3> QED BY <3>1, <3>2
  <2> HIDE DEF c
  <2> QED BY <2>1, <2>2, <2>3
<1>6. InsertAt(s, p, j) = c \o b
  BY DEF InsertAt
<1>7. /\ c \o b \in Seq(Job) /\ Len(c \o b) = Len(s) + 1
      /\ \A i \in 1 .. Len(s) + 1 : (c \o b)[i] = IF i <= p THEN c[i] ELSE b[i - p]
  <2> HIDE DEF b, c
  <2>1. Len(c) + Len(b) = Len(s) + 1 /\ Len(c) = p
    BY <1>1, <1>3, <1>5
  <2>2. /\ c \o b \in Seq(Job) /\ Len(c \o b) = Len(c) + Len(b)
        /\ \A i \in 1 .. Len(c) + Len(b) : (c \o b)[i] = IF i <= Len(c) THEN c[i] ELSE b[i - Len(c)]
    BY <1>3, <1>5, ConcatProperties
  <2> QED BY <2>1, <2>2
<1>8. ASSUME NEW i \in 1 .. Len(s) + 1, i > p PROVE b[i - p] = s[i - 1]
  <2>1. i - p \in 1 .. Len(s) - p + 1 /\ p + (i - p) - 1 = i - 1
    BY <1>1, <1>8
  <2> HIDE DEF b
  <2> QED BY <1>3, <2>1
<1>9. ASSUME NEW i \in 1 .. Len(s) + 1
      PROVE  (c \o b)[i] = IF i < p THEN s[i] ELSE IF i = p THEN j ELSE s[i - 1]
  <2> HIDE DEF a, b, c
  <2>1. CASE i <= p
    <3>1. (c \o b)[i] = c[i] /\ i \in 1 .. p
      BY <1>1, <1>7, <2>1
    <3>2. c[i] = IF i < p THEN s[i] ELSE j
      BY <1>5, <3>1
    <3> QED BY <1>1, <2>1, <3>1, <3>2
  <2>2. CASE i > p
    <3>2. ~(i <= p)
      BY <1>1, <2>2
    <3>1. (c \o b)[i] = b[i - p]
      BY <1>7, <3>2
    <3> QED BY <1>1, <1>8, <2>2, <3>1
  <2>3. i <= p \/ i > p
    BY <1>1
  <2> QED BY <2>1, <2>2, <2>3, Zenon
<1> HIDE DEF a, b, c
<1> QED
  BY <1>6, <1>7, <1>9

LEMMA RemoveIs ==
  ASSUME NEW s \in Seq(Job), NEW p \in 1 .. Len(s)
  PROVE  /\ RemoveAt(s, p) \in Seq(Job)
         /\ Len(RemoveAt(s, p)) = Len(s) - 1
         /\ \A i \in 1 .. Len(s) - 1 :
              RemoveAt(s, p)[i] = IF i < p THEN s[i] ELSE s[i + 1]
<1> DEFINE a == SubSeq(s, 1, p - 1)
           b == SubSeq(s, p + 1, Len(s))
<1>1. Len(s) \in Nat /\ p \in Nat /\ p # 0 /\ p <= Len(s) /\ \A i \in 1 .. Len(s) : s[i] \in Job
  BY ElementOfSeq
<1>2. a \in Seq(Job) /\ Len(a) = p - 1 /\ \A i \in 1 .. p - 1 : a[i] = s[i]
  <2>1. \A i \in 1 .. p - 1 : s[i] \in Job
    BY <1>1
  <2> QED BY <1>1, <2>1, SubSeqProperties
<1>3. b \in Seq(Job) /\ Len(b) = Len(s) - p /\ \A i \in 1 .. Len(s) - p : b[i] = s[p + i]
  <2>1. \A i \in p + 1 .. Len(s) : s[i] \in Job
    BY <1>1
  <2>2. /\ b \in Seq(Job) /\ Len(b) = IF p + 1 <= Len(s) THEN Len(s) - (p + 1) + 1 ELSE 0
        /\ \A i \in 1 .. Len(s) - (p + 1) + 1 : b[i] = s[p + 1 + i - 1]
    BY <1>1, <2>1, SubSeqProperties
  <2>3. Len(s) - (p + 1) + 1 = Len(s) - p
    BY <1>1
  <2> HIDE DEF b
  <2>4. ASSUME NEW i \in 1 .. Len(s) - p PROVE b[i] = s[p + i]
    <3>1. p + 1 + i - 1 = p + i /\ i \in 1 .. Len(s) - (p + 1) + 1
      BY <1>1
    <3> QED BY <2>2, <3>1
  <2>5. Len(b) = Len(s) - p
    BY <1>1, <2>2
  <2> QED BY <2>2, <2>4, <2>5
<1>4. RemoveAt(s, p) = a \o b
  BY DEF RemoveAt
<1>5. /\ a \o b \in Seq(Job) /\ Len(a \o b) = Len(a) + Len(b)
      /\ \A i \in 1 .. Len(a) + Len(b) : (a \o b)[i] = IF i <= Len(a) THEN a[i] ELSE b[i - Len(a)]
  <2> HIDE DEF a, b
  <2> QED BY <1>2, <1>3, ConcatProperties, ZenonT(60)
<1>6. Len(a) + Len(b) = Len(s) - 1
  <2> HIDE DEF a, b
  <2> QED BY <1>1, <1>2, <1>3
<1>7. ASSUME NEW i \in 1 .. Len(s) - 1 PROVE (a \o b)[i] = IF i < p THEN s[i] ELSE s[i + 1]
  <2> HIDE DEF a, b
  <2>1. CASE i < p
    <3>1. (a \o b)[i] = a[i] /\ i \in 1 .. p - 1
      BY <1>1, <1>2, <1>5, <1>6, <2>1
    <3> QED BY <1>2, <2>1, <3>1
  <2>2. CASE ~(i < p)
    <3>1. p \in Nat /\ Len(s) \in Nat /\ p <= Len(s)
      BY <1>1
    <3>2. i \in Nat /\ i <= Len(s) - 1 /\ p <= i
      BY <2>2, <3>1
    <3>3. i - (p - 1) \in 1 .. Len(s) - p /\ p + (i - (p - 1)) = i + 1
      BY <3>1, <3>2
    <3>4. i \in 1 .. Len(a) + Len(b) /\ ~(i <= Len(a)) /\ Len(a) = p - 1
      BY <1>2, <1>6, <3>1, <3>2
    <3>5. (a \o b)[i] = b[i - (p - 1)]
      BY <1>5, <3>4
    <3> QED BY <1>3, <2>2, <3>3, <3>5
  <2> QED BY <2>1, <2>2
<1> HIDE DEF a, b
<1> QED
  BY <1>4, <1>5, <1>6, <1>7

LEMMA MaxIs ==
  ASSUME NEW T, T \subseteq Nat, T # {}, NEW n \in Nat, \A x \in T : x <= n
  PROVE  Max(T) \in T /\ \A x \in T : x <= Max(T)
<1> DEFINE U == {n - x : x \in T}
<1>1. U \subseteq Nat /\ U # {}
  <2>1. \A x \in T : x \in Nat /\ n - x \in Nat
    OBVIOUS
  <2>2. PICK x : x \in T
    OBVIOUS
  <2>3. n - x \in U
    BY <2>2
  <2> QED BY <2>1, <2>3
<1>2. PICK u \in U : \A v \in U : u <= v
  BY <1>1, LeastNumber
<1>3. PICK m \in T : u = n - m
  OBVIOUS
<1>4. \A x \in T : m >= x
  <2> SUFFICES ASSUME NEW x \in T PROVE m >= x
    OBVIOUS
  <2>1. n - m <= n - x
    BY <1>2, <1>3
  <2>2. m \in Nat /\ x \in Nat
    OBVIOUS
  <2> HIDE DEF U
  <2> QED BY <2>1, <2>2
<1>5. Max(T) \in T /\ \A x \in T : Max(T) >= x
  BY <1>4 DEF Max
<1>6. \A x \in T : x \in Nat
  OBVIOUS
<1> QED
  BY <1>5, <1>6

(* The place that Inserted finds.                                           *)
LEMMA PlaceIs ==
  ASSUME Priorities, NEW s \in Seq(Job), NEW j \in Job
  PROVE  \E p \in 1 .. Len(s) + 1 :
           /\ Inserted(s, j) = InsertAt(s, p, j)
           /\ p > 1 => InTurn(s[p - 1], j)
           /\ \A i \in 1 .. Len(s) : i >= p => InTurn(j, s[i])
<1> DEFINE stay == {i \in 1 .. Len(s) : ~Less(j, s[i])}
           p == IF stay = {} THEN 1 ELSE Max(stay) + 1
<1>1. Len(s) \in Nat /\ \A i \in 1 .. Len(s) : s[i] \in Job
  BY ElementOfSeq
<1>2. Inserted(s, j) = InsertAt(s, p, j)
  BY DEF Inserted
<1>3. CASE stay = {}
  <2>1. \A i \in 1 .. Len(s) : InTurn(j, s[i])
    BY <1>1, <1>3, LessIsTurn
  <2>2. p = 1
    BY <1>3
  <2> HIDE DEF p, stay
  <2> QED BY <1>1, <1>2, <2>1, <2>2
<1>4. CASE stay # {}
  <2> DEFINE m == Max(stay)
  <2>1. m \in stay /\ \A i \in stay : i <= m
    <3>1. stay \subseteq Nat /\ \A i \in stay : i <= Len(s)
      BY <1>1
    <3> HIDE DEF stay
    <3> QED BY <1>1, <1>4, <3>1, MaxIs
  <2>2. m \in 1 .. Len(s) /\ ~Less(j, s[m]) /\ p = m + 1
    BY <1>4, <2>1
  <2> HIDE DEF m
  <2>3. InTurn(s[m], j)
    BY <1>1, <2>2, LessIsTurn
  <2>4. \A i \in 1 .. Len(s) : i >= m + 1 => InTurn(j, s[i])
    <3> SUFFICES ASSUME NEW i \in 1 .. Len(s), i >= m + 1 PROVE InTurn(j, s[i])
      OBVIOUS
    <3>1. ~(i <= m)
      BY <1>1, <2>2
    <3>2. Less(j, s[i])
      BY <2>1, <3>1
    <3> QED BY <1>1, <3>2, LessIsTurn
  <2>5. p \in 1 .. Len(s) + 1 /\ p - 1 = m
    BY <1>1, <2>2, SMTT(60)
  <2> HIDE DEF p, stay
  <2> QED BY <1>1, <1>2, <2>2, <2>3, <2>4, <2>5
<1> QED
  BY <1>3, <1>4

Distinct(s) == \A i, k \in 1 .. Len(s) : s[i] = s[k] => i = k

(* A round of the sort keeps what is sorted in order, and adds the one job. *)
LEMMA InsertedIs ==
  ASSUME Priorities, NEW s \in Seq(Job), NEW j \in Job, ListInOrder(s)
  PROVE  /\ Inserted(s, j) \in Seq(Job)
         /\ Len(Inserted(s, j)) = Len(s) + 1
         /\ ListInOrder(Inserted(s, j))
         /\ ToSet(Inserted(s, j)) = ToSet(s) \cup {j}
         /\ Distinct(s) /\ j \notin ToSet(s) => Distinct(Inserted(s, j))
<1>1. PICK p \in 1 .. Len(s) + 1 :
        /\ Inserted(s, j) = InsertAt(s, p, j)
        /\ p > 1 => InTurn(s[p - 1], j)
        /\ \A i \in 1 .. Len(s) : i >= p => InTurn(j, s[i])
  BY PlaceIs
<1> DEFINE t == Inserted(s, j)
           n == Len(s)
<1>2. /\ t \in Seq(Job) /\ Len(t) = n + 1
      /\ \A i \in 1 .. n + 1 : t[i] = IF i < p THEN s[i] ELSE IF i = p THEN j ELSE s[i - 1]
  <2>1. /\ InsertAt(s, p, j) \in Seq(Job)
        /\ Len(InsertAt(s, p, j)) = Len(s) + 1
        /\ \A i \in 1 .. Len(s) + 1 :
              InsertAt(s, p, j)[i] = IF i < p THEN s[i] ELSE IF i = p THEN j ELSE s[i - 1]
    BY InsertIs
  <2> QED BY <1>1, <2>1, Zenon
<1>3. n \in Nat /\ p \in 1 .. n + 1 /\ \A i \in 1 .. n : s[i] \in Job
  BY ElementOfSeq
<1>4. \A i \in 1 .. n : i < p => InTurn(s[i], j)
  <2> SUFFICES ASSUME NEW i \in 1 .. n, i < p PROVE InTurn(s[i], j)
    OBVIOUS
  <2>1. p > 1 /\ p - 1 \in 1 .. n /\ (i = p - 1 \/ i < p - 1)
    BY <1>3
  <2>2. CASE i = p - 1
    BY <1>1, <2>1, <2>2
  <2>3. CASE i < p - 1
    <3>1. InTurn(s[i], s[p - 1])
      BY <2>1, <2>3 DEF ListInOrder
    <3> HIDE DEF n
    <3> QED BY <1>1, <1>3, <2>1, <3>1, TurnsFollow
  <2> QED BY <2>1, <2>2, <2>3
<1>5. ASSUME NEW i \in 1 .. n + 1, NEW k \in 1 .. n + 1, i < k PROVE InTurn(t[i], t[k])
  <2> HIDE DEF t
  <2>1. CASE k < p
    <3>1. t[i] = s[i] /\ t[k] = s[k] /\ i \in 1 .. n /\ k \in 1 .. n
      BY <1>2, <1>3, <1>5, <2>1, SMTT(60)
    <3> QED BY <1>5, <3>1 DEF ListInOrder
  <2>2. CASE k = p
    <3>1. t[i] = s[i] /\ t[k] = j /\ i \in 1 .. n /\ i < p
      BY <1>2, <1>3, <1>5, <2>2
    <3> QED BY <1>4, <3>1
  <2>3. CASE k > p /\ i < p
    <3>1. t[i] = s[i] /\ t[k] = s[k - 1] /\ i \in 1 .. n /\ k - 1 \in 1 .. n /\ i < k - 1
      BY <1>2, <1>3, <1>5, <2>3
    <3> QED BY <3>1 DEF ListInOrder
  <2>4. CASE k > p /\ i = p
    <3>1. t[i] = j /\ t[k] = s[k - 1] /\ k - 1 \in 1 .. n /\ k - 1 >= p
      BY <1>2, <1>3, <1>5, <2>4
    <3> QED BY <1>1, <3>1
  <2>5. CASE i > p
    <3>1. t[i] = s[i - 1] /\ t[k] = s[k - 1] /\ i - 1 \in 1 .. n /\ k - 1 \in 1 .. n /\ i - 1 < k - 1
      BY <1>2, <1>3, <1>5, <2>5
    <3> QED BY <3>1 DEF ListInOrder
  <2> QED BY <1>3, <1>5, <2>1, <2>2, <2>3, <2>4, <2>5
<1>6. ListInOrder(t)
  <2> HIDE DEF t, n
  <2> QED BY <1>2, <1>5 DEF ListInOrder
<1>7. ToSet(t) = ToSet(s) \cup {j}
  <2>1. DOMAIN t = 1 .. n + 1 /\ DOMAIN s = 1 .. n
    <3> HIDE DEF t
    <3> QED BY <1>2, LenProperties
  <2> HIDE DEF t
  <2>2. \A i \in 1 .. n + 1 : t[i] = j \/ \E k \in 1 .. n : t[i] = s[k]
    <3> SUFFICES ASSUME NEW i \in 1 .. n + 1, t[i] # j PROVE \E k \in 1 .. n : t[i] = s[k]
      OBVIOUS
    <3>1. CASE i < p
      <4>1. i \in 1 .. n /\ t[i] = s[i]
        BY <1>2, <1>3, <3>1
      <4> QED BY <4>1
    <3>2. CASE i > p
      <4>1. i - 1 \in 1 .. n /\ t[i] = s[i - 1]
        BY <1>2, <1>3, <3>2
      <4> QED BY <4>1
    <3> QED BY <1>2, <1>3, <3>1, <3>2
  <2>3. \A k \in 1 .. n : \E i \in 1 .. n + 1 : t[i] = s[k]
    <3> SUFFICES ASSUME NEW k \in 1 .. n PROVE \E i \in 1 .. n + 1 : t[i] = s[k]
      OBVIOUS
    <3>1. CASE k < p
      <4>1. k \in 1 .. n + 1 /\ t[k] = s[k]
        BY <1>2, <1>3, <3>1, SMTT(60)
      <4> QED BY <4>1
    <3>2. CASE k >= p
      <4>1. k + 1 \in 1 .. n + 1 /\ ~(k + 1 < p) /\ k + 1 # p /\ (k + 1) - 1 = k
        BY <1>3, <3>2
      <4> QED BY <1>2, <4>1
    <3> QED BY <1>3, <3>1, <3>2
  <2>4. p \in 1 .. n + 1 /\ t[p] = j
    BY <1>2, <1>3
  <2> HIDE DEF n
  <2>5. ASSUME NEW x PROVE x \in ToSet(t) <=> x \in ToSet(s) \/ x = j
    <3>1. x \in ToSet(t) <=> \E i \in 1 .. n + 1 : x = t[i]
      BY <2>1 DEF ToSet
    <3>2. x \in ToSet(s) <=> \E i \in 1 .. n : x = s[i]
      BY <2>1 DEF ToSet
    <3> QED BY <2>2, <2>3, <2>4, <3>1, <3>2
  <2> QED BY <2>5
<1>8. ASSUME Distinct(s), j \notin ToSet(s) PROVE Distinct(t)
  <2> HIDE DEF t
  <2>1. \A i \in 1 .. n : s[i] # j
    BY <1>8, LenProperties DEF ToSet
  <2>2. ASSUME NEW i \in 1 .. n + 1, NEW k \in 1 .. n + 1, i < k PROVE t[i] # t[k]
    <3>1. CASE k < p
      <4>1. t[i] = s[i] /\ t[k] = s[k] /\ i \in 1 .. n /\ k \in 1 .. n /\ i # k
        BY <1>2, <1>3, <2>2, <3>1, SMTT(60)
      <4> QED BY <1>8, <4>1 DEF Distinct
    <3>2. CASE k = p
      <4>1. t[i] = s[i] /\ t[k] = j /\ i \in 1 .. n
        BY <1>2, <1>3, <2>2, <3>2
      <4> QED BY <2>1, <4>1
    <3>3. CASE k > p /\ i < p
      <4>1. t[i] = s[i] /\ t[k] = s[k - 1] /\ i \in 1 .. n /\ k - 1 \in 1 .. n /\ i # k - 1
        BY <1>2, <1>3, <2>2, <3>3
      <4> QED BY <1>8, <4>1 DEF Distinct
    <3>4. CASE k > p /\ i = p
      <4>1. t[i] = j /\ t[k] = s[k - 1] /\ k - 1 \in 1 .. n
        BY <1>2, <1>3, <2>2, <3>4
      <4> QED BY <2>1, <4>1
    <3>5. CASE i > p
      <4>1. t[i] = s[i - 1] /\ t[k] = s[k - 1] /\ i - 1 \in 1 .. n /\ k - 1 \in 1 .. n /\ i - 1 # k - 1
        BY <1>2, <1>3, <2>2, <3>5
      <4> QED BY <1>8, <4>1 DEF Distinct
    <3> QED BY <1>3, <2>2, <3>1, <3>2, <3>3, <3>4, <3>5
  <2>3. \A i, k \in 1 .. n + 1 : i = k \/ i < k \/ k < i
    BY <1>3
  <2> QED BY <1>2, <2>2, <2>3 DEF Distinct
<1> QED
  BY <1>2, <1>6, <1>7, <1>8

(* The equation that defines the loop of Sorted, for the first n jobs.      *)
Rounds(list, n, f) ==
  [i \in 0 .. n |-> IF i = 0 THEN <<>> ELSE Inserted(f[i - 1], list[i])]

SortLoop(list, n, f) == f = Rounds(list, n, f)

LEMMA SortLoopExists ==
  ASSUME NEW list, NEW m \in Nat
  PROVE  \E f : SortLoop(list, m, f)
<1> DEFINE T == {n \in Nat : ~\E f : SortLoop(list, n, f)}
<1>1. SUFFICES ASSUME T # {} PROVE FALSE
  OBVIOUS
<1>2. PICK n \in T : \A k \in T : n <= k
  <2>1. T \subseteq Nat
    OBVIOUS
  <2> HIDE DEF T
  <2> QED BY <1>1, <2>1, LeastNumber
<1>3. CASE n = 0
  <2> DEFINE f == [i \in 0 .. 0 |-> <<>>]
  <2>1. f = Rounds(list, 0, f)
    <3>1. \A i \in 0 .. 0 : i = 0
      OBVIOUS
    <3> QED BY <3>1 DEF Rounds
  <2>2. SortLoop(list, n, f)
    BY <1>3, <2>1 DEF SortLoop
  <2> QED BY <2>2
<1>4. CASE n # 0
  <2>1. n - 1 \in Nat /\ ~(n <= n - 1)
    BY <1>4
  <2>2. PICK g : SortLoop(list, n - 1, g)
    BY <1>2, <2>1
  <2> DEFINE f == [i \in 0 .. n |-> IF i = n THEN Inserted(g[n - 1], list[n]) ELSE g[i]]
  <2>3. ASSUME NEW i \in 0 .. n PROVE f[i] = Rounds(list, n, f)[i]
    <3>1. CASE i = 0
      <4>1. f[i] = g[0] /\ 0 \in 0 .. n - 1
        BY <1>4, <2>1, <3>1
      <4>2. Rounds(list, n - 1, g)[0] = <<>>
        BY <4>1 DEF Rounds
      <4>3. g[0] = <<>>
        BY <2>2, <4>2 DEF SortLoop
      <4>4. Rounds(list, n, f)[i] = <<>>
        BY <3>1 DEF Rounds
      <4> QED BY <4>1, <4>3, <4>4, Zenon
    <3>2. CASE i # 0 /\ i # n
      <4>1. i \in 0 .. n - 1 /\ i - 1 \in 0 .. n /\ i - 1 # n
        BY <2>1, <3>2
      <4>2. f[i] = g[i] /\ f[i - 1] = g[i - 1]
        BY <3>2, <4>1
      <4>3. Rounds(list, n - 1, g)[i] = Inserted(g[i - 1], list[i])
        BY <3>2, <4>1 DEF Rounds
      <4>4. g[i] = Inserted(g[i - 1], list[i])
        BY <2>2, <4>3 DEF SortLoop
      <4>5. Rounds(list, n, f)[i] = Inserted(f[i - 1], list[i])
        BY <3>2 DEF Rounds
      <4> HIDE DEF f
      <4> QED BY <4>2, <4>4, <4>5
    <3>3. CASE i = n
      <4>1. n - 1 \in 0 .. n /\ n - 1 # n
        BY <2>1
      <4>2. f[n] = Inserted(g[n - 1], list[n]) /\ f[n - 1] = g[n - 1]
        BY <3>3, <4>1
      <4>3. Rounds(list, n, f)[n] = Inserted(f[n - 1], list[n])
        BY <1>4, <3>3 DEF Rounds
      <4> HIDE DEF f
      <4> QED BY <3>3, <4>2, <4>3
    <3> QED BY <3>1, <3>2, <3>3
  <2>4. f = Rounds(list, n, f)
    <3>1. f = [i \in 0 .. n |-> f[i]]
      OBVIOUS
    <3>2. Rounds(list, n, f) = [i \in 0 .. n |-> Rounds(list, n, f)[i]]
      BY DEF Rounds
    <3> HIDE DEF f
    <3> QED BY <2>3, <3>1, <3>2
  <2>5. SortLoop(list, n, f)
    BY <2>4 DEF SortLoop
  <2> QED BY <2>5
<1> QED
  BY <1>3, <1>4

(* What the rounds up to n have made.                                       *)
Made(list, n, s) ==
  /\ s \in Seq(Job) /\ Len(s) = n
  /\ ListInOrder(s) /\ Distinct(s)
  /\ ToSet(s) = {list[i] : i \in 1 .. n}

LEMMA RoundsMake ==
  ASSUME Priorities, NEW list \in Seq(Job), Distinct(list),
         NEW f, SortLoop(list, Len(list), f), NEW m \in 0 .. Len(list)
  PROVE  Made(list, m, f[m])
<1> DEFINE T == {n \in 0 .. Len(list) : ~Made(list, n, f[n])}
<1>1. SUFFICES ASSUME T # {} PROVE FALSE
  OBVIOUS
<1>2. Len(list) \in Nat /\ \A i \in 1 .. Len(list) : list[i] \in Job
  BY ElementOfSeq
<1>3. PICK n \in T : \A k \in T : n <= k
  <2>1. T \subseteq Nat
    BY <1>2
  <2> HIDE DEF T
  <2> QED BY <1>1, <2>1, LeastNumber
<1>4. n \in 0 .. Len(list) /\ n \in Nat /\ ~Made(list, n, f[n])
  BY <1>2
<1>5. f[n] = Rounds(list, Len(list), f)[n]
  BY DEF SortLoop
<1>6. CASE n = 0
  <2>1. f[n] = <<>>
    BY <1>4, <1>5, <1>6 DEF Rounds
  <2>2. Made(list, 0, <<>>)
    <3>1. ListInOrder(<<>>) /\ Distinct(<<>>) /\ <<>> \in Seq(Job) /\ Len(<<>>) = 0
      BY DEF ListInOrder, Distinct
    <3>2. ToSet(<<>>) = {} /\ {list[i] : i \in 1 .. 0} = {}
      BY DEF ToSet
    <3> QED BY <3>1, <3>2 DEF Made
  <2> QED BY <1>4, <1>6, <2>1, <2>2
<1>7. CASE n # 0
  <2> DEFINE s == f[n - 1]
             j == list[n]
  <2>1. n - 1 \in 0 .. Len(list) /\ ~(n <= n - 1) /\ n \in 1 .. Len(list)
    BY <1>2, <1>4, <1>7
  <2>2. Made(list, n - 1, s)
    BY <1>3, <2>1
  <2>3. f[n] = Inserted(s, j) /\ j \in Job
    BY <1>2, <1>5, <1>7, <2>1 DEF Rounds
  <2>4. j \notin ToSet(s)
    <3>1. \A i \in 1 .. n - 1 : list[i] # list[n]
      <4>1. \A i \in 1 .. n - 1 : i \in 1 .. Len(list) /\ i # n
        BY <1>2, <2>1
      <4> QED BY <2>1, <4>1 DEF Distinct
    <3> HIDE DEF s
    <3> QED BY <2>2, <3>1 DEF Made
  <2> HIDE DEF s, j
  <2>5. /\ f[n] \in Seq(Job) /\ Len(f[n]) = Len(s) + 1 /\ ListInOrder(f[n]) /\ Distinct(f[n])
        /\ ToSet(f[n]) = ToSet(s) \cup {j}
    BY <2>2, <2>3, <2>4, InsertedIs DEF Made
  <2>6. ToSet(s) \cup {j} = {list[i] : i \in 1 .. n}
    <3>1. ToSet(s) = {list[i] : i \in 1 .. n - 1}
      BY <2>2 DEF Made
    <3>2. 1 .. n = 1 .. n - 1 \cup {n}
      BY <1>4, <1>7
    <3> QED BY <3>1, <3>2 DEF j
  <2>7. Len(f[n]) = n
    <3>1. Len(s) = n - 1
      BY <2>2 DEF Made
    <3> QED BY <1>4, <2>5, <3>1
  <2>8. Made(list, n, f[n])
    BY <2>5, <2>6, <2>7 DEF Made
  <2> QED BY <1>4, <2>8
<1> QED
  BY <1>6, <1>7

LEMMA SortedIs ==
  ASSUME Priorities, NEW list \in Seq(Job), Distinct(list)
  PROVE  /\ Sorted(list) \in Seq(Job) /\ ListInOrder(Sorted(list)) /\ Distinct(Sorted(list))
         /\ ToSet(Sorted(list)) = ToSet(list)
<1> DEFINE f == CHOOSE f : SortLoop(list, Len(list), f)
<1>1. SortLoop(list, Len(list), f)
  <2>1. \E g : SortLoop(list, Len(list), g)
    BY LenProperties, SortLoopExists
  <2> QED BY <2>1
<1>2. Sorted(list) = f[Len(list)]
  BY DEF Sorted, SortLoop, Rounds
<1>3. Made(list, Len(list), f[Len(list)])
  <2>1. Len(list) \in 0 .. Len(list)
    BY LenProperties
  <2> HIDE DEF f
  <2> QED BY <1>1, <2>1, RoundsMake
<1>4. ToSet(list) = {list[i] : i \in 1 .. Len(list)}
  BY LenProperties DEF ToSet
<1> HIDE DEF f
<1> QED
  BY <1>2, <1>3, <1>4 DEF Made

LEMMA RemovedIs ==
  ASSUME NEW s \in Seq(Job), NEW p \in 1 .. Len(s), Distinct(s), ListInOrder(s)
  PROVE  /\ RemoveAt(s, p) \in Seq(Job) /\ Len(RemoveAt(s, p)) = Len(s) - 1
         /\ Distinct(RemoveAt(s, p)) /\ ListInOrder(RemoveAt(s, p))
         /\ ToSet(RemoveAt(s, p)) = ToSet(s) \ {s[p]}
<1> DEFINE t == RemoveAt(s, p)
           n == Len(s)
           from(i) == IF i < p THEN i ELSE i + 1
<1>1. n \in Nat /\ p \in 1 .. n
  BY LenProperties
<1>2. /\ t \in Seq(Job) /\ Len(t) = n - 1
      /\ \A i \in 1 .. n - 1 : t[i] = IF i < p THEN s[i] ELSE s[i + 1]
  BY RemoveIs
<1>3. \A i \in 1 .. n - 1 : from(i) \in 1 .. n /\ from(i) # p
  BY <1>1
<1>4. \A i \in 1 .. n - 1 : t[i] = s[from(i)]
  <2> HIDE DEF t
  <2> QED BY <1>2
<1>5. \A i, k \in 1 .. n - 1 : (i < k => from(i) < from(k)) /\ (from(i) = from(k) => i = k)
  BY <1>1
<1>6. \A k \in 1 .. n : k # p => \E i \in 1 .. n - 1 : from(i) = k
  <2> SUFFICES ASSUME NEW k \in 1 .. n, k # p PROVE \E i \in 1 .. n - 1 : from(i) = k
    OBVIOUS
  <2>1. CASE k < p
    <3>1. k \in 1 .. n - 1 /\ from(k) = k
      BY <1>1, <2>1
    <3> QED BY <3>1
  <2>2. CASE k > p
    <3>1. k - 1 \in 1 .. n - 1 /\ ~(k - 1 < p) /\ (k - 1) + 1 = k
      BY <1>1, <2>2
    <3>2. from(k - 1) = k
      BY <3>1
    <3> QED BY <3>1, <3>2
  <2> QED BY <1>1, <2>1, <2>2
<1> HIDE DEF from
<1>7. ListInOrder(t)
  <2> SUFFICES ASSUME NEW i \in 1 .. n - 1, NEW k \in 1 .. n - 1, i < k PROVE InTurn(t[i], t[k])
    <3> HIDE DEF t
    <3> QED BY <1>2 DEF ListInOrder
  <2>1. from(i) < from(k) /\ from(i) \in 1 .. n /\ from(k) \in 1 .. n
    BY <1>3, <1>5
  <2>2. InTurn(s[from(i)], s[from(k)])
    BY <2>1 DEF ListInOrder
  <2> HIDE DEF t
  <2> QED BY <1>4, <2>2
<1>8. Distinct(t)
  <2> HIDE DEF t
  <2>1. ASSUME NEW i \in 1 .. n - 1, NEW k \in 1 .. n - 1, t[i] = t[k] PROVE i = k
    <3>1. s[from(i)] = s[from(k)] /\ from(i) \in 1 .. n /\ from(k) \in 1 .. n
      BY <1>3, <1>4, <2>1
    <3>2. from(i) = from(k)
      BY <3>1 DEF Distinct
    <3> QED BY <1>5, <3>2
  <2> QED BY <1>2, <2>1 DEF Distinct
<1>9. ToSet(t) = ToSet(s) \ {s[p]}
  <2>1. DOMAIN t = 1 .. n - 1 /\ DOMAIN s = 1 .. n
    <3> HIDE DEF t
    <3> QED BY <1>2, LenProperties
  <2> HIDE DEF t
  <2>2. ASSUME NEW x PROVE x \in ToSet(t) <=> x \in ToSet(s) /\ x # s[p]
    <3>1. x \in ToSet(t) <=> \E i \in 1 .. n - 1 : x = s[from(i)]
      BY <1>4, <2>1 DEF ToSet
    <3>2. x \in ToSet(s) <=> \E i \in 1 .. n : x = s[i]
      BY <2>1 DEF ToSet
    <3>3. \A i \in 1 .. n : s[i] = s[p] => i = p
      BY <1>1 DEF Distinct
    <3> QED BY <1>3, <1>6, <3>1, <3>2, <3>3
  <2> QED BY <2>2
<1> QED
  BY <1>2, <1>7, <1>8, <1>9

LEMMA AppendedIs ==
  ASSUME NEW s \in Seq(Job), NEW j \in Job, Distinct(s), j \notin ToSet(s)
  PROVE  /\ Append(s, j) \in Seq(Job) /\ Distinct(Append(s, j))
         /\ ToSet(Append(s, j)) = ToSet(s) \cup {j}
<1> DEFINE t == Append(s, j)
           n == Len(s)
<1>1. n \in Nat /\ DOMAIN s = 1 .. n
  BY LenProperties
<1>2. /\ t \in Seq(Job) /\ Len(t) = n + 1 /\ t[n + 1] = j
      /\ \A i \in 1 .. n : t[i] = s[i]
  BY AppendProperties
<1>3. DOMAIN t = 1 .. n + 1
  <2> HIDE DEF t
  <2> QED BY <1>2, LenProperties
<1>4. \A i \in 1 .. n + 1 : i \in 1 .. n \/ i = n + 1
  BY <1>1
<1>5. \A i \in 1 .. n : s[i] # j /\ i \in 1 .. n + 1
  BY <1>1 DEF ToSet
<1>6. n + 1 \in 1 .. n + 1
  BY <1>1
<1> HIDE DEF t, n
<1>7. Distinct(t)
  <2>1. ASSUME NEW i \in 1 .. n + 1, NEW k \in 1 .. n + 1, t[i] = t[k] PROVE i = k
    <3>1. CASE i \in 1 .. n /\ k \in 1 .. n
      BY <1>2, <2>1, <3>1 DEF Distinct, n
    <3>2. CASE i = n + 1 \/ k = n + 1
      BY <1>2, <1>4, <1>5, <2>1, <3>2
    <3> QED BY <1>4, <3>1, <3>2
  <2> QED BY <1>2, <2>1 DEF Distinct
<1>8. ASSUME NEW x PROVE x \in ToSet(t) <=> x \in ToSet(s) \/ x = j
  <2>1. x \in ToSet(t) <=> \E i \in 1 .. n + 1 : x = t[i]
    BY <1>3 DEF ToSet
  <2>2. x \in ToSet(s) <=> \E i \in 1 .. n : x = s[i]
    BY <1>1 DEF ToSet
  <2> QED BY <1>2, <1>4, <1>5, <1>6, <2>1, <2>2
<1>9. ToSet(t) = ToSet(s) \cup {j}
  BY <1>8
<1> QED
  BY <1>2, <1>7, <1>9 DEF t

(* The scan has passed only jobs that are delayed and were not ready.       *)
Scanned ==
  lock # None =>
    /\ ready \subseteq Queued
    /\ \A i \in 1 .. next - 1 : jobs[i] \notin ready /\ jobs[i] \in Delayed

QueueInv == QueueTypeOK /\ ListInOrder(jobs) /\ Scanned

LEMMA QueueIs ==
  ASSUME QueueInv
  PROVE  /\ Priorities /\ jobs \in Seq(Job) /\ Len(jobs) \in Nat /\ Distinct(jobs)
         /\ DOMAIN jobs = 1 .. Len(jobs) /\ \A i \in 1 .. Len(jobs) : jobs[i] \in Job
         /\ lock # None => next \in 1 .. Len(jobs)
<1>1. jobs \in Seq(Job) /\ IsInjective(jobs) /\ Priorities
  BY DEF QueueInv, QueueTypeOK, Priorities
<1>2. Len(jobs) \in Nat /\ DOMAIN jobs = 1 .. Len(jobs) /\ \A i \in 1 .. Len(jobs) : jobs[i] \in Job
  BY <1>1, LenProperties, ElementOfSeq
<1>3. Distinct(jobs)
  BY <1>1, <1>2 DEF IsInjective, Distinct
<1>4. lock # None => next \in 1 .. Len(jobs)
  BY <1>2 DEF QueueInv, QueueTypeOK
<1> QED
  BY <1>1, <1>2, <1>3, <1>4

LEMMA QueueInitInv == QueueInit => QueueInv
<1> SUFFICES ASSUME QueueInit PROVE QueueInv
  OBVIOUS
<1>1. jobs = <<>> /\ lock = None /\ next = 0 /\ Len(jobs) = 0 /\ DOMAIN jobs = {}
  BY DEF QueueInit
<1>2. QueueTypeOK
  BY <1>1 DEF QueueInit, QueueTypeOK, IsInjective
<1> QED
  BY <1>1, <1>2 DEF QueueInv, ListInOrder, Scanned

(* The list is another one, while nobody scans it.                          *)
LEMMA ListKeeps ==
  ASSUME QueueInv, jobs' \in Seq(Job), Distinct(jobs'), ListInOrder(jobs'), lock' = None, next' = 0,
         taken' \in Job \cup {"none"}, UNCHANGED <<priority, due, ready>>
  PROVE  QueueInv'
<1>1. QueueTypeOK
  BY DEF QueueInv
<1>2. Len(jobs') \in Nat /\ DOMAIN jobs' = 1 .. Len(jobs')
  BY LenProperties
<1>3. IsInjective(jobs')
  BY <1>2 DEF IsInjective, Distinct
<1>4. QueueTypeOK'
  BY <1>1, <1>2, <1>3 DEF QueueTypeOK, IsInjective
<1>5. ListInOrder(jobs)'
  BY SMTT(60) DEF ListInOrder, InTurn, Weight, Known
<1> QED
  BY <1>4, <1>5 DEF QueueInv, Scanned

LEMMA PushKeeps == ASSUME QueueInv, NEW j \in Job, Push(j) PROVE QueueInv' /\ Queued' = Queued \cup {j}
<1>1. /\ lock = None /\ j \notin ToSet(jobs) /\ jobs' = Sorted(Append(jobs, j))
      /\ UNCHANGED <<priority, lock, next, due, taken, ready>>
  BY DEF Push, Queued
<1>2. /\ Append(jobs, j) \in Seq(Job) /\ Distinct(Append(jobs, j))
      /\ ToSet(Append(jobs, j)) = ToSet(jobs) \cup {j}
  BY <1>1, QueueIs, AppendedIs
<1>3. /\ jobs' \in Seq(Job) /\ ListInOrder(jobs') /\ Distinct(jobs')
      /\ ToSet(jobs') = ToSet(jobs) \cup {j}
  BY <1>1, <1>2, QueueIs, SortedIs
<1>4. next' = 0 /\ lock' = None /\ taken' \in Job \cup {"none"}
  BY <1>1 DEF QueueInv, QueueTypeOK
<1> QED
  BY <1>1, <1>3, <1>4, ListKeeps DEF Queued, ToSet

LEMMA RemoveKeeps ==
  ASSUME QueueInv, NEW p \in 1 .. Len(jobs), jobs' = RemoveAt(jobs, p), lock' = None, next' = 0,
         taken' \in Job \cup {"none"}, UNCHANGED <<priority, due, ready>>
  PROVE  QueueInv' /\ Queued' = Queued \ {jobs[p]}
<1>1. /\ jobs' \in Seq(Job) /\ ListInOrder(jobs') /\ Distinct(jobs')
      /\ ToSet(jobs') = ToSet(jobs) \ {jobs[p]}
  BY QueueIs, RemovedIs DEF QueueInv
<1> QED
  BY <1>1, ListKeeps DEF Queued, ToSet

LEMMA PopBeginKeeps == ASSUME QueueInv, NEW w \in Worker, PopBegin(w) PROVE QueueInv'
<1>1. /\ jobs # <<>> /\ lock' = w /\ next' = 1 /\ ready' = due \cap Queued
      /\ UNCHANGED <<priority, jobs, due, taken>>
  BY DEF PopBegin
<1>2. Len(jobs) \in Nat /\ Len(jobs) # 0
  BY <1>1, QueueIs
<1>3. QueueTypeOK'
  BY <1>1, <1>2 DEF QueueInv, QueueTypeOK, IsInjective
<1>4. ListInOrder(jobs)'
  BY <1>1 DEF QueueInv, ListInOrder, InTurn, Weight, Known
<1>5. Queued' = Queued /\ 1 .. next' - 1 = {}
  BY <1>1 DEF Queued, ToSet
<1>6. Scanned'
  BY <1>1, <1>5 DEF Scanned
<1> QED
  BY <1>3, <1>4, <1>6 DEF QueueInv

LEMMA PopReadyKeeps ==
  ASSUME QueueInv, PopReady
  PROVE  QueueInv' /\ Queued' = Queued \ {jobs[next]} /\ jobs[next] \in Job
<1>1. /\ lock # None /\ jobs' = RemoveAt(jobs, next) /\ lock' = None /\ next' = 0
      /\ taken' = jobs[next] /\ UNCHANGED <<priority, due, ready>>
  BY DEF PopReady
<1>2. next \in 1 .. Len(jobs) /\ jobs[next] \in Job
  BY <1>1, QueueIs
<1> QED
  BY <1>1, <1>2, RemoveKeeps

LEMMA PopPassKeeps == ASSUME QueueInv, PopPass PROVE QueueInv'
<1>1. /\ lock # None /\ jobs[next] \notin due /\ UNCHANGED <<priority, jobs, due, taken, ready>>
      /\ \/ next < Len(jobs) /\ next' = next + 1 /\ UNCHANGED lock
         \/ next' = 0 /\ lock' = None
  BY DEF PopPass
<1>2. next \in 1 .. Len(jobs) /\ Len(jobs) \in Nat /\ jobs[next] \in Job
  BY <1>1, QueueIs
<1>3. QueueTypeOK'
  <2>1. next' \in 0 .. Len(jobs) /\ (next' = 0 <=> lock' = None)
    BY <1>1, <1>2
  <2> QED BY <1>1, <2>1 DEF QueueInv, QueueTypeOK, IsInjective
<1>4. ListInOrder(jobs)'
  BY <1>1 DEF QueueInv, ListInOrder, InTurn, Weight, Known
<1>5. jobs[next] \notin ready /\ jobs[next] \in Delayed
  BY <1>1, <1>2 DEF QueueInv, QueueTypeOK
<1>6. ASSUME next' = next + 1 PROVE Scanned'
  <2>1. \A i \in 1 .. next' - 1 : i \in 1 .. next - 1 \/ i = next
    BY <1>2, <1>6
  <2>2. ready \subseteq Queued /\ \A i \in 1 .. next - 1 : jobs[i] \notin ready /\ jobs[i] \in Delayed
    BY <1>1 DEF QueueInv, Scanned
  <2>3. Queued' = Queued
    BY <1>1 DEF Queued, ToSet
  <2> QED BY <1>1, <1>5, <2>1, <2>2, <2>3 DEF Scanned
<1>7. lock' = None => Scanned'
  BY DEF Scanned
<1> QED
  BY <1>1, <1>3, <1>4, <1>6, <1>7 DEF QueueInv

LEMMA FallDueKeeps == ASSUME QueueInv, NEW j \in Job, FallDue(j) PROVE QueueInv'
<1>1. due' = due \cup {j} /\ UNCHANGED <<priority, jobs, lock, next, taken, ready>>
  BY DEF FallDue
<1>2. QueueTypeOK'
  BY <1>1 DEF QueueInv, QueueTypeOK, IsInjective
<1>3. ListInOrder(jobs)' /\ Scanned'
  BY <1>1 DEF QueueInv, ListInOrder, InTurn, Weight, Known, Scanned, Queued, ToSet
<1> QED
  BY <1>2, <1>3 DEF QueueInv

LEMMA ClearKeeps == ASSUME QueueInv, Clear PROVE QueueInv' /\ Queued' = {}
<1>1. lock' = None /\ next' = 0 /\ jobs' = <<>> /\ UNCHANGED <<priority, due, taken, ready>>
  BY DEF Clear, QueueInv, QueueTypeOK
<1>2. /\ <<>> \in Seq(Job) /\ Distinct(<<>>) /\ ListInOrder(<<>>) /\ ToSet(<<>>) = {}
  BY DEF Distinct, ListInOrder, ToSet
<1>3. taken' \in Job \cup {"none"}
  BY <1>1 DEF QueueInv, QueueTypeOK
<1> QED
  BY <1>1, <1>2, <1>3, ListKeeps DEF Queued, ToSet

LEMMA RemoveJobKeeps ==
  ASSUME QueueInv, NEW j \in Job, RemoveJob(j)
  PROVE  QueueInv' /\ Queued' = Queued \ {j} /\ j \in Queued
<1>1. lock' = None /\ next' = 0 /\ UNCHANGED <<priority, due, taken, ready>>
  BY DEF RemoveJob, QueueInv, QueueTypeOK
<1>2. PICK i \in 1 .. Len(jobs) : jobs[i] = j /\ jobs' = RemoveAt(jobs, i)
  BY QueueIs DEF RemoveJob
<1>3. taken' \in Job \cup {"none"}
  BY <1>1 DEF QueueInv, QueueTypeOK
<1>4. j \in Queued
  BY <1>2, QueueIs DEF Queued, ToSet
<1> QED
  BY <1>1, <1>2, <1>3, <1>4, RemoveKeeps

LEMMA QueueSame == ASSUME QueueInv, UNCHANGED queueVars PROVE QueueInv'
  BY DEF queueVars, QueueInv, QueueTypeOK, IsInjective, ListInOrder, InTurn, Weight, Known, Scanned,
       Queued, ToSet

LEMMA QueueNextKeeps == QueueInv /\ [QueueNext]_queueVars => QueueInv'
<1> SUFFICES ASSUME QueueInv, [QueueNext]_queueVars PROVE QueueInv'
  OBVIOUS
<1>1. ASSUME NEW j \in Job, Push(j) PROVE QueueInv'
  BY <1>1, PushKeeps
<1>2. ASSUME NEW j \in Job, RemoveJob(j) PROVE QueueInv'
  BY <1>2, RemoveJobKeeps
<1>3. ASSUME NEW j \in Job, FallDue(j) PROVE QueueInv'
  BY <1>3, FallDueKeeps
<1>4. ASSUME NEW w \in Worker, PopBegin(w) PROVE QueueInv'
  BY <1>4, PopBeginKeeps
<1>5. CASE PopReady
  BY <1>5, PopReadyKeeps
<1>6. CASE PopPass
  BY <1>6, PopPassKeeps
<1>7. CASE Clear
  BY <1>7, ClearKeeps
<1>8. CASE UNCHANGED queueVars
  BY <1>8, QueueSame
<1> QED
  BY <1>1, <1>2, <1>3, <1>4, <1>5, <1>6, <1>7, <1>8 DEF QueueNext

LEMMA QueueInvariance == QueueSpec => []QueueInv
  BY QueueInitInv, QueueNextKeeps, PTL DEF QueueSpec

(* The list of jobs/queue.go holds no job twice, and the scan of Pop     *)
(* stays within it while it has the lock.                                  *)
THEOREM QueueTypesCorrect == QueueSpec => []QueueTypeOK
<1>1. QueueInv => QueueTypeOK
  BY DEF QueueInv
<1> QED
  BY <1>1, QueueInvariance, PTL

(* What the scan has come to is in turn before all that was ready and all   *)
(* that is not delayed.                                                     *)
LEMMA FirstInTurn ==
  ASSUME QueueInv, lock # None, NEW k \in Queued, k \in ready \/ k \notin Delayed, k # jobs[next]
  PROVE  InTurn(jobs[next], k)
<1>1. next \in 1 .. Len(jobs) /\ DOMAIN jobs = 1 .. Len(jobs) /\ Len(jobs) \in Nat
  BY QueueIs
<1>2. PICK i \in 1 .. Len(jobs) : k = jobs[i]
  BY <1>1 DEF Queued, ToSet
<1>3. ~(i \in 1 .. next - 1)
  BY <1>2 DEF QueueInv, Scanned
<1>4. next < i
  BY <1>1, <1>2, <1>3
<1> QED
  BY <1>1, <1>2, <1>4 DEF QueueInv, ListInOrder

(* Push, Remove and the scan of Pop serve by weight and in the order of    *)
(* creation: no job that was ready when the scan began is heavier, or      *)
(* older at the same known priority, than the one that Pop takes.          *)
THEOREM QueueServesInOrder == QueueSpec => ServedInOrder
<1>1. QueueInv =>
        [\A j \in Job : Popped(j) =>
           \A k \in ready \ {j} :
             /\ Weight(k) <= Weight(j)
             /\ (\A i \in Job : Known(i)) /\ priority[k] = priority[j] =>
                  CreatedAt[j] <= CreatedAt[k]]_queueVars
  <2> SUFFICES ASSUME QueueInv, NEW j \in Job, Popped(j), NEW k \in ready \ {j}
               PROVE  InTurn(j, k)
    BY DEF InTurn
  <2>1. lock # None /\ jobs[next] = j
    BY DEF Popped
  <2>2. k \in Queued
    BY <2>1 DEF QueueInv, Scanned
  <2> QED BY <2>1, <2>2, FirstInTurn
<1> QED
  BY <1>1, QueueInvariance, PTL DEF ServedInOrder

(* The steps of the list are steps of the bag.                              *)
LEMMA WeightsStay == ASSUME priority' = priority PROVE Weights' = Weights
  BY DEF Weights, Weight

(* The sorted list of jobs/queue.go with its lock and its scan           *)
(* implements the bag by which the job system is modelled: each step of    *)
(* the list is a step of the bag or leaves the bag alone.                  *)
THEOREM QueueImplementsBag == QueueSpec => ImplementsBag
<1>1. QueueInit => Bag!BagInit
  <2> SUFFICES ASSUME QueueInit PROVE Bag!BagInit
    OBVIOUS
  <2>1. Priorities
    BY DEF QueueInit, Priorities
  <2>2. Weights \in [Job -> Nat]
    BY <2>1, WeightIs DEF Weights
  <2>3. Queued = {}
    BY DEF QueueInit, Queued, ToSet
  <2> QED BY <2>2, <2>3 DEF QueueInit, Bag!BagInit
<1>2. QueueInv /\ [QueueNext]_queueVars => [Bag!BagNext]_<<Weights, Queued, due, taken>>
  <2> SUFFICES ASSUME QueueInv, [QueueNext]_queueVars
               PROVE  [Bag!BagNext]_<<Weights, Queued, due, taken>>
    OBVIOUS
  <2>1. ASSUME NEW j \in Job, Push(j) PROVE Bag!Put(j)
    <3>1. Queued' = Queued \cup {j} /\ j \notin Queued /\ UNCHANGED <<priority, due, taken>>
      BY <2>1, PushKeeps DEF Push
    <3> QED BY <3>1, WeightsStay DEF Bag!Put
  <2>2. ASSUME NEW j \in Job, RemoveJob(j) PROVE \E gone \in {Queued} \cup {{i} : i \in Queued} : Bag!Drop(gone)
    <3>1. Queued' = Queued \ {j} /\ j \in Queued /\ UNCHANGED <<priority, due, taken>>
      BY <2>2, RemoveJobKeeps DEF RemoveJob
    <3>2. Bag!Drop({j})
      BY <3>1, WeightsStay DEF Bag!Drop
    <3> QED BY <3>1, <3>2
  <2>3. ASSUME NEW j \in Job, FallDue(j) PROVE Bag!FallDue(j)
    <3>1. Queued' = Queued /\ due' = due \cup {j} /\ UNCHANGED <<priority, taken>>
      BY <2>3 DEF FallDue, Queued, ToSet
    <3> QED BY <3>1, WeightsStay DEF Bag!FallDue
  <2>4. ASSUME PopReady PROVE \E j \in Job : Bag!Take(j)
    <3> DEFINE j == jobs[next]
    <3>1. /\ lock # None /\ j \in due /\ taken' = j /\ UNCHANGED <<priority, due>>
          /\ Queued' = Queued \ {j} /\ j \in Job
      BY <2>4, PopReadyKeeps DEF PopReady
    <3>2. j \in Queued
      BY <3>1, QueueIs DEF Queued, ToSet
    <3>3. \A k \in Queued \ Delayed : Weights[k] <= Weights[j]
      <4> SUFFICES ASSUME NEW k \in Queued \ Delayed PROVE Weights[k] <= Weights[j]
        OBVIOUS
      <4>1. k \in Job
        BY QueueIs DEF Queued, ToSet
      <4>2. Weight(k) <= Weight(j)
        <5>1. CASE k = j
          BY <3>1, <5>1, QueueIs, WeightIs
        <5>2. CASE k # j
          BY <3>1, <5>2, FirstInTurn DEF InTurn
        <5> QED BY <5>1, <5>2
      <4> HIDE DEF j
      <4> QED BY <3>1, <4>1, <4>2 DEF Weights
    <3> HIDE DEF j
    <3> QED BY <3>1, <3>2, <3>3, WeightsStay DEF Bag!Take
  <2>5. ASSUME Clear PROVE \E gone \in {Queued} \cup {{i} : i \in Queued} : Bag!Drop(gone)
    <3>1. Queued' = Queued \ Queued /\ UNCHANGED <<priority, due, taken>>
      BY <2>5, ClearKeeps DEF Clear
    <3>2. Bag!Drop(Queued)
      BY <3>1, WeightsStay DEF Bag!Drop
    <3> QED BY <3>2
  <2>6. ASSUME \/ \E w \in Worker : PopBegin(w)
               \/ PopPass
               \/ UNCHANGED queueVars
        PROVE  UNCHANGED <<Weights, Queued, due, taken>>
    <3>1. UNCHANGED <<priority, jobs, due, taken>>
      BY <2>6 DEF PopBegin, PopPass, queueVars
    <3> QED BY <3>1, WeightsStay DEF Queued, ToSet
  <2> QED BY <2>1, <2>2, <2>3, <2>4, <2>5, <2>6 DEF QueueNext, Bag!BagNext
<1> QED
  BY <1>1, <1>2, QueueInvariance, PTL DEF QueueSpec, ImplementsBag, Bag!BagSpec
=============================================================================
