------------------------------ MODULE JobStore ------------------------------
(***************************************************************************)
(* The background_jobs table of jobs/manager.go.  A row is a copy of a     *)
(* job, made while workers and the poller write to the job without a lock: *)
(* by Enqueue after the push, by runPersistence every interval and by      *)
(* Stop, of what is in the queues.  Rows are neither read nor deleted, so  *)
(* that after a crash the table is all there is.                           *)
(*                                                                         *)
(* A copy is the number of edits of the job's fields that it has seen.     *)
(***************************************************************************)
EXTENDS Naturals

CONSTANTS
  StoredJob,
  Caller,      \* goroutines that call Enqueue
  Ticker,      \* runPersistence
  Stopper,     \* the goroutine that calls Stop
  NoJob,
  MaxEdits     \* bound on the edits of a job

ASSUME JobStoreAssumption ==
  /\ MaxEdits \in Nat \ {0} /\ NoJob \notin StoredJob
  /\ Ticker # Stopper /\ {Ticker, Stopper} \cap Caller = {}

VARIABLES
  held_by,   \* who has each job: "app", "queue", "worker" or "dead_letter"
  edits,     \* of each job
  row,       \* the table, a function from the jobs that have a row
  saving,    \* of each goroutine: the jobs it has still to save, and the
             \* one whose fields it has read
  stop,      \* Stop: "no", "saving" or "done"
  queuedAt,  \* history: the edits of each job when it was queued last, or 0
  atStop,    \* history: the same when Stop found it in a queue
  doubtful   \* history: the jobs one of whose saves failed, or came too late

marks == <<queuedAt, atStop, doubtful>>
storeVars == <<held_by, edits, row, saving, stop, marks>>

Goroutine == Caller \cup {Ticker, Stopper}
ToSave(js) == [todo |-> js, job |-> NoJob, copy |-> 0]
Saved(g) == saving[g].todo = {} /\ saving[g].job = NoJob

StoreTypeOK ==
  /\ held_by \in [StoredJob -> {"app", "queue", "worker", "dead_letter"}]
  /\ edits \in [StoredJob -> 1..MaxEdits]
  /\ DOMAIN row \subseteq StoredJob /\ \A j \in DOMAIN row : row[j] \in 1..edits[j]
  /\ saving \in [Goroutine -> [todo : SUBSET StoredJob, job : StoredJob \cup {NoJob},
                               copy : 0..MaxEdits]]
  /\ stop \in {"no", "saving", "done"}
  /\ queuedAt \in [StoredJob -> 0..MaxEdits] /\ atStop \in [StoredJob -> 0..MaxEdits]
  /\ doubtful \subseteq StoredJob

StoreInit ==
  /\ held_by = [j \in StoredJob |-> "app"] /\ edits = [j \in StoredJob |-> 1]
  /\ row = <<>> /\ saving = [g \in Goroutine |-> ToSave({})] /\ stop = "no"
  /\ queuedAt = [j \in StoredJob |-> 0] /\ atStop = queuedAt /\ doubtful = {}

Hand(j, from, to) == held_by[j] = from /\ held_by' = [held_by EXCEPT ![j] = to]
Collect(g, js) == saving' = [saving EXCEPT ![g] = ToSave(js)]
Queues == {j \in StoredJob : held_by[j] \in {"queue", "dead_letter"}}

(* Mutant: the job is pushed, and saved with the others when it is time.   *)
EnqueueUnsaved(g, j) ==
  /\ Saved(g) /\ Hand(j, "app", "queue")
  /\ queuedAt' = [queuedAt EXCEPT ![j] = edits[j]]
  /\ UNCHANGED <<edits, row, saving, stop, atStop, doubtful>>

(* A job that is refused because the queue is full is not saved.  What is  *)
(* to be retried comes back by way of the application.                     *)
EnqueueStored(g, j) ==
  /\ Saved(g) /\ Hand(j, "app", "queue")
  /\ Collect(g, {j}) /\ queuedAt' = [queuedAt EXCEPT ![j] = edits[j]]
  /\ UNCHANGED <<edits, row, stop, atStop, doubtful>>

(* A worker takes the job, and leaves it to nobody, to the dead-letter     *)
(* queue, or to the application that hears of the retry; or ClearQueue     *)
(* drops it.                                                               *)
Handover(j) ==
  /\ \/ Hand(j, "queue", "worker") \/ Hand(j, "worker", "dead_letter")
     \/ \E h \in {"worker", "queue", "dead_letter"} : Hand(j, h, "app")
  /\ UNCHANGED <<edits, row, saving, stop, marks>>

(* By its worker, or by the poller, which may still have it from when it   *)
(* was queued.                                                             *)
Edit(j) ==
  /\ queuedAt[j] > 0 /\ edits[j] < MaxEdits
  /\ edits' = [edits EXCEPT ![j] = @ + 1]
  /\ UNCHANGED <<held_by, row, saving, stop, marks>>

(* The select may choose the ticker once more after the context was        *)
(* cancelled.                                                              *)
runPersistence ==
  /\ Saved(Ticker) /\ Queues # {}
  /\ Collect(Ticker, Queues)
  /\ UNCHANGED <<held_by, edits, row, stop, marks>>

StopSaves ==
  /\ stop = "no" /\ stop' = "saving"
  /\ Collect(Stopper, Queues)
  /\ atStop' = [j \in StoredJob |-> IF j \in Queues THEN edits[j] ELSE 0]
  /\ UNCHANGED <<held_by, edits, row, queuedAt, doubtful>>

StopReturns ==
  /\ stop = "saving" /\ Saved(Stopper) /\ stop' = "done"
  /\ UNCHANGED <<held_by, edits, row, saving, marks>>

(* saveJobToDB: the fields are read, and what was read is written later,   *)
(* or not; an error is logged.                                             *)
ReadFields(g) ==
  /\ saving[g].job = NoJob
  /\ \E j \in saving[g].todo :
       saving' = [saving EXCEPT ![g] = [todo |-> @.todo \ {j}, job |-> j, copy |-> edits[j]]]
  /\ UNCHANGED <<held_by, edits, row, stop, marks>>

saveJobToDB(g) ==
  LET j == saving[g].job
      late == j \in DOMAIN row /\ row[j] > saving[g].copy
  IN  /\ j # NoJob
      /\ \/ /\ row' = [i \in DOMAIN row \cup {j} |-> IF i = j THEN saving[g].copy ELSE row[i]]
            /\ doubtful' = IF late THEN doubtful \cup {j} ELSE doubtful
         \/ UNCHANGED row /\ doubtful' = doubtful \cup {j}
      /\ Collect(g, saving[g].todo)
      /\ UNCHANGED <<held_by, edits, stop, queuedAt, atStop>>

StoreNext ==
  \/ \E g \in Caller, j \in StoredJob : EnqueueStored(g, j)
  \/ \E j \in StoredJob : Handover(j) \/ Edit(j)
  \/ runPersistence \/ StopSaves \/ StopReturns
  \/ \E g \in Goroutine : ReadFields(g) \/ saveJobToDB(g)

StoreSpec == StoreInit /\ [][StoreNext]_storeVars
-----------------------------------------------------------------------------
(* Wherever the process ends: a job that was queued has a row, made since  *)
(* then, as soon as Enqueue has returned; what Stop found in the queues is *)
(* stored as Stop found it, or as it was later.  But not if one of the     *)
(* saves of the job failed, or was overtaken by a newer one that it then   *)
(* overwrote.                                                              *)
QueuedIsStored ==
  \A j \in StoredJob \ doubtful :
    LET stored(since) == j \in DOMAIN row /\ row[j] >= since
        returned == \A g \in Caller : saving[g].job # j /\ j \notin saving[g].todo
    IN  /\ held_by[j] = "queue" /\ returned => stored(queuedAt[j])
        /\ stop = "done" /\ atStop[j] > 0 => stored(atStop[j])
=============================================================================
