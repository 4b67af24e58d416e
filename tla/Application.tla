----------------------------- MODULE Application -----------------------------
(***************************************************************************)
(* The parts of an application, and of the tool that writes it, that share *)
(* nothing but the process: a behaviour is about one of them, chosen at    *)
(* the start.  Where they meet, the one has the effect of the other as a   *)
(* step of its own: Lifecycle the end of the job manager and of a module,  *)
(* Mailer the shutdown of its module.                                      *)
(***************************************************************************)
EXTENDS Lifecycle, Mailer, MemoryQueue, WorkerPool, JobStore, Seeding, Generators

VARIABLE part

vars == <<part, appVars, mailVars, queueVars, poolVars, storeVars, seedVars, cliVars>>

Part == {"app", "mail", "queue", "pool", "store", "seed", "cli"}

(* Type invariant: of each part in the behaviours that are about it.       *)
TypeOK ==
  CASE part = "app" -> AppTypeOK
    [] part = "mail" -> MailTypeOK
    [] part = "queue" -> QueueTypeOK
    [] part = "pool" -> PoolTypeOK
    [] part = "store" -> StoreTypeOK
    [] part = "seed" -> SeedTypeOK
    [] part = "cli" -> CliTypeOK

(* A part that the behaviour is not about has one of its initial states.   *)
Init ==
  /\ part \in Part
  /\ AppInit
  /\ part # "app" => conf = (CHOOSE e \in Envs : TRUE) /\ given = (CHOOSE a \in Arguments : TRUE)
  /\ MailInit /\ (part # "mail" => transport = "smtp")
  /\ QueueInit /\ (part # "queue" => priority = CHOOSE p \in [Job -> Priority] : TRUE)
  /\ PoolInit /\ StoreInit /\ SeedInit
  /\ CliInit /\ (part # "cli" => files = <<>>)

Next ==
  \/ /\ part = "app" /\ AppNext
     /\ UNCHANGED <<part, mailVars, queueVars, poolVars, storeVars, seedVars, cliVars>>
  \/ /\ part = "mail" /\ MailNext
     /\ UNCHANGED <<part, appVars, queueVars, poolVars, storeVars, seedVars, cliVars>>
  \/ /\ part = "queue" /\ QueueNext
     /\ UNCHANGED <<part, appVars, mailVars, poolVars, storeVars, seedVars, cliVars>>
  \/ /\ part = "pool" /\ PoolNext
     /\ UNCHANGED <<part, appVars, mailVars, queueVars, storeVars, seedVars, cliVars>>
  \/ /\ part = "store" /\ StoreNext
     /\ UNCHANGED <<part, appVars, mailVars, queueVars, poolVars, seedVars, cliVars>>
  \/ /\ part = "seed" /\ SeedNext
     /\ UNCHANGED <<part, appVars, mailVars, queueVars, poolVars, storeVars, cliVars>>
  \/ /\ part = "cli" /\ CliNext
     /\ UNCHANGED <<part, appVars, mailVars, queueVars, poolVars, storeVars, seedVars>>

(* The goroutine of the mail listener is scheduled.                        *)
Spec == Init /\ [][Next]_vars /\ WF_mailVars(ListenForMail)
=============================================================================
