------------------------------ MODULE Lifecycle ------------------------------
(***************************************************************************)
(* An application from New to the end of Shutdown: gemquick.go, module.go, *)
(* driver.go and routes.go.  pc is where its main goroutine is; requests,  *)
(* and the saves of jobs, come and go beside it.  "failed" is a New that   *)
(* returned an error, "panicked" a Shutdown that did not return.           *)
(***************************************************************************)
EXTENDS Configuration, Sequences, FiniteSets, Functions

CONSTANTS
  Envs,          \* the environments an application may be started in
  Arguments,     \* the sequences of modules it may pass to New
  Once,          \* the modules whose Shutdown closes a channel: email's
  MaxRequests,   \* bound on the requests in flight
  MaxShutdowns   \* bound on the calls of Shutdown

ASSUME LifecycleAssumption ==
  /\ {MaxRequests, MaxShutdowns} \subseteq Nat \ {0}
  /\ \A a \in Arguments : a \in Seq(Range(a))

VARIABLES
  pc,
  conf,      \* g.Config, or the environment while it has not been loaded
  given,     \* the modules that were passed to New
  held,      \* the fields of the services that are set
  live,      \* what is open or has goroutines; "unlisted" are the workers that
             \* have left the list of the pool and may run on, "orphan" is a
             \* database pool that nobody holds
  manager,   \* JobManager.running
  cache, store, chain, checks,   \* g.Data.Cache, the session store, the
             \* middleware of the router, the health checks
  order,     \* ModuleRegistry.order
  up,        \* the modules that were initialised and not shut down since
  down,      \* the modules that the current Shutdown has called
  errs,      \* history: what any Shutdown collected errors from
  shutdowns, \* calls of Shutdown so far
  expired,   \* the context of a shutdown was over
  shut,      \* history: the modules of Once that have closed their channel
  requests,  \* requests in flight
  writing    \* somebody is saving jobs: the ticker, or an Enqueue

wiring == <<cache, store, chain, checks>>
modules == <<given, order, up>>
ending == <<down, errs, shutdowns, expired, shut>>
users == <<requests, writing>>
appVars == <<pc, conf, held, live, manager, users, wiring, modules, ending>>

Store == {"otel", "db", "redis", "badger"}
Steps == <<"jobs", "modules", "otel", "db", "redis", "badger", "stopped">>

AppTypeOK ==
  /\ pc \in {"boot", "logging", "database", "manager", "persistence", "caches", "router",
             "session", "mail", "register", "initialize", "ready", "failed",
             "serving", "draining", "panicked"} \cup Range(Steps)
  /\ conf \in Envs \cup {Load(e) : e \in Envs}
  /\ held \subseteq Store \cup {"services", "jobs", "persistence"}
  /\ live \subseteq Store \cup {"workers", "listener", "unlisted", "orphan"}
  /\ {manager, expired, writing} \subseteq BOOLEAN
  /\ cache \in {"", "redis", "badger"} /\ store \in {"", "memory", "redis", "sql"}
  /\ chain \subseteq {"otel", "logging", "metrics", "session", "csrf"}
  /\ checks \subseteq Store
  /\ given \in Arguments /\ \E n \in 0..Len(given) : order = SubSeq(given, 1, n)
  /\ up \subseteq Range(order) /\ down \in Seq(Range(order))
  /\ errs \subseteq Range(order) \cup Store \cup {"jobs"}
  /\ shut \subseteq Once /\ shutdowns \in 0..MaxShutdowns /\ requests \in 0..MaxRequests

AppInit ==
  /\ pc = "boot" /\ conf \in Envs /\ given \in Arguments
  /\ held = {} /\ live = {} /\ manager = FALSE /\ requests = 0 /\ writing = FALSE
  /\ cache = "" /\ store = "" /\ chain = {} /\ checks = {}
  /\ order = <<>> /\ up = {} /\ down = <<>> /\ errs = {}
  /\ shutdowns = 0 /\ expired = FALSE /\ shut = {}

Go(from, to) == pc = from /\ pc' = to /\ UNCHANGED <<users, ending>>
Fails(from) ==
  Go(from, "failed") /\ UNCHANGED <<conf, held, live, manager, wiring, modules>>

(* Folders and .env are created, the configuration is loaded and validated. *)
LoadConfig ==
  \/ Fails("boot")
  \/ /\ Go("boot", IF Valid(Load(conf)) THEN "logging" ELSE "failed")
     /\ conf' = Load(conf)
     /\ UNCHANGED <<held, live, manager, wiring, modules>>

(* The health checks are those of what is connected by now.                *)
setupStructuredLogging == checks' = held \cap {"db", "redis"}

(* An error of the exporter is logged, and New goes on.                    *)
setupOpenTelemetry ==
  LET t == Telemetry(conf)
      opened == OTelEnabled(conf) /\ ValidTelemetry(t)
  IN  \/ /\ held' = held \cup {"services"} \cup {o \in {"otel"} : opened}
         /\ live' = live \cup {o \in {"otel"} : opened}
      \/ /\ opened => t.exporter # "none"
         /\ held' = held \cup {"services"} /\ UNCHANGED live

SetupLogging ==
  /\ Go("logging", "database") /\ setupStructuredLogging /\ setupOpenTelemetry
  /\ UNCHANGED <<conf, manager, cache, store, chain, modules>>

Connected(s) == held' = held \cup {s} /\ live' = live \cup {s}

(* OpenDB does not close the pool whose Ping fails.                        *)
OpenDatabase ==
  \/ /\ Go("database", "failed") /\ conf.database # ""
     /\ \/ UNCHANGED live
        \/ Driver(conf) = DSN(conf) /\ live' = live \cup {"orphan"}
     /\ UNCHANGED <<conf, held, manager, wiring, modules>>
  \/ /\ Go("database", "manager")
     /\ IF conf.database = "" THEN UNCHANGED <<held, live>>
        ELSE Driver(conf) = DSN(conf) /\ Connected("db")
     /\ UNCHANGED <<conf, manager, wiring, modules>>

(* The workers of the default queue start here, before Start is called.    *)
NewJobManager ==
  /\ Go("manager", "persistence")
  /\ held' = held \cup {"jobs"} /\ live' = live \cup {"workers"}
  /\ UNCHANGED <<conf, manager, wiring, modules>>

(* An error of the schema leaves the persistence set.                      *)
SetPersistence ==
  LET wanted == conf.persist /\ "db" \in held IN
  /\ \/ Go("persistence", "caches")
     \/ Go("persistence", "failed") /\ wanted
  /\ held' = held \cup {p \in {"persistence"} : wanted}
  /\ UNCHANGED <<conf, live, manager, wiring, modules>>

(* Redis connects when it is first used, badger is opened at once and      *)
(* replaces redis as the cache.                                            *)
ConnectCaches ==
  LET wanted == {c \in {"redis", "badger"} : c \in {conf.cache, conf.session}}
      connect(cs) == held' = held \cup cs /\ live' = live \cup cs
  IN  /\ \/ /\ Go("caches", "router") /\ connect(wanted)
            /\ cache' = IF "badger" \in wanted THEN "badger"
                        ELSE IF "redis" \in wanted THEN "redis" ELSE cache
         \/ /\ Go("caches", "failed") /\ "badger" \in wanted
            /\ connect(wanted \ {"badger"})
            /\ cache' = IF "redis" \in wanted THEN "redis" ELSE cache
      /\ UNCHANGED <<conf, manager, store, chain, checks, modules>>

(* g.HTTP.Session is set by the next step only.                            *)
routes ==
  /\ Go("router", "session")
  /\ chain' = (held \cap {"otel"}) \cup {"logging", "metrics"}
                \cup (IF store # "" THEN {"session", "csrf"} ELSE {})
  /\ UNCHANGED <<conf, held, live, manager, cache, store, checks, modules>>

(* The store that InitSession takes; "database" is none of its cases.      *)
SessionStore(type) ==
  CASE type = "redis" -> "redis"
    [] type \in {"mysql", "mariadb", "postgres", "postgresql"} -> "sql"
    [] OTHER -> "memory"

InitSession ==
  /\ Go("session", "mail")
  /\ store' = SessionStore(conf.session)
  /\ UNCHANGED <<conf, held, live, manager, cache, chain, checks, modules>>

StartMailer ==
  /\ Go("mail", "register")
  /\ live' = live \cup {"listener"}
  /\ UNCHANGED <<conf, held, manager, wiring, modules>>

(* The modules are registered up to the first whose name is taken.         *)
RegisterModules ==
  LET fresh == {n \in 0..Len(given) : \A i, j \in 1..n : i # j => given[i] # given[j]} IN
  \E n \in fresh :
    /\ \A m \in fresh : m <= n
    /\ Go("register", IF n = Len(given) THEN "initialize" ELSE "failed")
    /\ order' = SubSeq(given, 1, n)
    /\ UNCHANGED <<conf, held, live, manager, wiring, given, up>>

InitializeModule ==
  LET n == Cardinality(up) IN
  \/ n < Len(order) /\ Fails("initialize")
  \/ /\ n < Len(order) /\ Go("initialize", "initialize")
     /\ up' = up \cup {order[n + 1]}
     /\ UNCHANGED <<conf, held, live, manager, wiring, given, order>>
  \/ /\ n = Len(order) /\ Go("initialize", "ready")
     /\ UNCHANGED <<conf, held, live, manager, wiring, modules>>

(* ListenAndServe: a manager that was started before is only logged.       *)
ListenAndServe ==
  /\ Go("ready", "serving")
  /\ manager' = TRUE
  /\ UNCHANGED <<conf, held, live, wiring, modules>>

Request ==
  /\ \/ pc = "serving" /\ requests < MaxRequests /\ requests' = requests + 1
     \/ requests > 0 /\ requests' = requests - 1
  /\ UNCHANGED <<pc, conf, held, live, manager, wiring, modules, ending, writing>>

(* Where the application has what New made, and no Shutdown has begun.     *)
Constructed == {"initialize", "ready", "failed", "serving", "draining"}

(* The ticker saves the jobs from Start on, and may do so once more after  *)
(* Stop has cancelled it; Enqueue saves its job whenever it is called, be  *)
(* it by a request, a worker, a cron entry or the application itself.      *)
SaveJobs ==
  /\ pc \in Constructed \cup Range(Steps) \cup {"panicked"}
  /\ "persistence" \in held /\ writing' = ~writing
  /\ UNCHANGED <<pc, conf, held, live, manager, requests, wiring, modules, ending>>

(* Before it shuts down, the application may scale the queue down and up:  *)
(* a worker that was removed finishes its job, and one whose id is given   *)
(* to another is on no list any more.                                      *)
ScaleJobs ==
  /\ pc \in Constructed /\ "jobs" \in held
  /\ \E s \in SUBSET {"workers", "unlisted"} : live' = (live \ {"workers"}) \cup s
  /\ UNCHANGED <<pc, conf, held, manager, users, wiring, modules, ending>>

(* A signal, or an error of the server.                                    *)
Interrupt ==
  /\ Go("serving", "draining")
  /\ UNCHANGED <<conf, held, live, manager, wiring, modules>>

BeginShutdown(late) ==
  /\ pc' = Steps[1] /\ expired' = (expired \/ late)
  /\ shutdowns' = shutdowns + 1 /\ down' = <<>>
  /\ UNCHANGED <<conf, held, live, manager, users, wiring, modules, errs, shut>>

(* Mutant: nobody waits for the requests.                                  *)
DrainAtOnce == pc = "draining" /\ BeginShutdown(FALSE)

(* srv.Shutdown waits for the requests, for 30 seconds; what is left of    *)
(* them is the time that Shutdown has.                                     *)
Drain ==
  /\ pc = "draining"
  /\ \/ requests = 0 /\ BeginShutdown(FALSE)
     \/ BeginShutdown(TRUE)

(* The application calls Shutdown itself: it never served, New failed, or  *)
(* once more.  Before New has made the services there is nothing to call.  *)
CallShutdown ==
  /\ pc \in {"ready", "failed", "stopped", "panicked"} /\ "services" \in held
  /\ shutdowns < MaxShutdowns
  /\ BeginShutdown(FALSE)

Expire ==
  /\ pc \in Range(Steps) \ {"stopped"} /\ ~expired /\ expired' = TRUE
  /\ UNCHANGED <<pc, conf, held, live, manager, users, wiring, modules, down,
                 errs, shutdowns, shut>>

After(step) == LET i == CHOOSE i \in DOMAIN Steps : Steps[i] = step IN Steps[i + 1]

(* Jobs.Stop refuses when the manager was not started, and stops nothing;  *)
(* otherwise it tells the workers on the list to stop and waits for none   *)
(* of them, nor for the ticker that it cancels, and saves the jobs itself. *)
StopJobs ==
  /\ pc = "jobs" /\ pc' = After("jobs")
  /\ manager' = FALSE
  /\ IF manager THEN \E s \in SUBSET {"unlisted"} : live' = (live \ {"workers"}) \cup s
     ELSE UNCHANGED live
  /\ errs' = IF "jobs" \in held /\ ~manager THEN errs \cup {"jobs"} ELSE errs
  /\ UNCHANGED <<conf, held, users, wiring, modules, down, shutdowns, expired, shut>>

(* Mutant: the modules are shut down in the order of their registration.   *)
ShutdownModuleInOrder ==
  /\ pc = "modules" /\ Len(down) < Len(order)
  /\ LET m == order[Len(down) + 1] IN
     /\ down' = Append(down, m)
     /\ \/ up' = up \ {m} /\ UNCHANGED errs
        \/ up' = up /\ errs' = errs \cup {m}
  /\ UNCHANGED <<pc, conf, held, live, manager, users, wiring, given, order,
                 shutdowns, expired, shut>>

(* A channel is closed if the module was initialised.  To close it a second *)
(* time is a panic, which ends Shutdown, and the process unless the        *)
(* application recovers.                                                   *)
ShutdownModule ==
  /\ pc = "modules" /\ Len(down) < Len(order)
  /\ LET m == order[Len(order) - Len(down)] IN
     \/ /\ m \notin shut /\ down' = Append(down, m) /\ UNCHANGED pc
        /\ \/ /\ up' = up \ {m} /\ shut' = shut \cup ({m} \cap up \cap Once)
              /\ UNCHANGED errs
           \/ m \notin Once /\ errs' = errs \cup {m} /\ UNCHANGED <<up, shut>>
     \/ m \in shut /\ pc' = "panicked" /\ UNCHANGED <<down, up, errs, shut>>
  /\ UNCHANGED <<conf, held, live, manager, users, wiring, given, order, shutdowns, expired>>

ModulesDone ==
  /\ pc = "modules" /\ Len(down) = Len(order) /\ pc' = After("modules")
  /\ UNCHANGED <<conf, held, live, manager, users, wiring, modules, ending>>

(* Mutant: the first error ends the shutdown.                              *)
CloseOrStop ==
  /\ pc \in Store
  /\ \/ live' = live \ ({pc} \ errs) /\ pc' = After(pc) /\ UNCHANGED errs
     \/ pc \in live \ errs /\ pc' = "stopped" /\ errs' = errs \cup {pc} /\ UNCHANGED live
  /\ UNCHANGED <<conf, held, manager, users, wiring, modules, down, shutdowns, expired,
                 shut>>

(* An error of one Close is collected, and the next one is called.  What   *)
(* was closed before, with an error or not, is not closed again.           *)
Close ==
  /\ pc \in Store /\ pc' = After(pc)
  /\ \/ live' = live \ ({pc} \ errs) /\ UNCHANGED errs
     \/ pc \in live \ errs /\ errs' = errs \cup {pc} /\ UNCHANGED live
  /\ UNCHANGED <<conf, held, manager, users, wiring, modules, down, shutdowns, expired,
                 shut>>

Boot ==
  \/ LoadConfig \/ SetupLogging \/ OpenDatabase \/ NewJobManager \/ SetPersistence
  \/ ConnectCaches \/ routes \/ InitSession \/ StartMailer \/ RegisterModules
  \/ InitializeModule

Halt == Drain \/ StopJobs \/ ShutdownModule \/ ModulesDone \/ Close

AppNext ==
  \/ Boot \/ ListenAndServe \/ Request \/ SaveJobs \/ ScaleJobs \/ Interrupt
  \/ CallShutdown \/ Expire \/ Halt

AppSpec == AppInit /\ [][AppNext]_appVars
-----------------------------------------------------------------------------
(* Shutdown lets go of what the application holds, however many of its     *)
(* steps fail and wherever New stopped: of the stores, the workers on the  *)
(* list and the modules, what is still there is what one of the calls      *)
(* reported.  That is also so if a module panics, as only a repeated call  *)
(* can.  What nobody holds is exempt: the mail listener, workers that are  *)
(* on no list, and the pool of a database whose Ping failed stay.          *)
ShutdownReleases ==
  pc \in {"stopped", "panicked"} =>
    /\ live \cap Store \subseteq errs
    /\ "workers" \in live => "jobs" \in errs
    /\ up \subseteq errs

(* A module may use those that were registered before it for as long as it *)
(* is up: start is in order, and the first shutdown the other way round.   *)
DependenciesUp ==
  shutdowns <= 1 =>
    \A j \in DOMAIN order : \A i \in 1..(j - 1) :
      order[j] \in up \ errs => order[i] \in up

(* What is in use is open: everything while a request is in flight, unless *)
(* the time of the shutdown is over, and the database until Stop of the    *)
(* job manager has returned, or for as long as there was no shutdown.  A   *)
(* save that Stop did not wait for, or of a later Enqueue, is exempt: it   *)
(* may find the database closed.                                           *)
InUseIsOpen ==
  /\ requests > 0 /\ ~expired =>
       held \cap Store \subseteq live /\ manager /\ up = Range(order)
  /\ manager /\ "persistence" \in held => "db" \in live
  /\ writing /\ "db" \notin live => shutdowns > 0 /\ ~manager
=============================================================================
