--------------------------- MODULE LifecycleProofs ---------------------------
(* Theorems about Lifecycle, for any environments, any sequences of modules *)
(* and any number of requests and of calls of Shutdown.                     *)
EXTENDS Lifecycle, FiniteSetTheorems, SequenceTheorems, TLAPS

USE LifecycleAssumption DEF LifecycleAssumption

Early == {"boot", "logging", "database", "manager", "persistence", "caches", "router",
          "session", "mail"}
Booting == Early \cup {"register", "initialize", "ready", "failed"}
Serving == {"serving", "draining"}
AfterJobs == {"modules", "otel", "db", "redis", "badger", "stopped"}
AfterModules == AfterJobs \ {"modules"}
Closed ==
  [otel |-> {"db", "redis", "badger", "stopped"}, db |-> {"redis", "badger", "stopped"},
   redis |-> {"badger", "stopped"}, badger |-> {"stopped"}]

Unloaded == pc = "boot" => conf \in Envs

(* Until it is shut down, an application has nothing to report.            *)
NoShutdownYet ==
  IF pc \in Booting \cup Serving THEN shutdowns = 0 /\ errs = {} /\ down = <<>> /\ shut = {}
  ELSE shutdowns > 0

(* What it has connected to is open, until a shutdown has stopped the jobs. *)
HeldIsOpen ==
  /\ pc \in Booting \cup Serving \/ manager => held \cap Store \subseteq live
  /\ "persistence" \in held => "db" \in held
  /\ "workers" \in live => "jobs" \in held
  /\ writing => "persistence" \in held /\ pc \notin Early \cup {"register"}

ServesWhole ==
  /\ manager => pc \in Serving \cup {"jobs"}
  /\ pc \in Serving => manager
  /\ pc \in Serving \cup {"ready"} => up = Range(order)
  /\ requests > 0 /\ ~expired => pc \in Serving

(* A step of the shutdown that is over has done its part.                  *)
Released ==
  /\ pc \in AfterJobs /\ "workers" \in live => "jobs" \in errs
  /\ pc \in AfterModules => up \subseteq errs
  /\ \A s \in Store : pc \in Closed[s] /\ s \in live => s \in errs

(* What a shutdown that is over has done is done when the next one begins. *)
ReleasedBefore ==
  shutdowns > 1 =>
    /\ live \cap Store \subseteq errs
    /\ "workers" \in live => "jobs" \in errs
    /\ up \subseteq errs

(* The modules that the current shutdown has yet to call.                  *)
Left == Len(order) - Len(down)

(* A channel has been closed only by a shutdown that called its module, so *)
(* that none is closed a second time by the first.                         *)
ClosedOnce ==
  /\ pc = "panicked" => shutdowns > 1
  /\ shutdowns <= 1 => \A i \in DOMAIN order : order[i] \in shut => i > Left

(* The first modules are up, or all of them but those that the shutdown    *)
(* has called already.                                                     *)
InOrder ==
  /\ Len(down) <= Len(order)
  /\ \A i, j \in DOMAIN order : i # j => order[i] # order[j]
  /\ IsFiniteSet(up) /\ (pc \in Early \cup {"register"} => up = {} /\ order = <<>>)
  /\ pc = "initialize" => \A i \in DOMAIN order : order[i] \in up <=> i <= Cardinality(up)
  /\ pc \in {"jobs", "modules"} =>
       \A i \in DOMAIN order : i > Left /\ order[i] \in up => order[i] \in errs
  /\ shutdowns <= 1 =>
       \E n \in 0..Len(order) : \A i \in DOMAIN order :
         IF i <= Left THEN order[i] \in up <=> i <= n
         ELSE order[i] \in up => order[i] \in errs

LInv ==
  /\ AppTypeOK /\ Unloaded /\ NoShutdownYet /\ HeldIsOpen /\ ServesWhole
  /\ Released /\ ReleasedBefore /\ ClosedOnce /\ InOrder

-----------------------------------------------------------------------------
LEMMA StepsAre ==
  /\ Range(Steps) = {"jobs", "modules", "otel", "db", "redis", "badger", "stopped"}
  /\ DOMAIN Steps = 1..7 /\ Steps[1] = "jobs" /\ Steps[2] = "modules"
  /\ Steps[3] = "otel" /\ Steps[4] = "db" /\ Steps[5] = "redis" /\ Steps[6] = "badger"
  /\ Steps[7] = "stopped"
BY DEF Steps, Range

LEMMA AfterIs ==
  /\ After("jobs") = "modules" /\ After("modules") = "otel" /\ After("otel") = "db"
  /\ After("db") = "redis" /\ After("redis") = "badger" /\ After("badger") = "stopped"
BY StepsAre, SMTT(30) DEF After

LEMMA ClosedAfterModules == \A s \in Store : Closed[s] \subseteq AfterModules
BY DEF Store, Closed, AfterModules, AfterJobs

LEMMA Sequences ==
  ASSUME AppTypeOK
  PROVE  /\ order \in Seq(Range(given)) /\ DOMAIN order = 1..Len(order) /\ Len(order) \in Nat
         /\ down \in Seq(Range(order)) /\ Len(down) \in Nat
<1>1. PICK n \in 0..Len(given) : order = SubSeq(given, 1, n)
  BY DEF AppTypeOK
<1>2. given \in Seq(Range(given))
  BY DEF AppTypeOK
<1>3. order \in Seq(Range(given))
  BY <1>1, <1>2, SubSeqProperties
<1>4. down \in Seq(Range(order))
  BY DEF AppTypeOK
<1> QED BY <1>3, <1>4

LEMMA Counted == LInv => shutdowns \in Nat
<1>1. LInv => shutdowns \in 0..MaxShutdowns
  BY DEF LInv, AppTypeOK
<1> QED BY <1>1

LEMMA AppImplies == LInv => ShutdownReleases /\ DependenciesUp /\ InUseIsOpen
<1> SUFFICES ASSUME LInv PROVE ShutdownReleases /\ DependenciesUp /\ InUseIsOpen
  OBVIOUS
<1>1. ShutdownReleases
  <2>1. CASE pc = "stopped"
    BY <2>1 DEF LInv, Released, Closed, Store, AfterJobs, AfterModules, ShutdownReleases
  <2>2. CASE pc = "panicked"
    BY <2>2 DEF LInv, ReleasedBefore, ClosedOnce, ShutdownReleases
  <2> QED BY <2>1, <2>2 DEF ShutdownReleases
<1>2. DependenciesUp
  <2> SUFFICES ASSUME shutdowns <= 1, NEW j \in DOMAIN order, NEW i \in 1..(j - 1),
                      order[j] \in up \ errs
               PROVE  order[i] \in up
    BY DEF DependenciesUp
  <2>1. DOMAIN order = 1..Len(order) /\ Len(order) \in Nat /\ Len(down) \in Nat
    BY Sequences DEF LInv
  <2>2. PICK n \in 0..Len(order) : \A k \in DOMAIN order :
          IF k <= Left THEN order[k] \in up <=> k <= n ELSE order[k] \in up => order[k] \in errs
    BY DEF LInv, InOrder
  <2>3. j <= Left /\ j <= n
    BY <2>2
  <2>4. i \in DOMAIN order /\ i <= Left /\ i <= n
    BY <2>1, <2>3 DEF Left
  <2> QED BY <2>2, <2>4
<1>3. InUseIsOpen
  <2>1. writing => "persistence" \in held
    BY DEF LInv, HeldIsOpen
  <2>2. shutdowns \in Nat
    BY Counted
  <2>3. ~(shutdowns > 0) => pc \in Booting \cup Serving
    BY DEF LInv, NoShutdownYet
  <2>4. writing /\ "db" \notin live => shutdowns > 0 /\ ~manager
    BY <2>1, <2>3 DEF LInv, HeldIsOpen, Store
  <2> QED BY <2>4 DEF LInv, HeldIsOpen, ServesWhole, Serving, Store, InUseIsOpen
<1> QED BY <1>1, <1>2, <1>3

LEMMA AppInitInv == AppInit => LInv
<1> SUFFICES ASSUME AppInit PROVE LInv
  OBVIOUS
<1>1. AppTypeOK
  <2>1. given \in Arguments
    BY DEF AppInit
  <2>2. given \in Seq(Range(given))
    BY <2>1
  <2>3. SubSeq(given, 1, 0) = <<>>
    BY SubSeqEmpty
  <2>4. \E n \in 0..Len(given) : <<>> = SubSeq(given, 1, n)
    BY <2>2, <2>3
  <2>5. <<>> \in Seq(Range(order))
    BY EmptySeq
  <2>6. 0 \in 0..MaxShutdowns /\ 0 \in 0..MaxRequests
    OBVIOUS
  <2>7. down \in Seq(Range(order)) /\ \E n \in 0..Len(given) : order = SubSeq(given, 1, n)
    BY <2>4, <2>5 DEF AppInit
  <2>8. shutdowns \in 0..MaxShutdowns /\ requests \in 0..MaxRequests
    BY <2>6 DEF AppInit
  <2> QED BY <2>7, <2>8 DEF AppInit, AppTypeOK
<1>2. NoShutdownYet
  BY DEF AppInit, NoShutdownYet, Booting, Early
<1>3. HeldIsOpen /\ Released /\ ReleasedBefore /\ ClosedOnce
  BY DEF AppInit, HeldIsOpen, Released, ReleasedBefore, ClosedOnce, AfterJobs, AfterModules,
         Closed, Store
<1>4. ServesWhole
  <2>1. pc = "boot" /\ requests = 0 /\ ~manager
    BY DEF AppInit
  <2> QED BY <2>1 DEF ServesWhole, Serving
<1>5. InOrder
  <2>1. order = <<>> /\ down = <<>> /\ up = {} /\ pc = "boot"
    BY DEF AppInit
  <2>2. Len(order) = 0 /\ Len(down) = 0 /\ DOMAIN order = {} /\ IsFiniteSet(up)
    BY <2>1, FS_EmptySet
  <2> QED BY <2>1, <2>2 DEF InOrder, Left
<1>6. Unloaded
  BY DEF AppInit, Unloaded
<1> QED BY <1>1, <1>2, <1>3, <1>4, <1>5, <1>6 DEF LInv
-----------------------------------------------------------------------------
(* New.                                                                     *)

LEMMA NoneYet ==
  ASSUME shutdowns = 0, shut = {}, UNCHANGED <<shutdowns, shut>>, pc' # "panicked"
  PROVE  ReleasedBefore' /\ ClosedOnce'
BY DEF ReleasedBefore, ClosedOnce

LEMMA BuildKeeps ==
  ASSUME LInv, pc \in Early, pc' \in (Early \ {"boot"}) \cup {"register", "failed"},
         UNCHANGED <<requests, manager, given, order, up, down, errs, shutdowns, expired, shut, writing>>,
         conf' \in Envs \cup {Load(e) : e \in Envs},
         held' \subseteq Store \cup {"services", "jobs", "persistence"},
         live' \subseteq Store \cup {"workers", "listener", "unlisted", "orphan"},
         cache' \in {"", "redis", "badger"}, store' \in {"", "memory", "redis", "sql"},
         chain' \subseteq {"otel", "logging", "metrics", "session", "csrf"},
         checks' \subseteq Store,
         held' \cap Store \subseteq live', "persistence" \in held' => "db" \in held',
         "workers" \in live' => "jobs" \in held'
  PROVE  LInv'
<1>1. AppTypeOK'
  BY DEF LInv, AppTypeOK, Early
<1>2. Unloaded' /\ NoShutdownYet' /\ HeldIsOpen'
  BY DEF LInv, Unloaded, NoShutdownYet, HeldIsOpen, Booting, Early
<1>3. ServesWhole'
  BY DEF LInv, ServesWhole, Serving, Early
<1>4. Released'
  BY ClosedAfterModules DEF Released, Early, AfterJobs, AfterModules
<1>5. InOrder'
  BY DEF LInv, InOrder, Left, Early
<1>6. shutdowns = 0 /\ shut = {}
  BY DEF LInv, NoShutdownYet, Booting
<1>7. ReleasedBefore' /\ ClosedOnce'
  <2>1. pc' # "panicked"
    BY DEF Early
  <2> QED BY <1>6, <2>1, NoneYet
<1> QED BY <1>1, <1>2, <1>3, <1>4, <1>5, <1>7 DEF LInv

(* What is known before a step of New.                                     *)
LEMMA Building ==
  ASSUME LInv, pc \in Early
  PROVE  /\ conf \in Envs \cup {Load(e) : e \in Envs}
         /\ held \subseteq Store \cup {"services", "jobs", "persistence"}
         /\ live \subseteq Store \cup {"workers", "listener", "unlisted", "orphan"}
         /\ cache \in {"", "redis", "badger"} /\ store \in {"", "memory", "redis", "sql"}
         /\ chain \subseteq {"otel", "logging", "metrics", "session", "csrf"}
         /\ checks \subseteq Store /\ held \cap Store \subseteq live
         /\ ("persistence" \in held => "db" \in held) /\ ("workers" \in live => "jobs" \in held)
BY DEF LInv, AppTypeOK, HeldIsOpen, Booting

LEMMA LoadConfigKeeps == LInv /\ LoadConfig => LInv'
<1> SUFFICES ASSUME LInv, LoadConfig PROVE LInv'
  OBVIOUS
<1>1. pc = "boot" /\ pc' \in {"logging", "failed"}
  BY DEF LoadConfig, Fails, Go
<1>2. UNCHANGED <<requests, shutdowns, errs, down, expired, held, live, manager, cache, store,
                  chain, checks, given, order, up, shut, writing>>
  BY DEF LoadConfig, Fails, Go, ending, users, wiring, modules
<1>3. conf' \in Envs \cup {Load(e) : e \in Envs}
  BY <1>1 DEF LoadConfig, Fails, LInv, Unloaded
<1>4. pc \in Early /\ pc' \in (Early \ {"boot"}) \cup {"register", "failed"}
  BY <1>1 DEF Early
<1> QED BY <1>2, <1>3, <1>4, Building, BuildKeeps

LEMMA SetupLoggingKeeps == LInv /\ SetupLogging => LInv'
<1> SUFFICES ASSUME LInv, SetupLogging PROVE LInv'
  OBVIOUS
<1>1. pc \in Early /\ pc' \in (Early \ {"boot"}) \cup {"register", "failed"}
  BY DEF SetupLogging, Go, Early
<1>2. UNCHANGED <<requests, shutdowns, errs, down, expired, conf, manager, cache, store,
                  chain, given, order, up, shut, writing>>
  BY DEF SetupLogging, Go, ending, users, modules
<1>3. checks' \subseteq Store
  BY DEF SetupLogging, setupStructuredLogging, Store
<1>4. \E opened \in SUBSET {"otel"} :
        /\ held' = held \cup {"services"} \cup opened
        /\ opened \subseteq live' /\ live \subseteq live' /\ live' \subseteq live \cup {"otel"}
  <2> DEFINE opened == OTelEnabled(conf) /\ ValidTelemetry(Telemetry(conf))
  <2>1. CASE held' = held \cup {"services"} \cup {o \in {"otel"} : opened} /\ live' = live \cup {o \in {"otel"} : opened}
    <3> HIDE DEF opened
    <3> QED BY <2>1
  <2>2. CASE held' = held \cup {"services"} /\ live' = live
    BY <2>2
  <2> QED BY <2>1, <2>2 DEF SetupLogging, setupOpenTelemetry
<1>5. /\ held' \subseteq Store \cup {"services", "jobs", "persistence"}
      /\ live' \subseteq Store \cup {"workers", "listener", "unlisted", "orphan"}
      /\ held' \cap Store \subseteq live'
      /\ ("persistence" \in held' => "db" \in held') /\ ("workers" \in live' => "jobs" \in held')
  BY <1>1, <1>4, Building DEF Store
<1> QED BY <1>1, <1>2, <1>3, <1>5, Building, BuildKeeps

LEMMA OpenDatabaseKeeps == LInv /\ OpenDatabase => LInv'
<1> SUFFICES ASSUME LInv, OpenDatabase PROVE LInv'
  OBVIOUS
<1>1. pc \in Early /\ pc' \in (Early \ {"boot"}) \cup {"register", "failed"}
  BY DEF OpenDatabase, Fails, Go, Early
<1>2. UNCHANGED <<requests, shutdowns, errs, down, expired, conf, manager, cache, store,
                  chain, checks, given, order, up, shut, writing>>
  BY DEF OpenDatabase, Fails, Go, ending, users, modules, wiring
<1>3. \/ held' = held /\ (live' = live \/ live' = live \cup {"orphan"})
      \/ held' = held \cup {"db"} /\ live' = live \cup {"db"}
  BY DEF OpenDatabase, Connected
<1>4. /\ held' \subseteq Store \cup {"services", "jobs", "persistence"}
      /\ live' \subseteq Store \cup {"workers", "listener", "unlisted", "orphan"}
      /\ held' \cap Store \subseteq live'
      /\ ("persistence" \in held' => "db" \in held') /\ ("workers" \in live' => "jobs" \in held')
  BY <1>1, <1>3, Building DEF Store
<1> QED BY <1>1, <1>2, <1>4, Building, BuildKeeps

LEMMA NewJobManagerKeeps == LInv /\ NewJobManager => LInv'
<1> SUFFICES ASSUME LInv, NewJobManager PROVE LInv'
  OBVIOUS
<1>1. pc \in Early /\ pc' \in (Early \ {"boot"}) \cup {"register", "failed"}
  BY DEF NewJobManager, Go, Early
<1>2. UNCHANGED <<requests, shutdowns, errs, down, expired, conf, manager, cache, store,
                  chain, checks, given, order, up, shut, writing>>
  BY DEF NewJobManager, Go, ending, users, modules, wiring
<1>3. held' = held \cup {"jobs"} /\ live' = live \cup {"workers"}
  BY DEF NewJobManager
<1>4. /\ held' \subseteq Store \cup {"services", "jobs", "persistence"}
      /\ live' \subseteq Store \cup {"workers", "listener", "unlisted", "orphan"}
      /\ held' \cap Store \subseteq live'
      /\ ("persistence" \in held' => "db" \in held') /\ ("workers" \in live' => "jobs" \in held')
  BY <1>1, <1>3, Building DEF Store
<1> QED BY <1>1, <1>2, <1>4, Building, BuildKeeps

LEMMA SetPersistenceKeeps == LInv /\ SetPersistence => LInv'
<1> SUFFICES ASSUME LInv, SetPersistence PROVE LInv'
  OBVIOUS
<1>1. pc \in Early /\ pc' \in (Early \ {"boot"}) \cup {"register", "failed"}
  BY DEF SetPersistence, Go, Early
<1>2. UNCHANGED <<requests, shutdowns, errs, down, expired, conf, live, manager, cache, store,
                  chain, checks, given, order, up, shut, writing>>
  BY DEF SetPersistence, Go, ending, users, modules, wiring
<1>3. held' = held \/ (held' = held \cup {"persistence"} /\ "db" \in held)
  BY DEF SetPersistence
<1>4. /\ held' \subseteq Store \cup {"services", "jobs", "persistence"}
      /\ held' \cap Store \subseteq live'
      /\ ("persistence" \in held' => "db" \in held') /\ ("workers" \in live' => "jobs" \in held')
  BY <1>1, <1>2, <1>3, Building DEF Store
<1> QED BY <1>1, <1>2, <1>4, Building, BuildKeeps

LEMMA ConnectCachesKeeps == LInv /\ ConnectCaches => LInv'
<1> SUFFICES ASSUME LInv, ConnectCaches PROVE LInv'
  OBVIOUS
<1>1. pc \in Early /\ pc' \in (Early \ {"boot"}) \cup {"register", "failed"}
  BY DEF ConnectCaches, Go, Early
<1>2. UNCHANGED <<requests, shutdowns, errs, down, expired, conf, manager, store,
                  chain, checks, given, order, up, shut, writing>>
  BY DEF ConnectCaches, Go, ending, users, modules
<1>3. \E cs \in SUBSET {"redis", "badger"} : held' = held \cup cs /\ live' = live \cup cs
  BY DEF ConnectCaches
<1>4. cache' \in {"", "redis", "badger"}
  BY <1>1, Building DEF ConnectCaches
<1>5. /\ held' \subseteq Store \cup {"services", "jobs", "persistence"}
      /\ live' \subseteq Store \cup {"workers", "listener", "unlisted", "orphan"}
      /\ held' \cap Store \subseteq live'
      /\ ("persistence" \in held' => "db" \in held') /\ ("workers" \in live' => "jobs" \in held')
  BY <1>1, <1>3, Building DEF Store
<1> QED BY <1>1, <1>2, <1>4, <1>5, Building, BuildKeeps

LEMMA WiringKeeps == LInv /\ (routes \/ InitSession \/ StartMailer) => LInv'
<1> SUFFICES ASSUME LInv, routes \/ InitSession \/ StartMailer PROVE LInv'
  OBVIOUS
<1>1. pc \in Early /\ pc' \in (Early \ {"boot"}) \cup {"register", "failed"}
  BY DEF routes, InitSession, StartMailer, Go, Early
<1>2. UNCHANGED <<requests, shutdowns, errs, down, expired, conf, held, manager, cache, checks,
                  given, order, up, shut, writing>>
  BY DEF routes, InitSession, StartMailer, Go, ending, users, modules, wiring
<1>3. live' = live \/ live' = live \cup {"listener"}
  BY DEF routes, InitSession, StartMailer
<1>4. store' \in {"", "memory", "redis", "sql"}
  BY <1>1, Building DEF routes, InitSession, StartMailer, SessionStore, wiring
<1>5. chain' \subseteq {"otel", "logging", "metrics", "session", "csrf"}
  BY <1>1, Building DEF routes, InitSession, StartMailer, wiring
<1>6. /\ live' \subseteq Store \cup {"workers", "listener", "unlisted", "orphan"}
      /\ held' \cap Store \subseteq live' /\ ("workers" \in live' => "jobs" \in held')
  BY <1>1, <1>2, <1>3, Building DEF Store
<1> QED BY <1>1, <1>2, <1>4, <1>5, <1>6, Building, BuildKeeps

LEMMA RegisterKeeps == LInv /\ RegisterModules => LInv'
<1> SUFFICES ASSUME LInv, RegisterModules PROVE LInv'
  OBVIOUS
<1>1. /\ pc = "register" /\ pc' \in {"initialize", "failed"}
      /\ UNCHANGED <<requests, shutdowns, errs, down, expired, conf, held, live, manager, cache,
                     store, chain, checks, given, up, shut, writing>>
  BY DEF RegisterModules, Go, ending, users, wiring
<1>2. PICK n \in 0..Len(given) :
        /\ order' = SubSeq(given, 1, n)
        /\ \A i, j \in 1..n : i # j => given[i] # given[j]
  BY DEF RegisterModules
<1>3. /\ up = {} /\ down = <<>> /\ shutdowns = 0 /\ manager \in BOOLEAN /\ given \in Arguments
      /\ ~manager /\ errs = {}
  BY <1>1 DEF LInv, AppTypeOK, NoShutdownYet, InOrder, ServesWhole, Booting, Serving
<1>4. given \in Seq(Range(given)) /\ n \in Nat
  BY <1>2, <1>3
<1>5. /\ Len(order') = n /\ DOMAIN order' = 1..n
      /\ \A i \in 1..n : order'[i] = given[i]
  BY <1>2, <1>4, SubSeqProperties
<1>6. AppTypeOK'
  <2>1. down' \in Seq(Range(order')) /\ Range(up') = Range(up)
    BY <1>1, <1>3, EmptySeq
  <2>2. errs' \subseteq Range(order') \cup Store \cup {"jobs"} /\ up' \subseteq Range(order')
    BY <1>1, <1>3
  <2> QED BY <1>1, <1>2, <2>1, <2>2 DEF LInv, AppTypeOK
<1>7. Unloaded' /\ NoShutdownYet' /\ HeldIsOpen'
  BY <1>1 DEF LInv, Unloaded, NoShutdownYet, HeldIsOpen, Booting, Early
<1>8. ServesWhole' /\ Released'
  BY <1>1, <1>3, ClosedAfterModules
     DEF LInv, ServesWhole, Serving, Released, AfterModules, AfterJobs
<1>9. InOrder'
  <2>1. Len(down') = 0 /\ Cardinality(up') = 0 /\ IsFiniteSet(up') /\ Left' = n
    BY <1>1, <1>3, <1>4, <1>5, FS_EmptySet DEF Left
  <2>2. \A i, j \in DOMAIN order' : i # j => order'[i] # order'[j]
    BY <1>2, <1>5
  <2>3. \A i \in DOMAIN order' : order'[i] \in up' <=> i <= 0
    BY <1>1, <1>3, <1>4, <1>5
  <2>4. \A i \in DOMAIN order' : i <= Left'
    BY <1>4, <1>5, <2>1
  <2>5. Len(down') <= Len(order') /\ 0 \in 0..Len(order')
    BY <1>4, <1>5, <2>1
  <2> QED BY <1>1, <2>1, <2>2, <2>3, <2>4, <2>5 DEF InOrder, Early
<1>12. ReleasedBefore' /\ ClosedOnce'
  <2>1. shutdowns = 0 /\ shut = {}
    BY <1>1 DEF LInv, NoShutdownYet, Booting
  <2>2. pc' # "panicked"
    BY <1>1
  <2> QED BY <1>1, <2>1, <2>2, NoneYet
<1> QED BY <1>6, <1>7, <1>8, <1>9, <1>12 DEF LInv

LEMMA InitializeKeeps == LInv /\ InitializeModule => LInv'
<1> SUFFICES ASSUME LInv, InitializeModule PROVE LInv'
  OBVIOUS
<1> DEFINE n == Cardinality(up)
<1>1. /\ pc = "initialize" /\ pc' \in {"initialize", "failed", "ready"}
      /\ UNCHANGED <<requests, shutdowns, errs, down, expired, conf, held, live, manager, cache,
                     store, chain, checks, given, order, shut, writing>>
  BY DEF InitializeModule, Fails, Go, ending, users, wiring, modules
<1>2. /\ DOMAIN order = 1..Len(order) /\ Len(order) \in Nat /\ n \in Nat /\ IsFiniteSet(up)
      /\ down = <<>> /\ shutdowns = 0 /\ errs = {} /\ up \subseteq Range(order)
  BY <1>1, Sequences, FS_CardinalityType
     DEF LInv, AppTypeOK, InOrder, NoShutdownYet, Booting
<1>3. \/ up' = up /\ pc' = "failed"
      \/ n < Len(order) /\ up' = up \cup {order[n + 1]} /\ pc' = "initialize"
      \/ n = Len(order) /\ up' = up /\ pc' = "ready"
  BY DEF InitializeModule, Fails, Go, modules
<1>4. /\ \A i, j \in DOMAIN order : i # j => order[i] # order[j]
      /\ \A i \in DOMAIN order : order[i] \in up <=> i <= n
  BY <1>1 DEF LInv, InOrder
<1>5. up' \subseteq Range(order) /\ (pc' = "ready" => up' = Range(order))
  BY <1>2, <1>3, <1>4 DEF Range
<1>6. IsFiniteSet(up') /\ (pc' = "initialize" => Cardinality(up') = n + 1)
  <2>1. CASE n < Len(order) /\ up' = up \cup {order[n + 1]}
    <3>1. n + 1 \in DOMAIN order /\ order[n + 1] \notin up
      BY <1>2, <1>4, <2>1
    <3> QED BY <1>2, <2>1, <3>1, FS_AddElement
  <2>2. CASE up' = up /\ pc' # "initialize"
    BY <1>2, <2>2
  <2> QED BY <1>3, <2>1, <2>2
<1>7. \E k \in 0..Len(order) :
        /\ \A i \in DOMAIN order : order[i] \in up' <=> i <= k
        /\ pc' = "initialize" => k = Cardinality(up')
  <2>1. CASE n < Len(order) /\ up' = up \cup {order[n + 1]}
    <3>1. n + 1 \in 0..Len(order) /\ n + 1 \in DOMAIN order
      BY <1>2, <2>1
    <3>2. \A i \in DOMAIN order : order[i] \in up' <=> i <= n + 1
      BY <1>2, <1>4, <2>1, <3>1
    <3> QED BY <1>6, <3>1, <3>2
  <2>2. CASE up' = up /\ pc' # "initialize"
    <3>1. CASE n <= Len(order)
      BY <1>2, <1>4, <2>2, <3>1
    <3>2. CASE n > Len(order)
      <4>1. \A i \in DOMAIN order : order[i] \in up' <=> i <= Len(order)
        BY <1>2, <1>4, <2>2, <3>2
      <4> QED BY <1>2, <2>2, <4>1
    <3> QED BY <1>2, <3>1, <3>2
  <2> QED BY <1>3, <2>1, <2>2
<1>8. AppTypeOK'
  BY <1>1, <1>5 DEF LInv, AppTypeOK
<1>9. Unloaded' /\ NoShutdownYet' /\ HeldIsOpen'
  BY <1>1 DEF LInv, Unloaded, NoShutdownYet, HeldIsOpen, Booting, Early
<1>10. ServesWhole' /\ Released'
  BY <1>1, <1>5, ClosedAfterModules
     DEF LInv, ServesWhole, Serving, Released, AfterModules, AfterJobs
<1>11. InOrder'
  <2>1. Left' = Len(order) /\ Len(down) = 0 /\ \A i \in DOMAIN order : i <= Left'
    BY <1>1, <1>2 DEF Left
  <2> QED BY <1>1, <1>2, <1>4, <1>6, <1>7, <2>1 DEF InOrder, Early
<1>12. ReleasedBefore' /\ ClosedOnce'
  <2>1. shutdowns = 0 /\ shut = {}
    BY <1>1 DEF LInv, NoShutdownYet, Booting
  <2>2. pc' # "panicked"
    BY <1>1
  <2> QED BY <1>1, <2>1, <2>2, NoneYet
<1> QED BY <1>8, <1>9, <1>10, <1>11, <1>12 DEF LInv
-----------------------------------------------------------------------------
(* Serving, and the way to a shutdown.                                      *)

LEMMA ServeKeeps == LInv /\ (ListenAndServe \/ Interrupt) => LInv'
<1> SUFFICES ASSUME LInv, ListenAndServe \/ Interrupt PROVE LInv'
  OBVIOUS
<1>1. /\ (pc = "ready" /\ pc' = "serving") \/ (pc = "serving" /\ pc' = "draining")
      /\ UNCHANGED <<requests, shutdowns, errs, down, expired, conf, held, live, cache,
                     store, chain, checks, given, order, up, shut, writing>>
  BY DEF ListenAndServe, Interrupt, Go, ending, users, wiring, modules
<1>2. manager' /\ manager' \in BOOLEAN
  <2>1. CASE ListenAndServe
    BY <2>1 DEF ListenAndServe
  <2>2. CASE Interrupt
    <3>1. manager' = manager /\ pc = "serving"
      BY <2>2 DEF Interrupt, Go
    <3>2. manager /\ manager \in BOOLEAN
      BY <3>1 DEF LInv, ServesWhole, Serving, AppTypeOK
    <3> QED BY <3>1, <3>2
  <2> QED BY <2>1, <2>2
<1>3. AppTypeOK' /\ Unloaded'
  BY <1>1, <1>2 DEF LInv, AppTypeOK, Unloaded
<1>4. NoShutdownYet' /\ HeldIsOpen'
  BY <1>1 DEF LInv, NoShutdownYet, HeldIsOpen, Booting, Early, Serving
<1>5. ServesWhole' /\ Released'
  BY <1>1, <1>2, ClosedAfterModules
     DEF LInv, ServesWhole, Serving, Released, AfterModules, AfterJobs
<1>6. InOrder'
  BY <1>1 DEF LInv, InOrder, Left, Early
<1>12. ReleasedBefore' /\ ClosedOnce'
  <2>1. shutdowns = 0 /\ shut = {}
    BY <1>1 DEF LInv, NoShutdownYet, Booting, Serving
  <2>2. pc' # "panicked"
    BY <1>1
  <2> QED BY <1>1, <2>1, <2>2, NoneYet
<1> QED BY <1>3, <1>4, <1>5, <1>6, <1>12 DEF LInv

LEMMA RequestKeeps == LInv /\ Request => LInv'
<1> SUFFICES ASSUME LInv, Request PROVE LInv'
  OBVIOUS
<1>1. UNCHANGED <<pc, shutdowns, errs, down, expired, conf, held, live, manager, cache,
                  store, chain, checks, given, order, up, shut, writing>>
  BY DEF Request, ending, wiring, modules
<1>2. requests' \in 0..MaxRequests /\ (requests' > 0 => pc = "serving" \/ requests > 0)
  <2>1. requests \in 0..MaxRequests /\ MaxRequests \in Nat
    BY DEF LInv, AppTypeOK
  <2> QED BY <2>1 DEF Request
<1>3. AppTypeOK'
  BY <1>1, <1>2 DEF LInv, AppTypeOK
<1>4. Unloaded' /\ NoShutdownYet' /\ HeldIsOpen' /\ Released'
  BY <1>1 DEF LInv, Unloaded, NoShutdownYet, HeldIsOpen, Released
<1>5. ServesWhole' /\ InOrder'
  BY <1>1, <1>2 DEF LInv, ServesWhole, Serving, InOrder, Left
<1>6. ReleasedBefore' /\ ClosedOnce'
  BY <1>1 DEF LInv, ReleasedBefore, ClosedOnce, Left
<1> QED BY <1>3, <1>4, <1>5, <1>6 DEF LInv

LEMMA SaveJobsKeeps == LInv /\ SaveJobs => LInv'
<1> SUFFICES ASSUME LInv, SaveJobs PROVE LInv'
  OBVIOUS
<1>1. /\ UNCHANGED <<pc, shutdowns, errs, down, expired, conf, held, live, manager, cache,
                     store, chain, checks, given, order, up, shut, requests>>
      /\ writing' \in BOOLEAN /\ "persistence" \in held
  BY DEF SaveJobs, ending, wiring, modules
<1>2. pc \notin Early \cup {"register"}
  BY StepsAre DEF SaveJobs, Constructed, Early
<1>3. AppTypeOK'
  BY <1>1 DEF LInv, AppTypeOK
<1>4. Unloaded' /\ NoShutdownYet' /\ HeldIsOpen' /\ Released'
  BY <1>1, <1>2 DEF LInv, Unloaded, NoShutdownYet, HeldIsOpen, Released
<1>5. ServesWhole' /\ InOrder' /\ ReleasedBefore' /\ ClosedOnce'
  BY <1>1 DEF LInv, ServesWhole, InOrder, Left, ReleasedBefore, ClosedOnce
<1> QED BY <1>3, <1>4, <1>5 DEF LInv

(* The workers of a queue are not a store, and no shutdown has begun.      *)
LEMMA ScaleJobsKeeps == LInv /\ ScaleJobs => LInv'
<1> SUFFICES ASSUME LInv, ScaleJobs PROVE LInv'
  OBVIOUS
<1>1. /\ UNCHANGED <<pc, shutdowns, errs, down, expired, conf, held, manager, cache,
                     store, chain, checks, given, order, up, shut, requests, writing>>
      /\ "jobs" \in held /\ pc \in Constructed
  BY DEF ScaleJobs, ending, users, wiring, modules
<1>2. PICK s \in SUBSET {"workers", "unlisted"} : live' = (live \ {"workers"}) \cup s
  BY DEF ScaleJobs
<1>3. AppTypeOK'
  BY <1>1, <1>2 DEF LInv, AppTypeOK
<1>4. \A x \in Store : x \in live => x \in live'
  BY <1>2 DEF Store
<1>5. Unloaded' /\ NoShutdownYet' /\ HeldIsOpen'
  BY <1>1, <1>4 DEF LInv, Unloaded, NoShutdownYet, HeldIsOpen, Constructed
<1>6. Released' /\ ReleasedBefore'
  <2>1. pc \notin AfterJobs /\ shutdowns = 0
    BY <1>1 DEF LInv, Constructed, AfterJobs, NoShutdownYet, Booting, Serving
  <2> QED BY <1>1, <2>1, ClosedAfterModules DEF Released, ReleasedBefore, AfterModules
<1>7. ServesWhole' /\ InOrder' /\ ClosedOnce'
  BY <1>1 DEF LInv, ServesWhole, InOrder, Left, ClosedOnce
<1> QED BY <1>3, <1>5, <1>6, <1>7 DEF LInv

LEMMA BeginKeeps ==
  ASSUME LInv, NEW late \in BOOLEAN, BeginShutdown(late),
         \/ pc = "draining" /\ (requests = 0 \/ late)
         \/ pc \in {"ready", "failed", "stopped", "panicked"} /\ shutdowns < MaxShutdowns
  PROVE  LInv'
<1>1. /\ pc' = "jobs" /\ shutdowns' = shutdowns + 1 /\ down' = <<>>
      /\ UNCHANGED <<errs, conf, held, live, manager, cache, store, chain, checks, given, order,
                     up, requests, shut, writing>>
  BY StepsAre DEF BeginShutdown, users, wiring, modules
<1>2. expired' \in BOOLEAN /\ (expired \/ late => expired')
  BY DEF BeginShutdown, LInv, AppTypeOK
<1>3. /\ shutdowns \in Nat
      /\ pc \notin {"stopped", "panicked"} =>
           shutdowns = 0 /\ down = <<>> /\ errs = {} /\ shut = {}
      /\ shutdowns + 1 \in 0..MaxShutdowns
  <2>1. shutdowns \in 0..MaxShutdowns /\ MaxShutdowns \in Nat /\ MaxShutdowns # 0
    BY DEF LInv, AppTypeOK
  <2>2. pc \notin {"stopped", "panicked"} =>
          shutdowns = 0 /\ down = <<>> /\ errs = {} /\ shut = {}
    BY DEF LInv, NoShutdownYet, Booting, Serving
  <2> QED BY <2>1, <2>2
<1>4. AppTypeOK'
  <2>1. down' \in Seq(Range(order')) /\ pc' \in Range(Steps)
    BY <1>1, StepsAre, EmptySeq
  <2> QED BY <1>1, <1>2, <1>3, <2>1 DEF LInv, AppTypeOK
<1>5. Unloaded' /\ NoShutdownYet'
  <2>1. shutdowns' > 0
    BY <1>1, <1>3
  <2> QED BY <1>1, <2>1 DEF Unloaded, NoShutdownYet, Booting, Early, Serving
<1>6. HeldIsOpen'
  BY <1>1 DEF LInv, HeldIsOpen, Booting, Early, Serving
<1>7. ServesWhole'
  <2>1. CASE pc = "draining" /\ requests = 0
    BY <1>1, <2>1 DEF LInv, ServesWhole, Serving
  <2>2. CASE pc = "draining" /\ late
    <3>1. expired'
      BY <1>2, <2>2
    <3> QED BY <1>1, <2>2, <3>1 DEF LInv, ServesWhole, Serving
  <2>3. CASE pc \in {"ready", "failed", "stopped", "panicked"}
    <3>1. ~(requests > 0) \/ expired'
      BY <1>2, <2>3 DEF LInv, ServesWhole, Serving
    <3> QED BY <1>1, <2>3, <3>1 DEF LInv, ServesWhole, Serving
  <2> QED BY <2>1, <2>2, <2>3
<1>8. Released'
  BY <1>1, ClosedAfterModules DEF Released, AfterModules, AfterJobs
<1>9. InOrder'
  <2>1. Len(down') = 0 /\ Len(order) \in Nat
    BY <1>1, Sequences DEF LInv
  <2>2. pc \notin {"stopped", "panicked"} => Left' = Left
    BY <1>1, <1>3 DEF Left
  <2>3. shutdowns' <= 1 => pc \notin {"stopped", "panicked"} /\ shutdowns <= 1
    BY <1>1, <1>3 DEF LInv, NoShutdownYet, Booting, Early, Serving
  <2>4. \A i, j \in DOMAIN order : i # j => order[i] # order[j]
    BY DEF LInv, InOrder
  <2>5. IsFiniteSet(up) /\ Len(down') <= Len(order)
    BY <2>1 DEF LInv, InOrder
  <2>6. shutdowns' <= 1 =>
          \E n \in 0..Len(order) : \A i \in DOMAIN order :
            IF i <= Left' THEN order[i] \in up <=> i <= n ELSE order[i] \in up => order[i] \in errs
    BY <2>2, <2>3 DEF LInv, InOrder
  <2>7. \A i \in DOMAIN order : ~(i > Left')
    BY <1>1, <2>1, Sequences DEF LInv, Left
  <2> QED BY <1>1, <2>1, <2>4, <2>5, <2>6, <2>7 DEF InOrder, Early
<1>10. ReleasedBefore'
  <2>1. CASE pc = "stopped"
    BY <1>1, <2>1 DEF LInv, Released, Closed, Store, AfterJobs, AfterModules, ReleasedBefore
  <2>2. CASE pc = "panicked"
    BY <1>1, <2>2 DEF LInv, ClosedOnce, ReleasedBefore
  <2>3. CASE pc \notin {"stopped", "panicked"}
    BY <1>1, <1>3, <2>3 DEF ReleasedBefore
  <2> QED BY <2>1, <2>2, <2>3
<1>11. ClosedOnce'
  <2>1. shutdowns' <= 1 => shut = {}
    BY <1>1, <1>3 DEF LInv, NoShutdownYet, Booting, Early, Serving
  <2> QED BY <1>1, <2>1 DEF ClosedOnce
<1> QED BY <1>4, <1>5, <1>6, <1>7, <1>8, <1>9, <1>10, <1>11 DEF LInv

LEMMA DrainKeeps == LInv /\ (Drain \/ CallShutdown) => LInv'
<1> SUFFICES ASSUME LInv, Drain \/ CallShutdown PROVE LInv'
  OBVIOUS
<1>1. CASE Drain
  BY <1>1, BeginKeeps DEF Drain
<1>2. CASE CallShutdown
  BY <1>2, BeginKeeps DEF CallShutdown
<1> QED BY <1>1, <1>2

LEMMA ExpireKeeps == LInv /\ Expire => LInv'
<1> SUFFICES ASSUME LInv, Expire PROVE LInv'
  OBVIOUS
<1>1. /\ expired' /\ expired' \in BOOLEAN
      /\ UNCHANGED <<pc, shutdowns, errs, down, conf, held, live, manager, cache, store, chain,
                     checks, given, order, up, requests, shut, writing>>
  BY DEF Expire, users, wiring, modules
<1>2. AppTypeOK'
  BY <1>1 DEF LInv, AppTypeOK
<1>3. Unloaded' /\ NoShutdownYet' /\ HeldIsOpen' /\ Released'
  BY <1>1 DEF LInv, Unloaded, NoShutdownYet, HeldIsOpen, Released
<1>4. ServesWhole' /\ InOrder'
  BY <1>1 DEF LInv, ServesWhole, InOrder, Left
<1>5. ReleasedBefore' /\ ClosedOnce'
  BY <1>1 DEF LInv, ReleasedBefore, ClosedOnce, Left
<1> QED BY <1>2, <1>3, <1>4, <1>5 DEF LInv
-----------------------------------------------------------------------------
(* Shutdown.                                                                *)

LEMMA StopJobsKeeps == LInv /\ StopJobs => LInv'
<1> SUFFICES ASSUME LInv, StopJobs PROVE LInv'
  OBVIOUS
<1>1. /\ pc = "jobs" /\ pc' = "modules" /\ manager' = FALSE
      /\ UNCHANGED <<down, shutdowns, expired, conf, held, cache, store, chain, checks, given,
                     order, up, requests, shut, writing>>
  BY AfterIs DEF StopJobs, users, wiring, modules
<1>2. PICK s \in SUBSET {"unlisted"} :
        live' = (IF manager THEN (live \ {"workers"}) \cup s ELSE live)
  BY DEF StopJobs
<1>3. /\ live' \subseteq live \cup {"unlisted"} /\ errs \subseteq errs' /\ errs' \subseteq errs \cup {"jobs"}
      /\ "workers" \in live' => "jobs" \in errs'
  <2>1. CASE manager
    BY <1>2, <2>1 DEF StopJobs
  <2>2. CASE ~manager
    BY <1>2, <2>2 DEF StopJobs, LInv, HeldIsOpen
  <2> QED BY <2>1, <2>2
<1>4. AppTypeOK'
  <2>1. pc' \in Range(Steps)
    BY <1>1, StepsAre
  <2> QED BY <1>1, <1>3, <2>1 DEF LInv, AppTypeOK
<1>5. Unloaded' /\ NoShutdownYet'
  BY <1>1 DEF LInv, Unloaded, NoShutdownYet, Booting, Early, Serving
<1>6. HeldIsOpen' /\ ServesWhole'
  BY <1>1, <1>3 DEF LInv, HeldIsOpen, ServesWhole, Booting, Early, Serving
<1>7. Released'
  BY <1>1, <1>3, ClosedAfterModules DEF Released, AfterModules, AfterJobs
<1>8. InOrder'
  <2>1. UNCHANGED Left /\ shutdowns' = shutdowns
    BY <1>1 DEF Left
  <2>2. shutdowns <= 1 => \E n \in 0..Len(order) : \A i \in DOMAIN order :
          IF i <= Left THEN order[i] \in up <=> i <= n ELSE order[i] \in up => order[i] \in errs'
    BY <1>3 DEF LInv, InOrder
  <2>3. \A i \in DOMAIN order : i > Left /\ order[i] \in up => order[i] \in errs'
    BY <1>1, <1>3 DEF LInv, InOrder
  <2> QED BY <1>1, <2>1, <2>2, <2>3 DEF LInv, InOrder, Early
<1>9. ReleasedBefore' /\ ClosedOnce'
  <2>1. live' \cap Store \subseteq live \cap Store /\ ("workers" \in live' => "workers" \in live)
    BY <1>3 DEF Store
  <2>2. ReleasedBefore'
    BY <1>1, <1>3, <2>1 DEF LInv, ReleasedBefore
  <2> QED BY <1>1, <2>2 DEF LInv, ClosedOnce, Left
<1> QED BY <1>4, <1>5, <1>6, <1>7, <1>8, <1>9 DEF LInv

LEMMA ModulesDoneKeeps == LInv /\ ModulesDone => LInv'
<1> SUFFICES ASSUME LInv, ModulesDone PROVE LInv'
  OBVIOUS
<1>1. /\ pc = "modules" /\ pc' = "otel" /\ Len(down) = Len(order)
      /\ UNCHANGED <<down, shutdowns, expired, errs, conf, held, live, manager, cache, store,
                     chain, checks, given, order, up, requests, shut, writing>>
  BY AfterIs DEF ModulesDone, users, wiring, modules, ending
<1>2. AppTypeOK'
  <2>1. pc' \in Range(Steps)
    BY <1>1, StepsAre
  <2> QED BY <1>1, <2>1 DEF LInv, AppTypeOK
<1>3. Unloaded' /\ NoShutdownYet' /\ HeldIsOpen' /\ ServesWhole'
  BY <1>1 DEF LInv, Unloaded, NoShutdownYet, HeldIsOpen, ServesWhole, Booting, Early, Serving
<1>4. up \subseteq errs
  <2>1. DOMAIN order = 1..Len(order) /\ Len(order) \in Nat /\ up \subseteq Range(order)
    BY Sequences DEF LInv, AppTypeOK
  <2>2. \A i \in DOMAIN order : i > Left
    BY <1>1, <2>1 DEF Left
  <2> QED BY <1>1, <2>1, <2>2 DEF LInv, InOrder, Range
<1>5. Released'
  BY <1>1, <1>4 DEF LInv, Released, Closed, Store, AfterModules, AfterJobs
<1>6. InOrder'
  BY <1>1 DEF LInv, InOrder, Left, Early
<1>7. ReleasedBefore' /\ ClosedOnce'
  BY <1>1 DEF LInv, ReleasedBefore, ClosedOnce, Left
<1> QED BY <1>2, <1>3, <1>5, <1>6, <1>7 DEF LInv

(* The next module, from the last to the first, is shut down or fails.     *)
LEMMA ModuleCalled ==
  ASSUME LInv, ShutdownModule, order[Left] \notin shut
  PROVE  LInv'
<1> DEFINE m == order[Left]
<1>1. /\ pc = "modules" /\ Len(down) < Len(order) /\ down' = Append(down, m)
      /\ UNCHANGED <<pc, shutdowns, expired, conf, held, live, manager, cache, store,
                     chain, checks, given, order, requests, writing>>
  BY DEF ShutdownModule, users, wiring, Left
<1>2. \/ up' = up \ {m} /\ errs' = errs /\ shut' = shut \cup ({m} \cap up \cap Once)
      \/ up' = up /\ errs' = errs \cup {m} /\ shut' = shut
  BY DEF ShutdownModule, Left
<1>3. /\ DOMAIN order = 1..Len(order) /\ Len(order) \in Nat /\ Len(down) \in Nat
      /\ down \in Seq(Range(order))
  BY Sequences DEF LInv
<1>4. Left \in DOMAIN order /\ m \in Range(order)
  BY <1>1, <1>3 DEF Left, Range
<1>5. Len(down') = Len(down) + 1 /\ Left' = Left - 1 /\ down' \in Seq(Range(order))
  BY <1>1, <1>3, <1>4 DEF Left
<1>6. up' \subseteq up /\ errs \subseteq errs' /\ (m \in up' => m \in errs')
  BY <1>2
<1>7. \A i \in DOMAIN order : i # Left => (order[i] \in up' <=> order[i] \in up)
  BY <1>2, <1>4 DEF LInv, InOrder
<1>8. AppTypeOK'
  BY <1>1, <1>2, <1>4, <1>5 DEF LInv, AppTypeOK
<1>9. Unloaded' /\ NoShutdownYet' /\ HeldIsOpen' /\ ServesWhole'
  BY <1>1 DEF LInv, Unloaded, NoShutdownYet, HeldIsOpen, ServesWhole, Booting, Early, Serving
<1>10. Released'
  BY <1>1, <1>6, ClosedAfterModules DEF LInv, Released, AfterModules, AfterJobs
<1>11. InOrder'
  <2>1. IsFiniteSet(up')
    <3>1. up' = up \ {m} \/ up' = up
      BY <1>2
    <3> QED BY <3>1, FS_RemoveElement DEF LInv, InOrder
  <2>2. \A i \in DOMAIN order : i > Left' /\ order[i] \in up' => order[i] \in errs'
    BY <1>1, <1>3, <1>4, <1>5, <1>6 DEF LInv, InOrder, Left
  <2>3. shutdowns <= 1 =>
          \E n \in 0..Len(order) : \A i \in DOMAIN order :
            IF i <= Left' THEN order[i] \in up' <=> i <= n
            ELSE order[i] \in up' => order[i] \in errs'
    <3> SUFFICES ASSUME shutdowns <= 1
                 PROVE  \E n \in 0..Len(order) : \A i \in DOMAIN order :
                          IF i <= Left' THEN order[i] \in up' <=> i <= n
                          ELSE order[i] \in up' => order[i] \in errs'
      OBVIOUS
    <3>1. PICK n \in 0..Len(order) : \A i \in DOMAIN order :
            IF i <= Left THEN order[i] \in up <=> i <= n ELSE order[i] \in up => order[i] \in errs
      BY DEF LInv, InOrder
    <3>2. \A i \in DOMAIN order : i <= Left' => (order[i] \in up' <=> i <= n)
      BY <1>3, <1>4, <1>5, <1>7, <3>1
    <3>3. \A i \in DOMAIN order : ~(i <= Left') => (order[i] \in up' => order[i] \in errs')
      BY <1>3, <1>4, <1>5, <2>2
    <3> QED BY <3>2, <3>3
  <2>4. Len(down') <= Len(order) /\ \A i, j \in DOMAIN order : i # j => order[i] # order[j]
    BY <1>1, <1>3, <1>5 DEF LInv, InOrder
  <2> QED BY <1>1, <2>1, <2>2, <2>3, <2>4 DEF InOrder, Early
<1>12. ReleasedBefore'
  BY <1>1, <1>6 DEF LInv, ReleasedBefore
<1>13. ClosedOnce'
  <2>1. \A i \in DOMAIN order : order[i] \in shut' => order[i] \in shut \/ i = Left
    BY <1>2, <1>4 DEF LInv, InOrder
  <2>2. \A i \in DOMAIN order : i > Left \/ i = Left => i > Left'
    BY <1>3, <1>4, <1>5
  <2> QED BY <1>1, <2>1, <2>2 DEF LInv, ClosedOnce
<1> QED BY <1>8, <1>9, <1>10, <1>11, <1>12, <1>13 DEF LInv

(* A module that panics has been shut down before, by another call.        *)
LEMMA ModulePanics ==
  ASSUME LInv, ShutdownModule, order[Left] \in shut
  PROVE  LInv'
<1>1. /\ pc = "modules" /\ Len(down) < Len(order) /\ pc' = "panicked"
      /\ UNCHANGED <<shutdowns, expired, conf, held, live, manager, cache, store, chain, checks,
                     given, order, requests, writing, down, up, errs, shut>>
  BY DEF ShutdownModule, users, wiring, Left
<1>2. Left \in DOMAIN order /\ ~(Left > Left)
  BY <1>1, Sequences DEF LInv, Left
<1>3. shutdowns > 1
  <2>1. shutdowns \in Nat
    BY Counted
  <2>2. ~(shutdowns <= 1)
    BY <1>2 DEF LInv, ClosedOnce
  <2> QED BY <2>1, <2>2
<1>4. AppTypeOK'
  BY <1>1 DEF LInv, AppTypeOK
<1>5. Unloaded' /\ NoShutdownYet' /\ HeldIsOpen' /\ ServesWhole'
  BY <1>1, <1>3
     DEF LInv, Unloaded, NoShutdownYet, HeldIsOpen, ServesWhole, Booting, Early, Serving
<1>6. Released' /\ ReleasedBefore' /\ ClosedOnce'
  <2>1. pc' \notin AfterJobs /\ \A s \in Store : pc' \notin Closed[s]
    BY <1>1, ClosedAfterModules DEF AfterModules, AfterJobs
  <2>2. Released'
    BY <2>1 DEF Released, AfterModules
  <2>3. ReleasedBefore'
    BY <1>1 DEF LInv, ReleasedBefore
  <2> QED BY <1>1, <1>3, <2>2, <2>3 DEF LInv, ClosedOnce, Left
<1>7. InOrder'
  BY <1>1, <1>3 DEF LInv, InOrder, Left, Early
<1> QED BY <1>4, <1>5, <1>6, <1>7 DEF LInv

LEMMA ShutdownModuleKeeps == LInv /\ ShutdownModule => LInv'
BY ModuleCalled, ModulePanics

LEMMA CloseKeeps == LInv /\ Close => LInv'
<1> SUFFICES ASSUME LInv, Close PROVE LInv'
  OBVIOUS
<1>1. /\ pc \in Store /\ pc' = After(pc)
      /\ UNCHANGED <<down, shutdowns, expired, conf, held, manager, cache, store, chain, checks,
                     given, order, up, requests, shut, writing>>
  BY DEF Close, users, wiring, modules
<1>2. /\ live' \subseteq live /\ errs \subseteq errs' /\ errs' \subseteq errs \cup Store
      /\ pc \in live' => pc \in errs'
  BY DEF Close
<1>3. \A s \in Store : pc' \in Closed[s] => s = pc \/ pc \in Closed[s]
  BY <1>1, AfterIs DEF Store, Closed
<1>4. pc \in AfterModules /\ pc' \in AfterModules
  BY <1>1, AfterIs DEF Store, AfterModules, AfterJobs
<1>5. AppTypeOK'
  <2>1. pc' \in Range(Steps)
    BY <1>4, StepsAre DEF AfterModules, AfterJobs
  <2> QED BY <1>1, <1>2, <2>1 DEF LInv, AppTypeOK
<1>6. Unloaded' /\ NoShutdownYet'
  BY <1>1, <1>4 DEF LInv, Unloaded, NoShutdownYet, Booting, Early, Serving, AfterModules, AfterJobs
<1>7. HeldIsOpen' /\ ServesWhole'
  BY <1>1, <1>2, <1>4
     DEF LInv, HeldIsOpen, ServesWhole, Booting, Early, Serving, AfterModules, AfterJobs
<1>8. Released'
  BY <1>1, <1>2, <1>3, <1>4 DEF LInv, Released, AfterModules, AfterJobs
<1>9. InOrder'
  <2>1. UNCHANGED <<Left, shutdowns>>
    BY <1>1 DEF Left
  <2>2. shutdowns <= 1 => \E n \in 0..Len(order) : \A i \in DOMAIN order :
          IF i <= Left THEN order[i] \in up <=> i <= n ELSE order[i] \in up => order[i] \in errs'
    BY <1>2 DEF LInv, InOrder
  <2> QED BY <1>1, <1>4, <2>1, <2>2 DEF LInv, InOrder, Early, AfterModules, AfterJobs
<1>10. ReleasedBefore' /\ ClosedOnce'
  <2>1. ReleasedBefore'
    BY <1>1, <1>2 DEF LInv, ReleasedBefore
  <2> QED BY <1>1, <1>4, <2>1 DEF LInv, ClosedOnce, Left, AfterModules, AfterJobs
<1> QED BY <1>5, <1>6, <1>7, <1>8, <1>9, <1>10 DEF LInv
-----------------------------------------------------------------------------
LEMMA AppNextKeeps == LInv /\ [AppNext]_appVars => LInv'
<1> SUFFICES ASSUME LInv, [AppNext]_appVars PROVE LInv'
  OBVIOUS
<1>1. CASE UNCHANGED appVars
  <2>1. UNCHANGED <<pc, conf, held, live, manager, requests, cache, store, chain, checks,
                    given, order, up, down, errs, shutdowns, expired, shut, writing>>
    BY <1>1 DEF appVars, users, wiring, modules, ending
  <2>2. AppTypeOK'
    BY <2>1 DEF LInv, AppTypeOK
  <2>3. Unloaded' /\ NoShutdownYet'
    BY <2>1 DEF LInv, Unloaded, NoShutdownYet
  <2>4. HeldIsOpen' /\ ServesWhole'
    BY <2>1 DEF LInv, HeldIsOpen, ServesWhole
  <2>5. Released'
    BY <2>1 DEF LInv, Released
  <2>6. InOrder'
    <3>1. UNCHANGED Left
      BY <2>1 DEF Left
    <3> QED BY <2>1, <3>1 DEF LInv, InOrder
  <2>7. ReleasedBefore' /\ ClosedOnce'
    BY <2>1 DEF LInv, ReleasedBefore, ClosedOnce, Left
  <2> QED BY <2>2, <2>3, <2>4, <2>5, <2>6, <2>7 DEF LInv
<1>2. CASE Boot
  BY <1>2, LoadConfigKeeps, SetupLoggingKeeps, OpenDatabaseKeeps, NewJobManagerKeeps,
     SetPersistenceKeeps, ConnectCachesKeeps, WiringKeeps, RegisterKeeps, InitializeKeeps
     DEF Boot
<1>3. CASE ListenAndServe \/ Request \/ Interrupt \/ CallShutdown \/ Expire \/ Drain
  BY <1>3, ServeKeeps, RequestKeeps, DrainKeeps, ExpireKeeps
<1>5. CASE SaveJobs \/ ScaleJobs
  BY <1>5, SaveJobsKeeps, ScaleJobsKeeps
<1>4. CASE StopJobs \/ ShutdownModule \/ ModulesDone \/ Close
  BY <1>4, StopJobsKeeps, ShutdownModuleKeeps, ModulesDoneKeeps, CloseKeeps
<1> QED BY <1>1, <1>2, <1>3, <1>4, <1>5 DEF AppNext, Halt

(* What holds of an application wherever New failed, and in the middle of  *)
(* any of its shutdowns.                                                   *)
THEOREM AppInvariant == AppSpec => []LInv
<1>1. AppInit => LInv
  BY AppInitInv
<1>2. LInv /\ [AppNext]_appVars => LInv'
  BY AppNextKeeps
<1> QED BY <1>1, <1>2, PTL DEF AppSpec

(* The types of what New builds and Shutdown takes down.                   *)
THEOREM AppTypesCorrect == AppSpec => []AppTypeOK
BY AppInvariant, PTL DEF LInv

(* Shutdown of gemquick.go lets go of the stores, the listed workers and   *)
(* the modules that New left to the application, or says of one that it    *)
(* could not, in any environment, whatever step fails or panics.           *)
THEOREM ShutdownReleasesTheorem == AppSpec => []ShutdownReleases
BY AppInvariant, AppImplies, PTL

(* InitializeAll and ShutdownAll of module.go: no module is up without     *)
(* those that were registered before it, however many there are.           *)
THEOREM DependenciesUpTheorem == AppSpec => []DependenciesUp
BY AppInvariant, AppImplies, PTL

(* ListenAndServe of gemquick.go: requests in time find open what New      *)
(* opened, and a save of jobs its database unless Stop has returned.       *)
THEOREM InUseIsOpenTheorem == AppSpec => []InUseIsOpen
BY AppInvariant, AppImplies, PTL
=============================================================================
