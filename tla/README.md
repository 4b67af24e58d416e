# tjo: a TLA+ verification project

This directory holds a TLA+ model of [tjo](../src/README.md), a web framework
written in Go: the TLC runs that check it on small instances, and proofs of its
most important theorems, checked by TLAPS for every value of the constants.

`PROJECT.json` is the index: components, runs, the lines of code each
definition stands for (`map`), the hazards the properties are aimed at, the
mutations of the code each property must detect, the disagreements between the
code and its own documentation (`findings`), and the theorems.

## 1. Inventory

The framework is one process. `tjo.New` (gemquick.go) builds an application
from configuration, `ListenAndServe` runs it, `Shutdown` takes it down; most of
the subsystems below live in that process and many of them own goroutines. The
command line tool (cmd/tjo) is a program of its own, which writes applications.

| Component | State | Operations | What is hard | What makes it correct |
|---|---|---|---|---|
| **Jobs** (jobs/) | queues of shared `*Job`s, worker goroutines, handlers and metrics of the processor, the manager's context | Enqueue, Pop, ProcessJob, retry, dead-letter, Scale/Pause/Resume, Start/Stop, the scheduled-job poller | the poller and the workers write `job.Status` without a lock; size check and push are separate; retries; cancellation | no job is lost, duplicated or run before its time; dead letters have used their attempts; metrics add up; cancellation stops goroutines |
| **Job persistence** (jobs/manager.go) | rows of the jobs table | schema, save on Enqueue, periodic save, save in Stop | three goroutines copy jobs that go on changing; a late save overwrites a newer row | what Enqueue and Stop have returned for is in the table |
| **WebSocket hub** (websocket/) | clients, rooms, send buffers, four channels | register, unregister, broadcast, rooms, shutdown, read and write pumps | three locks, non-blocking sends, closed channels, slow clients | rooms and clients agree on who is in them; nothing is sent on a closed channel; pumps end |
| **Rate limiters** (api/ratelimit.go) | token buckets, sliding windows, per key | Allow, Reset, cleanup | refill arithmetic, an idle bucket forgotten and recreated full | requests allowed in any window are bounded; who waits as told is let in |
| **IP throttle** (security/throttle.go) | per-address and per-subnet statistics, blacklist, timers | Allow, RecordFailure, cleanup, blocking | two locks in opposite orders, timers that lift a penalty, several penalties at once | a block ends; who waits for a lock for ever waits in a known cycle |
| **Security monitor** (security/monitor.go) | blocked addresses, counts of events | RecordEvent, IsIPBlocked, cleanup | expiry seen and deleted under a read lock | blocked exactly as long as deserved |
| **Sessions** (session/) | sessions of tokens, one copy per request | LoginUser, LogoutUser, ValidateSession, rotation | requests that overlap load and commit the same session | a token from before a login is not logged in by it |
| **Cache** (cache/) | keys with expiry, shared or own | Set, Get, Has, Forget, Empty, EmptyByMatch | keys collected and deleted one by one; prefixes; swallowed errors | what is read is what was set last |
| **Query builder, models, transactions** (database/) | clauses collected so far; a table under paging; a connection pool | the chain, Get, First, Count, writes, Chunk, ChunkByID, Transaction, Check | a builder is never reset; paging over rows that change; errors and panics half-way | placeholders meet their values; each row once; settled and given back |
| **Seeder** (database/seeder.go) | tables | RunAll, Run, TruncateTable, BulkInsert | no transaction; failure, kill, overlapping runs | seeding again repairs |
| **Mail** (email/) | jobs and results channels | Queue, ListenForMail, Send, Initialize, Shutdown | bounded channels, nobody reads results, receive on a closed channel | accepted mail is received once and in order |
| **Lifecycle, configuration, routes** (gemquick.go, module.go, driver.go, routes.go, config/) | what is set, open and up | New, InitializeAll, ListenAndServe, Shutdown | a step of several fails half-way; the time of a shutdown runs out | what the application holds is closed or reported; dependencies stay up; what is in use is open |
| **Logging and metrics** (logging/) | counters, a histogram | the metrics middleware, Observe, Value | non-atomic updates under a read lock | counts add up |
| **Telemetry** (otel/) | the provider | Validate, start, Shutdown | an exporter that fails | started only if valid, shut down once |
| **Command line tool** (cmd/tjo) | files, schema, environment | make, migrate, new, the MCP server | commands that fail half-way and are repeated | the developer's work is kept |
| **API helpers, CSRF, headers, validation** (api/, security/) | none | functions of a request | | see section 7 |
| **File systems, SMS, rendering, URL signing** | none | calls to external services, text generation | I/O | see section 7 |

The components interact as follows. `New` builds them in a fixed order;
`ListenAndServe` starts the job manager; modules (email, SMS, OpenTelemetry,
WebSocket) are initialised and shut down through the module registry; the rate
limiters, the throttle, the monitor, sessions and metrics are HTTP middleware,
called by one goroutine per request; the job manager's workers call handlers
registered by the application. Inside a component the goroutines share memory
under mutexes, or, in the job system, without one.

## 2. Modules

| Module | Models | State and actions against the code |
|---|---|---|
| `Jobs` | the job system as a whole: producers, workers, processor, poller, manager | one variable per shared field of `Job` (`status`, `attempts`, `sched`), the two queues as sets, a place for each goroutine; every unlocked write of `job.Status` is an action of its own, every critical section of `mq.mutex` one action |
| `JobLifecycle` | abstract: the life of one job | stages and tries, without queues, workers or locks |
| `MemoryQueue` | jobs/queue.go: the list, its sort, the scan of `Pop` | the slice is a sequence; `Push` sorts as Go's insertion sort does; `Pop` holds the lock over several steps because `IsReady` reads the clock anew for each job |
| `JobBag` | abstract: a bag of jobs with weights | what `Jobs` assumes of a queue |
| `WorkerPool` | jobs/worker.go: the pool map, ids, scaling, pausing, stopping | an operation of the pool is one step (it holds `wp.mutex`); the goroutine of a worker has its own places |
| `JobStore` | the jobs table: Enqueue, ticker and Stop | a copy of a job is the number of edits it has seen; copying and writing are two steps, and either write may fail |
| `Hub` | websocket/hub.go: hub goroutine, rooms, both pumps of each client, callers | every critical section of `h.mu`, `room.mu`, `client.mu` is an action, so `JoinRoom` has three (`JoinRoom`, `enterRoom`, `recordRoom`); what is done under `h.mu` is one, with the sections of `room.mu` and `client.mu` that `leaveRoom` has inside it; a room object is its name with a generation, since `JoinRoom` may hold one that `leaveRoom` has deleted |
| `Configuration`, `Lifecycle` | config/config.go; gemquick.go, module.go, driver.go, routes.go | an action per step of `New`, with its error, and per step of `Shutdown`; `held` are the fields that are set, `live` what is open or running, the pool of a failed Ping and workers on no list among it; `writing` is a save of jobs under way, `shut` which modules have closed a channel that cannot be closed again; an environment is a function of its variables |
| `Mailer` | email/mail.go, email/module.go | the two channels; the listener has a place for what it does next, and a message fails at any step of its transport |
| `Seeding` | database/seeder.go | tables are sequences of records, a record the set of its columns; a row is inserted by a step |
| `Generators` | cmd/tjo | a command is a plan of steps on files and on the schema; the shell and the MCP server differ in what fails |
| `Application` | composition: `Lifecycle`, `Mailer`, `MemoryQueue`, `WorkerPool`, `JobStore`, `Seeding`, `Generators` | a behaviour is about one of them, chosen at the start |
| `LimiterBase`, `TokenBucket`, `SlidingWindow` | api/ratelimit.go: both limiters | `Allow`, `Reset` and a cleanup round hold the mutex throughout, so each is one action; `Allow` is split by its answer |
| `WindowLimit` | abstract: what a sliding window promises | when requests were allowed, nothing of how they are stored |
| `Throttle` | security/throttle.go: requests, readers of the statistics, cleanup, timers | `t.mu` is Go's RWMutex (a `Lock` is announced, then waits, and keeps later readers out), `stats.mu` an owner; `Allow` has a place before each lock it asks for; statistics are objects that a call may hold after their deletion; an address of the whitelist goes past them to the handler, but its failures are counted; clocks are relative |
| `Monitor` | security/monitor.go | events by their times; a reader's look at a block and its deletion are two steps |
| `Metrics` | logging/middleware.go, logging/metrics.go | a request has a place before each counter; the buckets of a histogram are updated and read one by one |
| `Sessions` | session/session.go, with scs as external | the store and a copy per request; load, rotate, handle, commit |
| `Cache` | cache/cache.go, cache/badger_cache.go | keys to values; `EmptyByMatch` collects, then deletes one by one (redis) or in a transaction (badger); `lost` are the keys whose value badger drops without an error |
| `QueryBuilder` | database/query_builder.go, database/model.go | a builder is a record of its clauses, a value the place it was given at, a statement its clauses with the values their placeholders stand for |
| `Chunking` | `Chunk`, `ChunkByID` | rows are their places in the order asked for, which may be total or have ties; the peek, the fetch and the callback are steps, and the reading of a result may fail after any of its rows |
| `Transactions` | `Transaction`, database/health.go | a pool of connections; callers with the depth of their transactions |
| `Middleware` | composition of the nine before | a behaviour is about one of them, chosen at the start |
| `JobsProofs`, `HubProofs`, `ThrottleProofs`, `LifecycleProofs` | the theorems about the module of that name | |
| `LimiterProofs` | the theorems about `TokenBucket`, `SlidingWindow` and `Monitor` | |
| `JobServiceProofs` | those about `WorkerPool`, `JobStore` and `MemoryQueue` | |
| `MiddlewareProofs` | those about `Sessions`, `Cache`, `Transactions`, `Chunking`, `Metrics`, `QueryBuilder` and the composition | |
| `ApplicationProofs` | those about `Mailer`, `Seeding`, `Generators` and the composition | |

`MCJobs`, `MCHub`, `MCApplication` and `MCMiddleware` give the constants their
small values. An operator whose comment begins with *Mutant* is a plausible slip
in the code that stands beside the definition it would replace: no specification
uses it, and `PROJECT.json` names the property that has to notice it.

`Jobs` uses a queue only through what `JobBag` says, and `MemoryQueue` is shown
to implement `JobBag`, so the two levels fit together. `Jobs` has one user queue
(queues share nothing but the processor and the poller) and it has workers start
and stop at any time, which is more than `WorkerPool` lets happen. The parts of
`Application` and of `Middleware` share no state in the code; where they meet, a
module has the effect of the other as a step of its own (`Lifecycle` has the end of
the job manager and of each module, which may fail). A variable says which part
a behaviour is about, so that one instance checks them all without multiplying
their states.

## 3. Runs

Every bound is a CONSTANT of its `.cfg`, or a definition of the MC module.

| Run | Instance | What it shows |
|---|---|---|
| `jobs` | 2 jobs (one delayed and tried twice, one without handler), an initial worker and a later one, 2 Enqueue calls one after the other or at once, queue of 1, retries enqueued again | one owner per job; the queue overrun and the dead letters are bounded; the metrics reconcile; no start before `ScheduledAt`; refinement of `JobLifecycle`; a queued job is taken; cancellation ends workers and poller |
| `jobs_completed`, `jobs_attempts`, `jobs_retry_lost` | as above, 2 jobs, 1 job and 1 job | findings, section 6 |
| `application` | see below | what a shutdown releases, dependencies, use of what is open; mail in order and handled; rows; seeding again; kept work; pool and queue, with the refinement of `JobBag` |
| `pool_pause` | 1 queue, 5 workers | finding |
| `hub_safety` | 2 clients that join and leave, 1 room name with 2 objects, all buffers of 1, 2 broadcasts to all or to the room | no closed channel among the registered, rooms and clients agree, broadcasts without gaps |
| `hub_live` | 2 clients, broadcasts and replies, no rooms | the pumps of closed connections end |
| `hub_shutdown`, `hub_panic` | 1 client | findings |
| `middleware` | see below | burst bound, kept reset times, exactness of the sliding window; blocks, timers and lock cycles of the throttle; blocks of the monitor; metrics; logins; cache; arguments; paging; transactions |
| `chunk_by_id` | 3 rows, chunks of 2, a table that stands still | finding |

`application`: 5 environments (nothing set; every service; three that differ in
the spelling of a value, a number out of range, a missing variable), no modules,
three modules or a name given twice, 1 request in flight, 2 calls of Shutdown;
4 mails over buffers of 1; 4 jobs of a queue, of every mix of a normal, a high
and an unknown priority, two of the same time, one falling due while Pop scans; a pool of
2 queues and 4 workers, targets up to 2; 1 stored job, edited twice, with 2
callers of Enqueue, the ticker and Stop; 2 seeding runs over a table with a
record that lacks a column and one of a single record; 2 models, one name within
the other, 1 page, 2 commands. `middleware`: 1 key, a bucket of 10 refilled by 1
every 2 units, a window of 2 requests in 3 units, 22 units of time; throttle: 1
address, 3 statistics objects, 2 requests, 1 reader, thresholds and penalties of
1, the address on no list, or on the whitelist and with requests until more than 6
timers sleep for it; monitor: 1 address, 2 visitors, a threshold of 2, blocks of 2, 7 units, 5
events; metrics: 2 requests at once and 2 served in all, 2 buckets and a longer duration;
2 requests and 3 tokens of sessions; 3 keys and a foreign one, 2 Sets,
2 requests that empty; chains of 2 calls, with a union that is refused and one
that is not; 4 rows in chunks of 2, one change; 2 transactions with one inside,
2 connections.

Why the bounds are enough. Buffers and queues of one element are full and empty
within two steps, so both sides of every capacity test happen; three mails fill
both channels and the hands of the listener, and the fourth makes a caller wait. Two clients, two
workers, two producers, two requests are what the races in this code need: each of
them is between two goroutines over one object. Two room objects let a deleted
one and its successor exist together. The clock of the limiters passes ten
intervals, after which the code forgets a bucket, and every operation of a
limiter touches one key, so one key shows all it can do. The jobs of `jobs` differ in what can
become of them: one is delayed, fails, waits for its retry and is buried, the other
has no handler; an undelayed one is what the first becomes once its time has come.
Two jobs are enough for the overrun, because the history `peak` tells a race from
calls that follow one another: two calls at once put both jobs into the queue of 1,
and calls one by one must keep it at 1.
`hub_live` has no rooms, because a room is what breaks the hub (`hub_shutdown`,
`hub_panic`) and `PumpsEnd` says nothing of a hub that has broken down; its other
clients' requests only put messages into channels, as the application's broadcasts
do. In `hub_safety` clients join and leave a room and the application sends to it,
which is the same call as a client's. The throttle has four setups
(two requests whose failures pile up; one request with reader and
cleanup; two requests with cleanup and without penalties; an address of the
whitelist), because together they
would multiply the clocks of deleted statistics without a new interaction: a
lock cycle needs one request, and the double check of `getIPStats` needs two. A
penalty of 1, a timer of 2 and an idle limit of 1 minute let every order of the
three ends happen. The monitor's clock passes three blocks. Four rows make two
full chunks and an empty one. Three
modules let the middle one fail; the second Shutdown is the one that finds things
closed, and that panics at the email module (`Once`). A chain of two calls has every pair of calls of the builder in both
orders, and a disorder of placeholders is between two clauses. Two connections are
what two outer transactions use up, so that an inner one waits. Two commands are a
failed one and its repetition. The theorems of section 5 lift the bounds for
the properties they cover.

### Fairness

`Jobs`: every goroutine that can take a step takes one, handlers return and time
passes (weak fairness of workers, producers, poller, clock). The poller's
`select` chooses at random between its ticker and the cancelled context, so it
cannot choose the ticker for ever: strong fairness of its exit. `Hub`: likewise,
with strong fairness of the cases `register`, `unregister` and `ctx.Done` of the
hub's `select`, and of the read pump's end, because a client whose connection is
closed has sent only finitely many messages. `Application`: weak fairness of the
goroutine of the mail listener, and nothing else; that somebody reads the results
is a premise of `MailHandled`, because nothing in the framework does. Nothing
obliges the application to enqueue, start, stop or cancel, or a client to
connect. Deadlock checking is off where everything may come to rest: all bounds
used up (`application`, `middleware`, `chunk_by_id`, `pool_pause`), or all
connections gone or the process ended (`hub_*`).

## 4. What is abstracted

* Payloads, results, errors, events' contents, log lines and statistics.
* Time in `Jobs` and `MemoryQueue` is whether `ScheduledAt` lies ahead; in the
  limiters and the monitor it is a clock that goes on by one unit, finer than any
  duration. In `Sessions` and `Cache` anything may be old enough at any time.
* `Hub` leaves out OnConnect, OnDisconnect, OnJoinRoom and OnLeaveRoom, which are
  the application's; OnMessage is modelled by what it may call, `Client.Send`.
* A panic that nothing recovers ends the process, and the model with it. An
  application may recover the panic of a second `Shutdown` and call it again.
* The amounts of tokens in `Throttle`, which may give either answer; how long its
  subnets are unused; time between two ticks of its cleanup. A timer that is due
  and finds `stats.mu` free runs before another minute has passed.
* `RetryAfter` of the limiters, which is cut to whole seconds.
* `MemoryQueue` is the list below 12 jobs, where sort.Slice is an insertion sort.
* `Lifecycle`: a save of jobs is its beginning and its end, and scaling is which
  workers are left and on which list (`WorkerPool` and `JobStore` have the rest); the
  application scales no queue after it has called `Shutdown`.
* `Chunking`: conditions, columns and joins are the rows they select.
* `JobStore`: one Stop. `Cache`: the prefix is whose a key is. `QueryBuilder`:
  identifiers are valid or not. `Generators`: one file stands for those treated
  alike, and the texts of the templates are left out.
* Two writes of a map at once end a Go process; `Monitor` takes them as two steps.

## 5. Theorems

The theorems hold for every value of the constants: any jobs, workers, producers,
clients, rooms, messages, requests, keys, rows, modules and environments, and
every size of the buffers. They assume what the `ASSUME` of each module says of
its constants and nothing else: that sizes and times are numbers, that a value
which stands for "none" is not one of the others, that jobs, callers, rows and
requests are finitely many. Three of these assumptions carry an argument:
`MemoryQueueAssumption` bounds the jobs at 11, below which Go's sort.Slice is the
insertion sort of the model; `UnionAssumption` has the builder of a union
meet the property it shall have in the union (it is a builder itself); and
`SeedingAssumption` has no seeder without a record.

In each module an inductive invariant is shown to hold at first and to be kept by
every action, one lemma per action or group, and the listed theorems follow from it.

`JobsProofs`
* `TypeCorrect`, by one step per action.
* `OneOwnerTheorem`. `OneOwner` alone does not say which places exclude each
  other, so the invariant is `Ownership`: a job is somewhere, and any two places
  that could hold it are exclusive.
* `DeadLetterTheorem`, and `RunsBoundedTheorem`, which says that a job is executed
  once more than its `MaxAttempts` at most (`jobs_attempts` finds that once), rest on `Counting`: executions
  equal attempts, plus one from the moment a worker has begun an execution that
  `shouldRetryJob` has not judged yet. Both need `Ownership`, because a job with
  two owners could be counted twice.
* `DelayRespectedTheorem` is an action property; its invariant says that a job
  in the hands of a worker was due when it was popped, and that no one moves
  `ScheduledAt` while a worker holds it.
* `OverrunTheorem` counts the Enqueue calls that have passed the size check:
  queue and callers together stay below the limit plus `peak`, the most callers
  that ever were between their check and their push at one time.
* `MetricsReconcileTheorem`: each counter is a number of jobs and of workers at
  certain places (`Counted`), and a step moves one worker from one place to
  another.
* `RefinementTheorem`: every step of `Jobs` is a step of `JobLifecycle` or none,
  with the stage of a job computed from its owner.
* `CompletedTheorem` and `NoListenerNoRetry` say how far the findings
  `jobs_completed` and `jobs_retry_lost` go. Whatever the poller has a pointer to
  was scheduled (`SchedulesKept`), so a job that was neither delayed nor retried
  keeps the status `completed`, and only the poller takes it from another. A job
  that failed lies with the application after its first attempt (`RestsInv`), and
  runs once if no listener of the application enqueues it.

`HubProofs`
* `TypeCorrect`, in four groups of fields.
* `RegisteredStaysOpen`. Not inductive by itself: it needs that a client that
  has not registered yet is neither listed nor closed.
* `RoomsAgreeTheorem`. Not inductive by itself either: an object that
  `JoinRoom` makes must be empty, so nobody may hold, or be listed in, an object
  that is not made yet; and whoever is about to record its room is listed there
  unless `unlisted` names it. That history holds the clients whom a broadcast to the
  room removed, and those that entered an object which was deleted before.
* `NoGapTheorem`. `GapInv` follows the marks of the log, which are the broadcasts
  a client was there for: what it received and what waits in its buffer are
  together the log, or a prefix of it once it was removed (`GotInOrder`,
  `Served`), and a client that has not registered has neither (`Silent`).
  That the broadcasts in a buffer are those in its parts is `BroadcastsAre`'s
  recursion, unfolded by the least length at which it could fail.
* `OnlyRoomsBreakTheHub` names the only ways in which the hub can panic or wait for
  itself; all but the panics of callers lead through a room. With `NoRooms`, kept
  where nobody asks for `join_room`, `HubWithoutRoomsHolds` follows.

`LimiterProofs`
* `BucketBurstBounded`. An observer may begin to count at any time. `BucketBound`
  relates the tokens left and those allowed since to the refills of the intervals
  that lie in between; a bucket that was forgotten comes back full, but not
  before ten intervals, which refill it as well (`OldIsFull`). The bound needs
  capacity <= 10 * rate, and the property says so.
* `BucketHonoursReset` and `WindowHonoursReset`, from `BucketKeepsPromise` and
  `WindowKeepsPromise`: at the time a client was told, its request finds a token,
  or fewer requests than the limit.
* `WindowImplementsLimit`: the stored times that are younger than the window are
  the times at which the abstract limiter allowed. `Later`, the loop that filters
  them, keeps a suffix of an ordered list (`LaterIsRest`); hence filtering twice,
  or a cleanup round between, changes nothing.
* `MonitorBlockDeserved`. `Counted` relates the count of an address to its
  events, `BlockIs` its block to the event that caused it; a count is forgotten
  only when its events are all older than a block (`ExpiredIsOld`).

`ThrottleProofs`, for every number of requests, readers and addresses
* `ThrottleTypesCorrect`, with the mode of the RWMutex for each place.
* `BlocksEnd`: a blacklisted address has a timer. Inductive with the types, because
  a failure on statistics that cleanup has deleted meanwhile starts one as well.
* `FewTimersPending`: at most three timers of an address sleep for each request
  that there can be at once (finitely many: `IsFiniteSet(Call)`). `Spread` speaks of the totals of an address, how many
  of its timers are due within m minutes (`Pending` is the last of them). The
  failures since the penalty last began to run are a wave (`Wave`): while it runs
  no request is admitted (`OwnersAdmitted`), so the requests that can still fail
  (`NotYet`) only become fewer, and a wave has a timer for each of them at most. A
  penalty is half of the time that a timer sleeps, so the timers of two waves are
  all that is not due (`MinutePasses`, `TimerStarts`), beside those of one wave
  that are due and have not run. The timers that Lock() keeps from running are
  those of the one request that holds `stats.mu`, of a minute with no penalty. All
  this is of an address that is not on the whitelist: `trusted` are the statistics
  of the others, whose timers have no bound.
* `StatisticsExclusive` and `LoopsFindTheirEntries`, the mutual exclusion of
  `stats.mu` and of the loops under `t.mu`: a request at its second visit to `t.mu`
  may wait there with `stats.mu` in its hand, but it never changes the map.
* `SomebodyGoesOn`, `SubnetsCycle` and `CyclesAreForGood`. `CycleInv` says who is at
  which place whenever `stats.mu` or `t.mu` is taken (`OwnersHold`, `ModesOK`), and
  that a loop has entries left only while it runs (`LoopsLeft`). So if all wait, a
  loop waits for a call (`LoopWaitsForHolder`), that call for a writer
  (`HolderWaitsForWriter`), and the writer is the cleanup in its loop or waits for a
  reader in one: the two cycles (`WriterCycle`, `ReadersCycle`). Who is caught in a
  cycle stays caught, whatever the others do (`CaughtStays`).

`LifecycleProofs`. `LInv` says of every place of the main goroutine what New has
built and Shutdown taken down by then:
* `ShutdownReleasesTheorem` from `Released`: a step of the shutdown that is over
  has closed its service or reported it, for each step apart. A shutdown that
  panics follows one that has closed the stores (`ReleasedBefore`), since only a
  module that was shut down panics (`ClosedOnce`).
* `DependenciesUpTheorem` from `InOrder`: the modules that are up are the first
  ones of the registry, less those that the shutdown has called, which are the
  last ones. It is there that a name is registered once only.
* `InUseIsOpenTheorem` from `HeldIsOpen` and `ServesWhole`: nothing is closed
  before the jobs are stopped, and that is after the last request or the deadline.
  A save may still be under way then; where it finds the database closed, a shutdown
  has begun and `Stop` has returned.

`JobServiceProofs`
* `ListedRuns`. A new id must be given to a worker that nobody has listed or
  cancelled, so the invariant says that workers are created in their order
  (`CreatedInOrder`) and begin fresh (`NewIsFresh`).
* `PauseReachesAll` and `OnlyScalingDownLoses`. While the ids of a queue have no gap
  (`Gapless`), ScaleQueue gives each new worker an id that is free, so every
  worker that runs is listed (`RunningIsListed`); only scaling down to fewer, but
  some, makes a gap. This is the exact condition of the finding `pool_pause`.
* `QueuedStored`. What is not in the table yet is about to be written by the
  goroutine that has not returned (`EnqueueSaves`, `StopWillSave`), and nothing
  read is of the future (`NoMarkAhead`, `NoCopyAhead`), so that a copy once
  written is at least as new as the mark.
* `QueueServesInOrder` and `QueueImplementsBag`. A step of the insertion sort
  keeps the list ordered up to where it is (`InsertedIs`, `RoundsMake`); the scan
  of `Pop` has passed only jobs that were not ready (`Scanned`), so the first
  ready job it meets is the first in turn (`FirstInTurn`).

`MiddlewareProofs`
* `LoginsRenew`. All copies of a token's session agree on whether there is a user
  (`CopiesAgree`), no copy with a user is under a token that was a stranger's
  (`UsersAreKnown`), and who holds a revoked token held it when it was revoked
  (`RevokedIsHeld`): only such a request can commit it again.
* `CacheKept`, inductive with the types and with what a call that empties redis
  may delete (`DeletesMatching`). Of badger it says nothing about the keys in `lost`.
* `TransactionsSettle`. `CallerIs` gives, for each caller and each depth, what
  may have been written and answered there; the connections in use are as many
  as the open levels and those a panic has leaked.
* `ChunkOnce`. `Paged`: only rows before the offset were visited, and those are the
  least selected ones; those of the batch in hand are among the next ones; and as
  long as no result has failed (`broken`), that is all of them. That pages partition
  an ordered set is `LeastAdd`.
* `ByIDNeverAdvances`: the page of `ChunkByID` is the first one in every round, or
  what could be read of it, whatever the table and the size.
* `MetricsSum`. Each counter, bucket by bucket, is a number of requests at
  certain places (`Sums`, `BucketSum`), as with the metrics of the jobs.
* `ArgumentsAnswer`. A condition is kept with its values and both are emitted in
  one order (`Asked` of a concatenation is the concatenation: `AskedConcat`);
  so the values of a statement are those of its clauses, one after the other,
  whatever calls preceded it.
* `MiddlewareTypesCorrect`, `PartsPromise`, `LimitImplemented` and
  `ResetsHonoured` carry the theorems over to the composition: a step of it is a
  step of one part and leaves the others alone (`PartsBehave`).

`ApplicationProofs`
* `MailKeepsOrder`. `MailInv` gives every accepted mail its place: results,
  the hands of the listener and the channel are, in this order, the accepted ones.
* `SeedsComplete`. `Alone` says that no other run has touched the tables since
  this one began, `Through` which seeders it has done and how far it is with the
  one in hand; the tables of those done are `Whole`.
* `WorkKept`. A plan of any command consists of steps that its command may take
  (`StepsFor`, with a lemma per family of commands), so only `new` and the test of
  a controller write over a file; the schema is at a version whose predecessors
  have run (`UpKeepsOrder`, `DownKeepsOrder`).
* `ApplicationTypesCorrect`, `ApplicationPromises` and `ApplicationQueue` carry
  these and the theorems of `LifecycleProofs` and `JobServiceProofs` over to the
  composition.

Loops over lists (the sort, the filter of the window, the placeholders, the
broadcasts in a buffer, the sum of the timers) are recursive functions in the models. Their lemmas name
the equation that the function solves, show that it has a solution, and argue from
the least number, or the smallest set, for which the claim would fail.

Only model-checked: the liveness properties (`QueuedJobIsTaken`, `CancelledStops`,
`MailHandled`, `PumpsEnd`), which need fairness, and of `OnlyCyclesBlock` that the
guards which `CallCanGo` and `LoopCanGo` name are those of the actions: this is
about ENABLED. The rest of it, `GoesOn`, is proved (`SomebodyGoesOn`). Recursion is proved about as
above, because the induction theorems of the library take an operator as a
parameter; the modules have no RECURSIVE operator.

## 6. Findings

The last column names the theorem that says how far a finding goes: what still holds,
or what it takes.

| Run | What the code does | Its limits |
|---|---|---|
| `jobs_completed` | the poller writes `pending` over the status of a job that a worker has completed since the snapshot | `CompletedTheorem` |
| `jobs_attempts` | attempts are compared before they are incremented: a job that always fails is executed `MaxAttempts` + 1 times, where the test says `MaxAttempts` | `RunsBoundedTheorem` |
| `jobs_retry_lost` | a job scheduled for a retry is in no queue and is never executed again | `NoListenerNoRetry` |
| `pool_pause` | scaling down and up again overwrites the id of a running worker, which no pause or stop reaches any more | `PauseReachesAll`, `OnlyScalingDownLoses` |
| `hub_shutdown` | a client that disconnects while in a room makes the hub wait for its own mutex | `OnlyRoomsBreakTheHub`, `HubWithoutRoomsHolds` |
| `hub_panic` | a client removed as dead by `broadcastToAll` stays in its rooms, and the next room message is sent on its closed channel | `OnlyRoomsBreakTheHub`, `HubWithoutRoomsHolds` |
| `chunk_by_id` | `ChunkByID` never advances `lastID`: a callback that goes on gets the first batch for ever | `ByIDNeverAdvances` |

Divergences that a property states as they are, or that the models contain,
without a run of their own.

*Jobs.* `MaxQueueSize` is overrun by concurrent callers (`OverrunBounded` gives the
exact bound, by the most callers that ever met); `Stop` does not
let the pending jobs complete, although gemquick.go:649 says so, and reaches only
the workers that are listed, none that was removed or overwritten (worker.go:220); service is not
first in first out between unknown priorities (`ServedInOrder` says what remains).
Rows of the jobs table are never read again, a stale save may overwrite a newer
row, and the statement is SQLite's, so that on Postgres every save fails and is
logged.

*Hub.* A client that joins a room while its last member leaves is in an object that
no message reaches (hub.go:274), and one that a full buffer removes from a room goes
on believing that it is there; `RoomsAgree` names both.

*Security.* Requests, `GetStats` and the cleanup of the throttle can wait for each
other in a cycle, and then for good (throttle.go:264 and :269 against :435 and :470:
`SomebodyGoesOn` says that nothing else blocks them, `CyclesAreForGood` that no
cycle opens again, and `SubnetsCycle` that it takes the subnet option); a blacklisting that a later
failure renews ends with the first timer (throttle.go:253), and a penalty ends with
its statistics after 30 minutes (throttle.go:437) or is shortened by
`checkSuspiciousBehavior` (throttle.go:238). `Allow` lets an address of the whitelist
pass (throttle.go:114), but `RecordFailure` counts its failures as any other's and
starts a timer for each one past twice the threshold (:244), without a bound
(`TimersBounded` leaves it out). `IsIPBlocked` deletes from maps under a
read lock (monitor.go:83).

*Lifecycle.* `New` calls `routes` (gemquick.go:187) before it has a session manager
(:214), so the session and CSRF middleware is never installed by it (`routes`, whose
`store` is always empty); the health checks of database and redis are never
added, because the logging is set up before they connect. The session types
`database`, `badger` and `cookie` all get a store in memory, unlike
docs/configuration.md:128. `Validate` lower-cases what `OpenDB` and
`setupOpenTelemetry` compare as it is written. `CACHE=redis` with
`SESSION_TYPE=badger` caches in badger. `OpenDB` does not close the pool whose Ping
fails (driver.go:27), and nothing refers to it any more. `Jobs.Stop` of a manager that was not
started returns an error and leaves its workers running; that of one that was does not wait
for the ticker, and `Enqueue` goes on saving, so that a save may find the database
closed (manager.go:110, :188). A second `Shutdown` panics
if the email module was up (close of a closed channel, email/module.go:158), and then
closes nothing; the mail listener of an application is ended by nobody.

*Mail.* `addAPIAttachments` gets its transmission by value (mail.go:118), so mail
through an API loses its attachments.

*Sessions.* A request that overlaps a logout or a rotation commits the revoked
token again (`outlived` in `LoginRenews`).

*Cache.* `BadgerCache.Set` drops the error of its transaction (badger_cache.go:58);
`EmptyByMatch` of badger ignores the prefix and its `*` does not match `/`, and it
keeps keys whose memory the iterator uses again (badger_cache.go:92), so that it may
delete other keys than cache.go:199 says, and leave those; that
of redis also empties an application whose prefix begins with this one's.

*Database.* A builder is never reset: `First` leaves its LIMIT, `Count` its COUNT on
an error, and the copy that `Chunk` queries drops the error, union and limit. `Chunk` and `ChunkByID` never ask
`rows.Err()` (query_builder.go:862, :927): a result whose reading fails ends them with
no error and rows unvisited. Pages by offset are only disjoint if the order has no
ties, which nothing asks for.
`SoftDelete` passes the string "NOW()". A transaction inside another one is a
second, independent one, and callers that hold one each can use up the pool; a
panic leaks the connection. A seeder empties and fills its table in no
transaction, and rows take the columns of the first record.

*Command line.* `exitGracefully` does not exit: `new` goes on after a failed clone,
overwrites .env, Makefile and go.mod of what is there, and removes its .git; "make
controller" overwrites a test; a failed migration leaves the schema dirty, which
no command forces; a model is not injected when its name is part of another one's;
"make auth" again adds a second migration of the same tables. The two files of a
starter's migration are numbered apart (new.go:291), so no version has both.

## 7. Not modelled

* *API versioning and responses, CSRF, headers, input validation.* Each is a
  function of one request and of settings that do not change: what there is to
  check is string matching and formatting, which a table test covers and a model
  would restate.
* *File systems, SMS, rendering, URL signing, the validator.* Calls to external
  services and libraries, without state of their own.
* *ScheduleCron and services.go.* Their scheduler is created and never started by
  the framework.
* *Log lines and health functions* are text and functions of their arguments;
  *spans and instruments* belong to the OpenTelemetry library.
* *A restart* of an application reloads nothing: `Lifecycle` and `JobStore` say what is
  left at any point, which is all there is to a crash.
* *Handlers, listeners and callbacks* are the application's; their panics end the
  process. Events are delivered by a goroutine each, in no order.
* *The texts of templates* and the commands of the tool that only run another one.

## 8. What could follow

The query builder's subqueries, when they come; a restart that reads
the job rows, when the code does.
