------------------------------- MODULE Throttle -------------------------------
(***************************************************************************)
(* security/throttle.go: the IP throttler.  A call is a request on its way *)
(* through IPThrottleMiddleware: Allow, the handler, RecordFailure.  The   *)
(* others are the callers of GetStats or GetTopThrottledIPs, the cleanup   *)
(* goroutine and the timers that end a blacklisting.                       *)
(*                                                                         *)
(* t.mu is Go's RWMutex: Lock is announced first, then waits for the       *)
(* readers that were there before, and keeps later readers out meanwhile.  *)
(* Statistics are objects, since a call may hold some that cleanup has     *)
(* deleted.  Clocks are relative: what is left of a penalty or a timer,    *)
(* and the time since lastUpdate, in units of one minute.  The token       *)
(* buckets of an address and of its subnet may give either answer; all     *)
(* addresses are in one subnet.                                            *)
(***************************************************************************)
EXTENDS Naturals, FiniteSets

CONSTANTS
  Address, Stats, Call, Reader, Cleaner,
  None,                       \* nil
  FailureStep,                \* failures for each minute of penalty
  MaxPenaltyMinutes, SuspiciousThreshold, SuspiciousPenaltyMinutes,
  MaxIdle,                    \* minutes after which statistics are deleted
  Setups,                     \* which options are enabled, which goroutines
                              \* there are, and who is on the whitelist
  MaxTimers                   \* bound: with more timers an address of the
                              \* whitelist sends no request

ASSUME ThrottleAssumption ==
  /\ None \notin Address \cup Stats \cup Call \cup Reader \cup {Cleaner}
  /\ Cleaner \notin Call \cup Reader /\ Call \cap Reader = {} /\ IsFiniteSet(Call)
  /\ FailureStep \in Nat \ {0} /\ SuspiciousThreshold \in Nat \ {0}
  /\ MaxPenaltyMinutes \in Nat /\ SuspiciousPenaltyMinutes \in Nat \ {0}
  /\ MaxIdle \in Nat /\ MaxTimers \in Nat
  /\ Setups \subseteq [options : SUBSET {"progressive", "suspicious", "subnet"},
                      goroutines : SUBSET (Call \cup Reader \cup {Cleaner}),
                      whitelist : SUBSET Address]

VARIABLES
  setup,         \* one of Setups
  ipStats,       \* t.ipStats: the statistics of each address, or None
  subnetKnown,   \* whether t.subnetStats has the subnet
  failed, penalty, blacklisted, age,   \* the fields of each object; failed
                 \* counts up to MaxFailures, age up to MaxIdle + 1
  timers,        \* for each object, how many scheduleUnblacklist goroutines
                 \* have so many minutes to sleep
  trusted,       \* history: the objects made for addresses of the whitelist
  owner,         \* stats.mu of each object: the call that holds it
  writer,        \* t.mu: who has announced Lock, and holds it when there are
  readers,       \* no readers left
  place,         \* where each goroutine is
  purpose,       \* what a call is in: "allow" or "record"
  address, found,\* the address of a call and the statistics it was given
  left           \* the addresses a loop over t.ipStats has still to visit

throttleVars == <<setup, ipStats, subnetKnown, failed, penalty, blacklisted, age, timers,
                  trusted, owner, writer, readers, place, purpose, address, found, left>>

Goroutine == Call \cup Reader \cup {Cleaner}

UnblockMinutes == SuspiciousPenaltyMinutes * 2

Larger(a, b) == IF a > b THEN a ELSE b
Lesser(a, b) == IF a < b THEN a ELSE b

(* More failures than this change nothing.                                 *)
MaxFailures ==
  Larger(IF "progressive" \in setup.options THEN MaxPenaltyMinutes * FailureStep ELSE 0,
         IF "suspicious" \in setup.options THEN SuspiciousThreshold * 2 ELSE 0)

Minutes == 0 .. Larger(MaxPenaltyMinutes, SuspiciousPenaltyMinutes)

(* Type invariant: only a call that waits for t.mu, or is about to charge  *)
(* its subnet, holds statistics between two steps.                         *)
ThrottleTypeOK ==
  /\ setup \in Setups
  /\ ipStats \in [Address -> Stats \cup {None}] /\ subnetKnown \in BOOLEAN
  /\ failed \in [Stats -> 0 .. MaxFailures] /\ penalty \in [Stats -> Minutes]
  /\ blacklisted \in [Stats -> BOOLEAN] /\ age \in [Stats -> 0 .. MaxIdle + 1]
  /\ timers \in [Stats -> [0 .. UnblockMinutes -> Nat]] /\ trusted \subseteq Stats
  /\ owner \in [Stats -> Call \cup {None}]
  /\ writer \in Call \cup {Cleaner, None} /\ readers \subseteq Reader
  /\ place \in [Goroutine -> {"idle", "find", "create", "creating", "lock", "subnet",
       "subnetCreate", "subnetCreating", "charge", "handler", "loop", "announced"}]
  /\ purpose \in [Call -> {"allow", "record"}]
  /\ address \in [Call -> Address \cup {None}] /\ found \in [Call -> Stats \cup {None}]
  /\ left \in [Reader \cup {Cleaner} -> SUBSET Address]

NoTimers == [m \in 0 .. UnblockMinutes |-> 0]

ThrottleInit ==
  /\ setup \in Setups
  /\ ipStats = [a \in Address |-> None] /\ subnetKnown = FALSE
  /\ failed = [s \in Stats |-> 0] /\ penalty = [s \in Stats |-> 0]
  /\ blacklisted = [s \in Stats |-> FALSE] /\ age = [s \in Stats |-> 0]
  /\ timers = [s \in Stats |-> NoTimers] /\ trusted = {}
  /\ owner = [s \in Stats |-> None] /\ writer = None /\ readers = {}
  /\ place = [g \in Goroutine |-> "idle"] /\ purpose = [c \in Call |-> "allow"]
  /\ address = [c \in Call |-> None] /\ found = [c \in Call |-> None]
  /\ left = [g \in Reader \cup {Cleaner} |-> {}]

Move(g, from, to) == place[g] = from /\ place' = [place EXCEPT ![g] = to]

objects == <<failed, penalty, blacklisted, age, timers, trusted>>
locks == <<owner, writer, readers>>
callVars == <<purpose, address, found>>

-----------------------------------------------------------------------------
(* The total of timers that sleep for an object.                           *)
Pending(s) ==
  LET upTo[m \in 0 .. UnblockMinutes] ==
        timers[s][m] + (IF m = 0 THEN 0 ELSE upTo[m - 1])
  IN  upTo[UnblockMinutes]

(* Allow, up to getIPStats.  An address of the whitelist goes to the       *)
(* handler whatever its statistics say; one that the configuration         *)
(* blacklists is refused, which changes nothing.                           *)
Arrive(c, a) ==
  /\ c \in setup.goroutines
  /\ a \in setup.whitelist => \A s \in trusted : Pending(s) <= MaxTimers
  /\ Move(c, "idle", IF a \in setup.whitelist THEN "handler" ELSE "find")
  /\ address' = [address EXCEPT ![c] = a] /\ purpose' = [purpose EXCEPT ![c] = "allow"]
  /\ UNCHANGED <<setup, ipStats, subnetKnown, objects, locks, found, left>>

(* getIPStats: a look under the read lock, ...                             *)
FindStats(c) ==
  LET s == ipStats[address[c]]
  IN  /\ writer = None
      /\ Move(c, "find", IF s = None THEN "create" ELSE "lock")
      /\ found' = [found EXCEPT ![c] = s]
      /\ UNCHANGED <<setup, ipStats, subnetKnown, objects, locks, purpose, address, left>>

Announce(c, from, to) ==
  /\ writer = None /\ writer' = c
  /\ Move(c, from, to)
  /\ UNCHANGED <<setup, ipStats, subnetKnown, objects, owner, readers, callVars, left>>

(* Objects that nothing refers to.                                         *)
Unused == {s \in Stats : /\ \A a \in Address : ipStats[a] # s
                         /\ \A c \in Call : found[c] # s
                         /\ timers[s] = NoTimers}

(* ... and another under the lock, unless someone else made the statistics.*)
CreateStats(c) ==
  /\ Move(c, "creating", "lock")
  /\ readers = {} /\ writer' = None
  /\ IF ipStats[address[c]] # None
     THEN /\ found' = [found EXCEPT ![c] = ipStats[address[c]]]
          /\ UNCHANGED <<ipStats, objects>>
     ELSE LET s == CHOOSE unused \in Unused : TRUE
          IN  /\ Unused # {}
              /\ found' = [found EXCEPT ![c] = s]
              /\ ipStats' = [ipStats EXCEPT ![address[c]] = s]
              /\ failed' = [failed EXCEPT ![s] = 0]
              /\ penalty' = [penalty EXCEPT ![s] = 0]
              /\ blacklisted' = [blacklisted EXCEPT ![s] = FALSE]
              /\ age' = [age EXCEPT ![s] = 0]
              /\ trusted' = IF address[c] \in setup.whitelist
                              THEN trusted \cup {s} ELSE trusted \ {s}
              /\ UNCHANGED timers
  /\ UNCHANGED <<setup, subnetKnown, owner, readers, purpose, address, left>>

(* The end of Allow or RecordFailure: deferred unlock, return.             *)
Return(c, to) ==
  /\ place' = [place EXCEPT ![c] = to]
  /\ owner' = [owner EXCEPT ![found[c]] = None]
  /\ found' = [found EXCEPT ![c] = None]
  /\ purpose' = [purpose EXCEPT ![c] = "allow"]

Punished(s) == penalty[s] > 0 \/ blacklisted[s]

(* Allow, once it has stats.mu: refuse, ...                                *)
RefusePunished(c) ==
  /\ place[c] = "lock" /\ purpose[c] = "allow" /\ owner[found[c]] = None
  /\ Punished(found[c])
  /\ Return(c, "idle")
  /\ UNCHANGED <<setup, ipStats, subnetKnown, objects, writer, readers, address, left>>

(* ... or refill the tokens, and keep stats.mu for the rest.               *)
Refill(c) ==
  /\ Move(c, "lock", IF "subnet" \in setup.options THEN "subnet" ELSE "charge")
  /\ purpose[c] = "allow" /\ owner[found[c]] = None
  /\ ~Punished(found[c])
  /\ owner' = [owner EXCEPT ![found[c]] = c]
  /\ age' = [age EXCEPT ![found[c]] = 0]
  /\ UNCHANGED <<setup, ipStats, subnetKnown, failed, penalty, blacklisted, timers,
                 trusted, writer, readers, callVars, left>>

(* allowSubnet, up to the point where it has the subnet's statistics.      *)
FindSubnet(c) ==
  /\ writer = None
  /\ Move(c, "subnet", IF subnetKnown THEN "charge" ELSE "subnetCreate")
  /\ UNCHANGED <<setup, ipStats, subnetKnown, objects, locks, callVars, left>>

CreateSubnet(c) ==
  /\ Move(c, "subnetCreating", "charge")
  /\ readers = {} /\ writer' = None
  /\ subnetKnown' = TRUE
  /\ UNCHANGED <<setup, ipStats, objects, owner, readers, callVars, left>>

(* Mutant: a refusal returns without unlocking.                            *)
ChargeKeepingLock(c) ==
  /\ place[c] = "charge"
  /\ \/ Return(c, "handler")
     \/ /\ place' = [place EXCEPT ![c] = "idle"]
        /\ found' = [found EXCEPT ![c] = None]
        /\ UNCHANGED <<owner, purpose>>
  /\ UNCHANGED <<setup, ipStats, subnetKnown, objects, writer, readers, address, left>>

(* The rest of Allow: the tokens of the subnet and of the address.         *)
Charge(c) ==
  /\ place[c] = "charge"
  /\ \E answer \in {"handler", "idle"} : Return(c, answer)
  /\ UNCHANGED <<setup, ipStats, subnetKnown, objects, writer, readers, address, left>>

(* The handler returns, with a status of 400 or more or without.           *)
Respond(c) ==
  /\ \/ Move(c, "handler", "idle") /\ UNCHANGED purpose
     \/ /\ Move(c, "handler", "find")
        /\ purpose' = [purpose EXCEPT ![c] = "record"]
  /\ UNCHANGED <<setup, ipStats, subnetKnown, objects, locks, address, found, left>>

Suspicious(failures) ==
  "suspicious" \in setup.options /\ failures >= SuspiciousThreshold

VerySuspicious(failures) ==
  Suspicious(failures) /\ failures >= SuspiciousThreshold * 2

(* Mutant: being blacklisted sets no penalty.                              *)
PenaltyUnlessBlocked(s, failures) ==
  LET progressive == Lesser(failures \div FailureStep, MaxPenaltyMinutes)
  IN  IF VerySuspicious(failures) THEN penalty[s]
      ELSE IF Suspicious(failures) THEN SuspiciousPenaltyMinutes
      ELSE IF "progressive" \in setup.options /\ progressive > 0 THEN progressive
      ELSE penalty[s]

(* applyProgressivePenalty, then checkSuspiciousBehavior, whose penalty    *)
(* replaces the progressive one.                                           *)
Penalty(s, failures) ==
  LET progressive == Lesser(failures \div FailureStep, MaxPenaltyMinutes)
  IN  IF Suspicious(failures) THEN SuspiciousPenaltyMinutes
      ELSE IF "progressive" \in setup.options /\ progressive > 0 THEN progressive
      ELSE penalty[s]

(* Mutant: only the failure that reaches the threshold starts a timer.     *)
BlacklistWithOneTimer(s) ==
  /\ blacklisted' = [blacklisted EXCEPT ![s] = TRUE]
  /\ timers' = [timers EXCEPT ![s][UnblockMinutes] =
                   IF VerySuspicious(failed[s]) THEN @ ELSE @ + 1]

(* checkSuspiciousBehavior, for very many failures.                        *)
Blacklist(s) ==
  /\ blacklisted' = [blacklisted EXCEPT ![s] = TRUE]
  /\ timers' = [timers EXCEPT ![s][UnblockMinutes] = @ + 1]

(* RecordFailure, once it has stats.mu.                                    *)
RecordFailure(c) ==
  LET s == found[c]
      failures == Lesser(failed[s] + 1, MaxFailures)
  IN  /\ place[c] = "lock" /\ purpose[c] = "record" /\ owner[s] = None
      /\ failed' = [failed EXCEPT ![s] = failures]
      /\ penalty' = [penalty EXCEPT ![s] = Penalty(s, failures)]
      /\ IF VerySuspicious(failures) THEN Blacklist(s)
         ELSE UNCHANGED <<blacklisted, timers>>
      /\ Return(c, "idle")
      /\ UNCHANGED <<setup, ipStats, subnetKnown, age, trusted, writer, readers, address,
                     left>>

-----------------------------------------------------------------------------
(* scheduleUnblacklist, when it has slept.                                 *)
scheduleUnblacklist(s) ==
  /\ timers[s][0] > 0 /\ owner[s] = None
  /\ timers' = [timers EXCEPT ![s][0] = @ - 1]
  /\ blacklisted' = [blacklisted EXCEPT ![s] = FALSE]
  /\ UNCHANGED <<setup, ipStats, subnetKnown, failed, penalty, age, trusted, locks,
                 place, callVars, left>>

Known == {a \in Address : ipStats[a] # None}

(* A tick of the cleanup goroutine: Lock, the loop over the addresses, the  *)
(* loop over the subnets.                                                  *)
StartCleanup ==
  /\ Cleaner \in setup.goroutines
  /\ writer = None /\ writer' = Cleaner
  /\ Move(Cleaner, "idle", "announced")
  /\ UNCHANGED <<setup, ipStats, subnetKnown, objects, owner, readers, callVars, left>>

EnterCleanup ==
  /\ readers = {}
  /\ Move(Cleaner, "announced", "loop")
  /\ left' = [left EXCEPT ![Cleaner] = Known]
  /\ UNCHANGED <<setup, ipStats, subnetKnown, objects, locks, callVars>>

cleanup(a) ==
  LET s == ipStats[a]
  IN  /\ place[Cleaner] = "loop" /\ a \in left[Cleaner] /\ owner[s] = None
      /\ left' = [left EXCEPT ![Cleaner] = @ \ {a}]
      /\ ipStats' = IF age[s] > MaxIdle /\ ~blacklisted[s]
                    THEN [ipStats EXCEPT ![a] = None] ELSE ipStats
      /\ UNCHANGED <<setup, subnetKnown, objects, locks, place, callVars>>

(* How long the subnet has been unused is not modelled.                    *)
EndCleanup ==
  /\ left[Cleaner] = {} /\ Move(Cleaner, "loop", "idle")
  /\ writer' = None
  /\ subnetKnown' \in {subnetKnown, FALSE}
  /\ UNCHANGED <<setup, ipStats, objects, owner, readers, callVars, left>>

(* GetStats and GetTopThrottledIPs: the read lock, then each stats.mu.     *)
StartReading(r) ==
  /\ r \in setup.goroutines
  /\ writer = None
  /\ Move(r, "idle", "loop")
  /\ readers' = readers \cup {r} /\ left' = [left EXCEPT ![r] = Known]
  /\ UNCHANGED <<setup, ipStats, subnetKnown, objects, owner, writer, callVars>>

Read(r, a) ==
  /\ place[r] = "loop" /\ a \in left[r] /\ owner[ipStats[a]] = None
  /\ left' = [left EXCEPT ![r] = @ \ {a}]
  /\ UNCHANGED <<setup, ipStats, subnetKnown, objects, locks, place, callVars>>

EndReading(r) ==
  /\ left[r] = {} /\ Move(r, "loop", "idle")
  /\ readers' = readers \ {r}
  /\ UNCHANGED <<setup, ipStats, subnetKnown, objects, owner, writer, callVars, left>>

(* A minute passes; a timer that is due and can have stats.mu needs less.  *)
Minute ==
  /\ \A s \in Stats : timers[s][0] = 0 \/ owner[s] # None
  /\ penalty' = [s \in Stats |-> IF penalty[s] = 0 THEN 0 ELSE penalty[s] - 1]
  /\ age' = [s \in Stats |-> Lesser(age[s] + 1, MaxIdle + 1)]
  /\ timers' = [s \in Stats |-> [m \in 0 .. UnblockMinutes |->
       (IF m = 0 THEN timers[s][0] ELSE 0)
         + (IF m = UnblockMinutes THEN 0 ELSE timers[s][m + 1])]]
  /\ UNCHANGED <<setup, ipStats, subnetKnown, failed, blacklisted, trusted, locks,
                 place, callVars, left>>

-----------------------------------------------------------------------------
CallStep(c) ==
  \/ FindStats(c) \/ Announce(c, "create", "creating") \/ CreateStats(c)
  \/ RefusePunished(c) \/ Refill(c)
  \/ FindSubnet(c) \/ Announce(c, "subnetCreate", "subnetCreating") \/ CreateSubnet(c)
  \/ Charge(c) \/ Respond(c) \/ RecordFailure(c)

ReaderStep(r) == (\E a \in Address : Read(r, a)) \/ EndReading(r)

CleanerStep == EnterCleanup \/ (\E a \in Address : cleanup(a)) \/ EndCleanup

ThrottleNext ==
  \/ \E c \in Call : CallStep(c) \/ \E a \in Address : Arrive(c, a)
  \/ \E r \in Reader : StartReading(r) \/ ReaderStep(r)
  \/ StartCleanup \/ CleanerStep
  \/ \E s \in Stats : scheduleUnblacklist(s)
  \/ Minute

ThrottleSpec == ThrottleInit /\ [][ThrottleNext]_throttleVars

-----------------------------------------------------------------------------
(***************************************************************************)
(* A blacklisted address is not blacklisted for good: a timer that will    *)
(* lift the block is always there.  scheduleUnblacklist writes FALSE       *)
(* whatever has happened since it was started, and each failure starts one.*)
(***************************************************************************)
BlockHasTimer ==
  \A s \in Stats : blacklisted[s] => \E m \in 0 .. UnblockMinutes : timers[s][m] > 0

(***************************************************************************)
(* The timers of an address that is not on the whitelist are bounded by    *)
(* its concurrent requests: none is admitted while the penalty runs that   *)
(* came with the timer, which is half as long as the timer sleeps.  One of *)
(* the whitelist is admitted all the same, and each of its failures starts *)
(* another timer.                                                          *)
(***************************************************************************)
TimersBounded ==
  \A s \in Stats \ trusted : Pending(s) <= 3 * Cardinality(Call)

(***************************************************************************)
(* The lock cycles.  A call that holds stats.mu needs t.mu for its subnet, *)
(* and either cleanup has t.mu and needs that stats.mu, or a reader has    *)
(* it, needs that stats.mu, and a Lock that was announced waits for the    *)
(* reader and keeps the call out.                                          *)
(***************************************************************************)
LockCycle ==
  \E c \in Call, a \in Address :
    /\ place[c] \in {"subnet", "subnetCreate", "subnetCreating"}
    /\ ipStats[a] = found[c]
    /\ \/ writer = Cleaner /\ a \in left[Cleaner]
       \/ writer # None /\ \E r \in readers : a \in left[r]

(* What a goroutine waits for at its place.                                *)
CallCanGo(c) ==
  \/ place[c] \in {"find", "create", "subnet", "subnetCreate"} /\ writer = None
  \/ place[c] \in {"creating", "subnetCreating"} /\ readers = {}
  \/ place[c] = "lock" /\ owner[found[c]] = None
  \/ place[c] \in {"charge", "handler"}

LoopCanGo(g) ==
  place[g] = "loop" /\ (left[g] = {} \/ \E a \in left[g] : owner[ipStats[a]] = None)

SomebodyCanGo ==
  \/ \E c \in Call : CallCanGo(c)
  \/ \E g \in Reader \cup {Cleaner} : LoopCanGo(g)
  \/ place[Cleaner] = "announced" /\ readers = {}

GoesOn == (\A g \in Goroutine : place[g] = "idle") \/ SomebodyCanGo \/ LockCycle

(***************************************************************************)
(* Nothing but such a cycle keeps a request, a reader or the cleanup from  *)
(* returning: in every other state some goroutine that is under way can go *)
(* on, and those that can are those whose next step is enabled.            *)
(***************************************************************************)
OnlyCyclesBlock ==
  /\ GoesOn
  /\ SomebodyCanGo <=> ENABLED (\/ \E c \in Call : CallStep(c)
                                \/ \E r \in Reader : ReaderStep(r)
                                \/ CleanerStep)
=============================================================================
