---------------------------- MODULE ThrottleProofs ----------------------------
(* Theorems about Throttle, for any number of addresses, requests and       *)
(* readers, and for every setting of the options and thresholds.            *)
EXTENDS Throttle, FiniteSetTheorems, WellFoundedInduction, TLAPS

USE ThrottleAssumption DEF ThrottleAssumption

Places == {"idle", "find", "create", "creating", "lock", "subnet",
           "subnetCreate", "subnetCreating", "charge", "handler", "loop", "announced"}

(* The parts of the type invariant.                                        *)
MapsOK ==
  /\ setup \in Setups /\ ipStats \in [Address -> Stats \cup {None}]
  /\ subnetKnown \in BOOLEAN /\ trusted \subseteq Stats

FieldsOK ==
  /\ failed \in [Stats -> 0 .. MaxFailures] /\ penalty \in [Stats -> Minutes]
  /\ blacklisted \in [Stats -> BOOLEAN] /\ age \in [Stats -> 0 .. MaxIdle + 1]
  /\ timers \in [Stats -> [0 .. UnblockMinutes -> Nat]]

PlacesOK ==
  /\ owner \in [Stats -> Call \cup {None}]
  /\ writer \in Call \cup {Cleaner, None} /\ readers \subseteq Reader
  /\ place \in [Goroutine -> Places]
  /\ purpose \in [Call -> {"allow", "record"}]
  /\ address \in [Call -> Address \cup {None}] /\ found \in [Call -> Stats \cup {None}]
  /\ left \in [Reader \cup {Cleaner} -> SUBSET Address]

Holding == {"subnet", "subnetCreate", "subnetCreating", "charge"}

(* A call that waits for stats.mu or has it knows whose, and is the one    *)
(* that the mutex knows.                                                   *)
HoldsOK ==
  \A c \in Call :
    /\ place[c] # "idle" => address[c] \in Address
    /\ place[c] = "lock" \/ place[c] \in Holding => found[c] \in Stats
    /\ place[c] \in Holding => owner[found[c]] = c

(* t.mu: who has announced Lock is the writer; who runs the loop of        *)
(* cleanup has no readers beside it; readers are those in the loop.        *)
LockOK ==
  /\ \A c \in Call : place[c] \in {"creating", "subnetCreating"} => writer = c
  /\ place[Cleaner] \in {"announced", "loop"} => writer = Cleaner
  /\ place[Cleaner] = "loop" => readers = {}
  /\ \A r \in Reader : place[r] = "loop" => r \in readers

(* A loop over t.ipStats finds the addresses it has still to visit there.  *)
LoopOK ==
  \A g \in Reader \cup {Cleaner} :
    place[g] = "loop" => \A a \in left[g] : ipStats[a] \in Stats

IInv == MapsOK /\ FieldsOK /\ PlacesOK /\ HoldsOK /\ LockOK /\ LoopOK /\ BlockHasTimer
(* What recording a failure does to the locks and places.                  *)
LEMMA RecordFailureMoves ==
  ASSUME NEW c \in Call, RecordFailure(c)
  PROVE  /\ place[c] = "lock" /\ owner[found[c]] = None /\ Return(c, "idle")
         /\ UNCHANGED <<setup, ipStats, subnetKnown, writer, readers, address, left>>
  BY Zenon DEF RecordFailure

(* What making statistics, or finding those that others made, does.        *)
LEMMA CreateStatsFinds ==
  ASSUME MapsOK, HoldsOK, NEW c \in Call, CreateStats(c)
  PROVE  \E s \in Stats :
           /\ found' = [found EXCEPT ![c] = s]
           /\ \/ s = ipStats[address[c]] /\ UNCHANGED <<ipStats, objects>>
              \/ /\ s \in Unused /\ UNCHANGED timers
                 /\ trusted' = IF address[c] \in setup.whitelist
                                 THEN trusted \cup {s} ELSE trusted \ {s}
                 /\ ipStats' = [ipStats EXCEPT ![address[c]] = s]
                 /\ failed' = [failed EXCEPT ![s] = 0]
                 /\ penalty' = [penalty EXCEPT ![s] = 0]
                 /\ blacklisted' = [blacklisted EXCEPT ![s] = FALSE]
                 /\ age' = [age EXCEPT ![s] = 0]
<1>1. address[c] \in Address
  BY DEF HoldsOK, CreateStats, Move
<1>2. CASE ipStats[address[c]] # None
  <2>1. ipStats[address[c]] \in Stats
    BY <1>1, <1>2 DEF MapsOK
  <2> QED
    BY <1>2, <2>1, Zenon DEF CreateStats
<1>3. CASE ipStats[address[c]] = None
  <2> DEFINE s == CHOOSE unused \in Unused : TRUE
  <2>1. Unused # {} /\ UNCHANGED timers
        /\ trusted' = (IF address[c] \in setup.whitelist
                         THEN trusted \cup {s} ELSE trusted \ {s})
        /\ found' = [found EXCEPT ![c] = s]
        /\ ipStats' = [ipStats EXCEPT ![address[c]] = s]
        /\ failed' = [failed EXCEPT ![s] = 0]
        /\ penalty' = [penalty EXCEPT ![s] = 0]
        /\ blacklisted' = [blacklisted EXCEPT ![s] = FALSE]
        /\ age' = [age EXCEPT ![s] = 0]
    BY <1>3, Zenon DEF CreateStats
  <2>2. s \in Unused
    BY <2>1
  <2>3. s \in Stats
    BY <2>2 DEF Unused
  <2> HIDE DEF s
  <2> QED
    BY <2>1, <2>2, <2>3
<1> QED
  BY <1>2, <1>3

(* And what it does to the locks and places.                               *)
LEMMA CreateStatsMoves ==
  ASSUME NEW c \in Call, CreateStats(c)
  PROVE  /\ place[c] = "creating" /\ place' = [place EXCEPT ![c] = "lock"]
         /\ readers = {} /\ writer' = None
         /\ UNCHANGED <<setup, subnetKnown, owner, readers, purpose, address, left>>
  BY Zenon DEF CreateStats, Move


(* Locks and places keep their types.                                      *)
LEMMA PlacesStep ==
  ASSUME MapsOK, PlacesOK, HoldsOK, ThrottleNext
  PROVE  PlacesOK'
<1>1. ASSUME NEW c \in Call, NEW a \in Address, Arrive(c, a) PROVE PlacesOK'
  BY <1>1
  DEF PlacesOK, MapsOK, HoldsOK, Goroutine, Places, Holding, Known, Move, objects,
      locks, callVars, Arrive
<1>2. ASSUME NEW c \in Call, FindStats(c) PROVE PlacesOK'
  BY <1>2
  DEF PlacesOK, MapsOK, HoldsOK, Goroutine, Places, Holding, Known, Move, objects,
      locks, callVars, FindStats
<1>3. ASSUME NEW c \in Call, Announce(c, "create", "creating") PROVE PlacesOK'
  BY <1>3
  DEF PlacesOK, MapsOK, HoldsOK, Goroutine, Places, Holding, Known, Move, objects,
      locks, callVars, Announce
<1>4. ASSUME NEW c \in Call, Announce(c, "subnetCreate", "subnetCreating") PROVE PlacesOK'
  BY <1>4
  DEF PlacesOK, MapsOK, HoldsOK, Goroutine, Places, Holding, Known, Move, objects,
      locks, callVars, Announce
<1>5. ASSUME NEW c \in Call, CreateStats(c) PROVE PlacesOK'
  BY <1>5, CreateStatsFinds, CreateStatsMoves DEF MapsOK, PlacesOK, Goroutine, Places
<1>6. ASSUME NEW c \in Call, RefusePunished(c) PROVE PlacesOK'
  BY <1>6
  DEF PlacesOK, MapsOK, HoldsOK, Goroutine, Places, Holding, Known, Move, objects,
      locks, callVars, RefusePunished, Return
<1>7. ASSUME NEW c \in Call, Refill(c) PROVE PlacesOK'
  BY <1>7
  DEF PlacesOK, MapsOK, HoldsOK, Goroutine, Places, Holding, Known, Move, objects,
      locks, callVars, Refill
<1>8. ASSUME NEW c \in Call, FindSubnet(c) PROVE PlacesOK'
  BY <1>8
  DEF PlacesOK, MapsOK, HoldsOK, Goroutine, Places, Holding, Known, Move, objects,
      locks, callVars, FindSubnet
<1>9. ASSUME NEW c \in Call, CreateSubnet(c) PROVE PlacesOK'
  BY <1>9
  DEF PlacesOK, MapsOK, HoldsOK, Goroutine, Places, Holding, Known, Move, objects,
      locks, callVars, CreateSubnet
<1>10. ASSUME NEW c \in Call, Charge(c) PROVE PlacesOK'
  BY <1>10
  DEF PlacesOK, MapsOK, HoldsOK, Goroutine, Places, Holding, Known, Move, objects,
      locks, callVars, Charge, Return
<1>11. ASSUME NEW c \in Call, Respond(c) PROVE PlacesOK'
  BY <1>11
  DEF PlacesOK, MapsOK, HoldsOK, Goroutine, Places, Holding, Known, Move, objects,
      locks, callVars, Respond
<1>12. ASSUME NEW c \in Call, RecordFailure(c) PROVE PlacesOK'
  BY <1>12, RecordFailureMoves DEF Return, PlacesOK, Goroutine, Places
<1>13. ASSUME NEW s \in Stats, scheduleUnblacklist(s) PROVE PlacesOK'
  BY <1>13
  DEF PlacesOK, MapsOK, HoldsOK, Goroutine, Places, Holding, Known, Move, objects,
      locks, callVars, scheduleUnblacklist
<1>14. ASSUME StartCleanup PROVE PlacesOK'
  BY <1>14
  DEF PlacesOK, MapsOK, HoldsOK, Goroutine, Places, Holding, Known, Move, objects,
      locks, callVars, StartCleanup
<1>15. ASSUME EnterCleanup PROVE PlacesOK'
  BY <1>15
  DEF PlacesOK, MapsOK, HoldsOK, Goroutine, Places, Holding, Known, Move, objects,
      locks, callVars, EnterCleanup
<1>16. ASSUME NEW a \in Address, cleanup(a) PROVE PlacesOK'
  BY <1>16
  DEF PlacesOK, MapsOK, HoldsOK, Goroutine, Places, Holding, Known, Move, objects,
      locks, callVars, cleanup
<1>17. ASSUME EndCleanup PROVE PlacesOK'
  BY <1>17
  DEF PlacesOK, MapsOK, HoldsOK, Goroutine, Places, Holding, Known, Move, objects,
      locks, callVars, EndCleanup
<1>18. ASSUME NEW r \in Reader, StartReading(r) PROVE PlacesOK'
  BY <1>18
  DEF PlacesOK, MapsOK, HoldsOK, Goroutine, Places, Holding, Known, Move, objects,
      locks, callVars, StartReading
<1>19. ASSUME NEW r \in Reader, NEW a \in Address, Read(r, a) PROVE PlacesOK'
  BY <1>19
  DEF PlacesOK, MapsOK, HoldsOK, Goroutine, Places, Holding, Known, Move, objects,
      locks, callVars, Read
<1>20. ASSUME NEW r \in Reader, EndReading(r) PROVE PlacesOK'
  BY <1>20
  DEF PlacesOK, MapsOK, HoldsOK, Goroutine, Places, Holding, Known, Move, objects,
      locks, callVars, EndReading
<1>21. ASSUME Minute PROVE PlacesOK'
  BY <1>21
  DEF PlacesOK, MapsOK, HoldsOK, Goroutine, Places, Holding, Known, Move, objects,
      locks, callVars, Minute
<1> QED
  BY <1>1, <1>2, <1>3, <1>4, <1>5, <1>6, <1>7, <1>8, <1>9, <1>10, <1>11,
     <1>12, <1>13, <1>14, <1>15, <1>16, <1>17, <1>18, <1>19, <1>20, <1>21
  DEF ThrottleNext, CallStep, ReaderStep, CleanerStep

(* Statistics are held as before.                                          *)
LEMMA HoldsStep ==
  ASSUME MapsOK, PlacesOK, HoldsOK, LockOK, ThrottleNext
  PROVE  HoldsOK'
<1>1. ASSUME NEW c \in Call, NEW a \in Address, Arrive(c, a) PROVE HoldsOK'
  BY <1>1
  DEF PlacesOK, MapsOK, HoldsOK, LockOK, Goroutine, Places, Holding, Move, objects,
      locks, callVars, Arrive
<1>2. ASSUME NEW c \in Call, FindStats(c) PROVE HoldsOK'
  BY <1>2
  DEF PlacesOK, MapsOK, HoldsOK, LockOK, Goroutine, Places, Holding, Move, objects,
      locks, callVars, FindStats
<1>3. ASSUME NEW c \in Call, Announce(c, "create", "creating") PROVE HoldsOK'
  BY <1>3
  DEF PlacesOK, MapsOK, HoldsOK, LockOK, Goroutine, Places, Holding, Move, objects,
      locks, callVars, Announce
<1>4. ASSUME NEW c \in Call, Announce(c, "subnetCreate", "subnetCreating") PROVE HoldsOK'
  BY <1>4
  DEF PlacesOK, MapsOK, HoldsOK, LockOK, Goroutine, Places, Holding, Move, objects,
      locks, callVars, Announce
<1>5. ASSUME NEW c \in Call, CreateStats(c) PROVE HoldsOK'
  BY <1>5, CreateStatsFinds, CreateStatsMoves
  DEF MapsOK, PlacesOK, HoldsOK, Goroutine, Places, Holding
<1>6. ASSUME NEW c \in Call, RefusePunished(c) PROVE HoldsOK'
  BY <1>6
  DEF PlacesOK, MapsOK, HoldsOK, LockOK, Goroutine, Places, Holding, Move, objects,
      locks, callVars, RefusePunished, Return
<1>7. ASSUME NEW c \in Call, Refill(c) PROVE HoldsOK'
  BY <1>7
  DEF PlacesOK, MapsOK, HoldsOK, LockOK, Goroutine, Places, Holding, Move, objects,
      locks, callVars, Refill
<1>8. ASSUME NEW c \in Call, FindSubnet(c) PROVE HoldsOK'
  BY <1>8
  DEF PlacesOK, MapsOK, HoldsOK, LockOK, Goroutine, Places, Holding, Move, objects,
      locks, callVars, FindSubnet
<1>9. ASSUME NEW c \in Call, CreateSubnet(c) PROVE HoldsOK'
  BY <1>9
  DEF PlacesOK, MapsOK, HoldsOK, LockOK, Goroutine, Places, Holding, Move, objects,
      locks, callVars, CreateSubnet
<1>10. ASSUME NEW c \in Call, Charge(c) PROVE HoldsOK'
  BY <1>10
  DEF PlacesOK, MapsOK, HoldsOK, LockOK, Goroutine, Places, Holding, Move, objects,
      locks, callVars, Charge, Return
<1>11. ASSUME NEW c \in Call, Respond(c) PROVE HoldsOK'
  BY <1>11
  DEF PlacesOK, MapsOK, HoldsOK, LockOK, Goroutine, Places, Holding, Move, objects,
      locks, callVars, Respond
<1>12. ASSUME NEW c \in Call, RecordFailure(c) PROVE HoldsOK'
  BY <1>12, RecordFailureMoves DEF Return, PlacesOK, HoldsOK, Goroutine, Places, Holding
<1>13. ASSUME NEW s \in Stats, scheduleUnblacklist(s) PROVE HoldsOK'
  BY <1>13
  DEF PlacesOK, MapsOK, HoldsOK, LockOK, Goroutine, Places, Holding, Move, objects,
      locks, callVars, scheduleUnblacklist
<1>14. ASSUME StartCleanup PROVE HoldsOK'
  BY <1>14
  DEF PlacesOK, MapsOK, HoldsOK, LockOK, Goroutine, Places, Holding, Move, objects,
      locks, callVars, StartCleanup
<1>15. ASSUME EnterCleanup PROVE HoldsOK'
  BY <1>15
  DEF PlacesOK, MapsOK, HoldsOK, LockOK, Goroutine, Places, Holding, Move, objects,
      locks, callVars, EnterCleanup
<1>16. ASSUME NEW a \in Address, cleanup(a) PROVE HoldsOK'
  BY <1>16
  DEF PlacesOK, MapsOK, HoldsOK, LockOK, Goroutine, Places, Holding, Move, objects,
      locks, callVars, cleanup
<1>17. ASSUME EndCleanup PROVE HoldsOK'
  BY <1>17
  DEF PlacesOK, MapsOK, HoldsOK, LockOK, Goroutine, Places, Holding, Move, objects,
      locks, callVars, EndCleanup
<1>18. ASSUME NEW r \in Reader, StartReading(r) PROVE HoldsOK'
  BY <1>18
  DEF PlacesOK, MapsOK, HoldsOK, LockOK, Goroutine, Places, Holding, Move, objects,
      locks, callVars, StartReading
<1>19. ASSUME NEW r \in Reader, NEW a \in Address, Read(r, a) PROVE HoldsOK'
  BY <1>19
  DEF PlacesOK, MapsOK, HoldsOK, LockOK, Goroutine, Places, Holding, Move, objects,
      locks, callVars, Read
<1>20. ASSUME NEW r \in Reader, EndReading(r) PROVE HoldsOK'
  BY <1>20
  DEF PlacesOK, MapsOK, HoldsOK, LockOK, Goroutine, Places, Holding, Move, objects,
      locks, callVars, EndReading
<1>21. ASSUME Minute PROVE HoldsOK'
  BY <1>21
  DEF PlacesOK, MapsOK, HoldsOK, LockOK, Goroutine, Places, Holding, Move, objects,
      locks, callVars, Minute
<1> QED
  BY <1>1, <1>2, <1>3, <1>4, <1>5, <1>6, <1>7, <1>8, <1>9, <1>10, <1>11,
     <1>12, <1>13, <1>14, <1>15, <1>16, <1>17, <1>18, <1>19, <1>20, <1>21
  DEF ThrottleNext, CallStep, ReaderStep, CleanerStep

(* The order of t.mu is kept.                                              *)
LEMMA LockStep ==
  ASSUME PlacesOK, LockOK, ThrottleNext
  PROVE  LockOK'
<1>1. ASSUME NEW c \in Call, NEW a \in Address, Arrive(c, a) PROVE LockOK'
  BY <1>1 DEF PlacesOK, LockOK, Goroutine, Places, Move, objects, locks, callVars, Arrive
<1>2. ASSUME NEW c \in Call, FindStats(c) PROVE LockOK'
  BY <1>2
  DEF PlacesOK, LockOK, Goroutine, Places, Move, objects, locks, callVars, FindStats
<1>3. ASSUME NEW c \in Call, Announce(c, "create", "creating") PROVE LockOK'
  BY <1>3
  DEF PlacesOK, LockOK, Goroutine, Places, Move, objects, locks, callVars, Announce
<1>4. ASSUME NEW c \in Call, Announce(c, "subnetCreate", "subnetCreating") PROVE LockOK'
  BY <1>4
  DEF PlacesOK, LockOK, Goroutine, Places, Move, objects, locks, callVars, Announce
<1>5. ASSUME NEW c \in Call, CreateStats(c) PROVE LockOK'
  BY <1>5, CreateStatsFinds, CreateStatsMoves
  DEF MapsOK, PlacesOK, LockOK, Goroutine, Places
<1>6. ASSUME NEW c \in Call, RefusePunished(c) PROVE LockOK'
  BY <1>6
  DEF PlacesOK, LockOK, Goroutine, Places, Move, objects, locks, callVars,
      RefusePunished, Return
<1>7. ASSUME NEW c \in Call, Refill(c) PROVE LockOK'
  BY <1>7 DEF PlacesOK, LockOK, Goroutine, Places, Move, objects, locks, callVars, Refill
<1>8. ASSUME NEW c \in Call, FindSubnet(c) PROVE LockOK'
  BY <1>8
  DEF PlacesOK, LockOK, Goroutine, Places, Move, objects, locks, callVars, FindSubnet
<1>9. ASSUME NEW c \in Call, CreateSubnet(c) PROVE LockOK'
  BY <1>9
  DEF PlacesOK, LockOK, Goroutine, Places, Move, objects, locks, callVars,
      CreateSubnet
<1>10. ASSUME NEW c \in Call, Charge(c) PROVE LockOK'
  BY <1>10
  DEF PlacesOK, LockOK, Goroutine, Places, Move, objects, locks, callVars, Charge,
      Return
<1>11. ASSUME NEW c \in Call, Respond(c) PROVE LockOK'
  BY <1>11
  DEF PlacesOK, LockOK, Goroutine, Places, Move, objects, locks, callVars, Respond
<1>12. ASSUME NEW c \in Call, RecordFailure(c) PROVE LockOK'
  BY <1>12, RecordFailureMoves DEF Return, PlacesOK, LockOK, Goroutine, Places
<1>13. ASSUME NEW s \in Stats, scheduleUnblacklist(s) PROVE LockOK'
  BY <1>13
  DEF PlacesOK, LockOK, Goroutine, Places, Move, objects, locks, callVars,
      scheduleUnblacklist
<1>14. ASSUME StartCleanup PROVE LockOK'
  BY <1>14
  DEF PlacesOK, LockOK, Goroutine, Places, Move, objects, locks, callVars,
      StartCleanup
<1>15. ASSUME EnterCleanup PROVE LockOK'
  BY <1>15
  DEF PlacesOK, LockOK, Goroutine, Places, Move, objects, locks, callVars,
      EnterCleanup
<1>16. ASSUME NEW a \in Address, cleanup(a) PROVE LockOK'
  BY <1>16
  DEF PlacesOK, LockOK, Goroutine, Places, Move, objects, locks, callVars, cleanup
<1>17. ASSUME EndCleanup PROVE LockOK'
  BY <1>17
  DEF PlacesOK, LockOK, Goroutine, Places, Move, objects, locks, callVars, EndCleanup
<1>18. ASSUME NEW r \in Reader, StartReading(r) PROVE LockOK'
  BY <1>18
  DEF PlacesOK, LockOK, Goroutine, Places, Move, objects, locks, callVars,
      StartReading
<1>19. ASSUME NEW r \in Reader, NEW a \in Address, Read(r, a) PROVE LockOK'
  BY <1>19 DEF PlacesOK, LockOK, Goroutine, Places, Move, objects, locks, callVars, Read
<1>20. ASSUME NEW r \in Reader, EndReading(r) PROVE LockOK'
  BY <1>20
  DEF PlacesOK, LockOK, Goroutine, Places, Move, objects, locks, callVars, EndReading
<1>21. ASSUME Minute PROVE LockOK'
  BY <1>21 DEF PlacesOK, LockOK, Goroutine, Places, Move, objects, locks, callVars, Minute
<1> QED
  BY <1>1, <1>2, <1>3, <1>4, <1>5, <1>6, <1>7, <1>8, <1>9, <1>10, <1>11,
     <1>12, <1>13, <1>14, <1>15, <1>16, <1>17, <1>18, <1>19, <1>20, <1>21
  DEF ThrottleNext, CallStep, ReaderStep, CleanerStep

(* Nobody makes or deletes statistics behind the back of a loop.           *)
LEMMA LoopStep ==
  ASSUME MapsOK, PlacesOK, HoldsOK, LockOK, LoopOK, ThrottleNext
  PROVE  LoopOK'
<1>1. ASSUME NEW c \in Call, NEW a \in Address, Arrive(c, a) PROVE LoopOK'
  BY <1>1
  DEF PlacesOK, MapsOK, LoopOK, LockOK, HoldsOK, Goroutine, Places, Known, Unused,
      Move, objects, locks, callVars, Arrive
<1>2. ASSUME NEW c \in Call, FindStats(c) PROVE LoopOK'
  BY <1>2
  DEF PlacesOK, MapsOK, LoopOK, LockOK, HoldsOK, Goroutine, Places, Known, Unused,
      Move, objects, locks, callVars, FindStats
<1>3. ASSUME NEW c \in Call, Announce(c, "create", "creating") PROVE LoopOK'
  BY <1>3
  DEF PlacesOK, MapsOK, LoopOK, LockOK, HoldsOK, Goroutine, Places, Known, Unused,
      Move, objects, locks, callVars, Announce
<1>4. ASSUME NEW c \in Call, Announce(c, "subnetCreate", "subnetCreating") PROVE LoopOK'
  BY <1>4
  DEF PlacesOK, MapsOK, LoopOK, LockOK, HoldsOK, Goroutine, Places, Known, Unused,
      Move, objects, locks, callVars, Announce
<1>5. ASSUME NEW c \in Call, CreateStats(c) PROVE LoopOK'
  BY <1>5, CreateStatsFinds, CreateStatsMoves, SMTT(60)
  DEF MapsOK, PlacesOK, LoopOK, Goroutine, Places
<1>6. ASSUME NEW c \in Call, RefusePunished(c) PROVE LoopOK'
  BY <1>6
  DEF PlacesOK, MapsOK, LoopOK, LockOK, HoldsOK, Goroutine, Places, Known, Unused,
      Move, objects, locks, callVars, RefusePunished, Return
<1>7. ASSUME NEW c \in Call, Refill(c) PROVE LoopOK'
  BY <1>7
  DEF PlacesOK, MapsOK, LoopOK, LockOK, HoldsOK, Goroutine, Places, Known, Unused,
      Move, objects, locks, callVars, Refill
<1>8. ASSUME NEW c \in Call, FindSubnet(c) PROVE LoopOK'
  BY <1>8
  DEF PlacesOK, MapsOK, LoopOK, LockOK, HoldsOK, Goroutine, Places, Known, Unused,
      Move, objects, locks, callVars, FindSubnet
<1>9. ASSUME NEW c \in Call, CreateSubnet(c) PROVE LoopOK'
  BY <1>9
  DEF PlacesOK, MapsOK, LoopOK, LockOK, HoldsOK, Goroutine, Places, Known, Unused,
      Move, objects, locks, callVars, CreateSubnet
<1>10. ASSUME NEW c \in Call, Charge(c) PROVE LoopOK'
  BY <1>10
  DEF PlacesOK, MapsOK, LoopOK, LockOK, HoldsOK, Goroutine, Places, Known, Unused,
      Move, objects, locks, callVars, Charge, Return
<1>11. ASSUME NEW c \in Call, Respond(c) PROVE LoopOK'
  BY <1>11
  DEF PlacesOK, MapsOK, LoopOK, LockOK, HoldsOK, Goroutine, Places, Known, Unused,
      Move, objects, locks, callVars, Respond
<1>12. ASSUME NEW c \in Call, RecordFailure(c) PROVE LoopOK'
  BY <1>12, RecordFailureMoves DEF Return, PlacesOK, LoopOK, Goroutine, Places
<1>13. ASSUME NEW s \in Stats, scheduleUnblacklist(s) PROVE LoopOK'
  BY <1>13
  DEF PlacesOK, MapsOK, LoopOK, LockOK, HoldsOK, Goroutine, Places, Known, Unused,
      Move, objects, locks, callVars, scheduleUnblacklist
<1>14. ASSUME StartCleanup PROVE LoopOK'
  BY <1>14
  DEF PlacesOK, MapsOK, LoopOK, LockOK, HoldsOK, Goroutine, Places, Known, Unused,
      Move, objects, locks, callVars, StartCleanup
<1>15. ASSUME EnterCleanup PROVE LoopOK'
  BY <1>15
  DEF PlacesOK, MapsOK, LoopOK, LockOK, HoldsOK, Goroutine, Places, Known, Unused,
      Move, objects, locks, callVars, EnterCleanup
<1>16. ASSUME NEW a \in Address, cleanup(a) PROVE LoopOK'
  BY <1>16
  DEF PlacesOK, MapsOK, LoopOK, LockOK, HoldsOK, Goroutine, Places, Known, Unused,
      Move, objects, locks, callVars, cleanup
<1>17. ASSUME EndCleanup PROVE LoopOK'
  BY <1>17
  DEF PlacesOK, MapsOK, LoopOK, LockOK, HoldsOK, Goroutine, Places, Known, Unused,
      Move, objects, locks, callVars, EndCleanup
<1>18. ASSUME NEW r \in Reader, StartReading(r) PROVE LoopOK'
  BY <1>18
  DEF PlacesOK, MapsOK, LoopOK, LockOK, HoldsOK, Goroutine, Places, Known, Unused,
      Move, objects, locks, callVars, StartReading
<1>19. ASSUME NEW r \in Reader, NEW a \in Address, Read(r, a) PROVE LoopOK'
  BY <1>19
  DEF PlacesOK, MapsOK, LoopOK, LockOK, HoldsOK, Goroutine, Places, Known, Unused,
      Move, objects, locks, callVars, Read
<1>20. ASSUME NEW r \in Reader, EndReading(r) PROVE LoopOK'
  BY <1>20
  DEF PlacesOK, MapsOK, LoopOK, LockOK, HoldsOK, Goroutine, Places, Known, Unused,
      Move, objects, locks, callVars, EndReading
<1>21. ASSUME Minute PROVE LoopOK'
  BY <1>21
  DEF PlacesOK, MapsOK, LoopOK, LockOK, HoldsOK, Goroutine, Places, Known, Unused,
      Move, objects, locks, callVars, Minute
<1> QED
  BY <1>1, <1>2, <1>3, <1>4, <1>5, <1>6, <1>7, <1>8, <1>9, <1>10, <1>11,
     <1>12, <1>13, <1>14, <1>15, <1>16, <1>17, <1>18, <1>19, <1>20, <1>21
  DEF ThrottleNext, CallStep, ReaderStep, CleanerStep

(* Bounds of the counters.                                                 *)
LEMMA BoundsAreNat ==
  ASSUME MapsOK
  PROVE  /\ MaxFailures \in Nat /\ UnblockMinutes \in Nat \ {0}
         /\ Minutes \subseteq Nat /\ SuspiciousPenaltyMinutes \in Minutes
         /\ 0 .. MaxPenaltyMinutes \subseteq Minutes
<1>1. MaxPenaltyMinutes * FailureStep \in Nat /\ SuspiciousThreshold * 2 \in Nat
  OBVIOUS
<1> QED
  BY <1>1 DEF MaxFailures, UnblockMinutes, Minutes, Larger

(* The counters that recording a failure writes.                           *)
LEMMA RecordFailureCounts ==
  ASSUME NEW c \in Call, RecordFailure(c),
         NEW s, s = found[c], NEW n, n = Lesser(failed[s] + 1, MaxFailures)
  PROVE  /\ failed' = [failed EXCEPT ![s] = n]
         /\ penalty' = [penalty EXCEPT ![s] = Penalty(s, n)]
         /\ Blacklist(s) \/ UNCHANGED <<blacklisted, timers>>
         /\ UNCHANGED <<setup, ipStats, subnetKnown, age, trusted>>
  BY Zenon DEF RecordFailure

(* What blacklisting does to the blocks and the timers.                    *)
LEMMA BlacklistType ==
  ASSUME MapsOK, FieldsOK, NEW s \in Stats, Blacklist(s)
  PROVE  /\ blacklisted' \in [Stats -> BOOLEAN]
         /\ timers' \in [Stats -> [0 .. UnblockMinutes -> Nat]]
         /\ timers'[s][UnblockMinutes] > 0
         /\ \A t \in Stats \ {s} : blacklisted'[t] = blacklisted[t] /\ timers'[t] = timers[t]
<1> DEFINE new == [timers[s] EXCEPT ![UnblockMinutes] = @ + 1]
<1>1. UnblockMinutes \in 0 .. UnblockMinutes
  BY BoundsAreNat
<1>2. timers[s] \in [0 .. UnblockMinutes -> Nat]
  BY DEF FieldsOK
<1>3. new \in [0 .. UnblockMinutes -> Nat] /\ new[UnblockMinutes] > 0
  BY <1>1, <1>2
<1>4. timers' = [timers EXCEPT ![s] = new]
  BY <1>2 DEF Blacklist
<1> HIDE DEF new
<1>5. /\ timers' \in [Stats -> [0 .. UnblockMinutes -> Nat]]
      /\ timers'[s] = new /\ \A t \in Stats \ {s} : timers'[t] = timers[t]
  BY <1>3, <1>4 DEF FieldsOK
<1>6. /\ blacklisted' \in [Stats -> BOOLEAN]
      /\ \A t \in Stats \ {s} : blacklisted'[t] = blacklisted[t]
  BY DEF FieldsOK, Blacklist
<1> QED
  BY <1>3, <1>5, <1>6

(* What a timer does to the blocks and the timers.                         *)
LEMMA UnblacklistType ==
  ASSUME MapsOK, FieldsOK, NEW s \in Stats, scheduleUnblacklist(s)
  PROVE  /\ blacklisted' \in [Stats -> BOOLEAN] /\ ~blacklisted'[s]
         /\ timers' \in [Stats -> [0 .. UnblockMinutes -> Nat]]
         /\ \A t \in Stats \ {s} : blacklisted'[t] = blacklisted[t] /\ timers'[t] = timers[t]
<1> DEFINE new == [timers[s] EXCEPT ![0] = @ - 1]
<1>1. 0 \in 0 .. UnblockMinutes
  BY BoundsAreNat
<1>2. timers[s] \in [0 .. UnblockMinutes -> Nat]
  BY DEF FieldsOK
<1>7. timers[s][0] - 1 \in Nat
  <2>1. timers[s][0] > 0
    BY Zenon DEF scheduleUnblacklist
  <2>2. timers[s][0] \in Nat
    BY <1>1, <1>2
  <2> QED
    BY <2>1, <2>2
<1>3. new \in [0 .. UnblockMinutes -> Nat]
  BY <1>1, <1>2, <1>7
<1>4. timers' = [timers EXCEPT ![s] = new]
  BY <1>2 DEF scheduleUnblacklist
<1> HIDE DEF new
<1>5. /\ timers' \in [Stats -> [0 .. UnblockMinutes -> Nat]]
      /\ \A t \in Stats \ {s} : timers'[t] = timers[t]
  BY <1>3, <1>4 DEF FieldsOK
<1>6. /\ blacklisted' \in [Stats -> BOOLEAN] /\ ~blacklisted'[s]
      /\ \A t \in Stats \ {s} : blacklisted'[t] = blacklisted[t]
  BY DEF FieldsOK, scheduleUnblacklist
<1> QED
  BY <1>5, <1>6

(* A minute keeps the types, and the timers that are not due.              *)
LEMMA MinuteType ==
  ASSUME MapsOK, FieldsOK, Minute
  PROVE  /\ FieldsOK'
         /\ \A s \in Stats, m \in 0 .. UnblockMinutes :
              timers[s][m] > 0 => \E n \in 0 .. UnblockMinutes : timers'[s][n] > 0
<1> USE BoundsAreNat
<1>1. setup' = setup /\ failed' = failed /\ blacklisted' = blacklisted
  BY DEF Minute
<1>2. penalty' \in [Stats -> Minutes]
  <2>1. ASSUME NEW p \in Minutes PROVE (IF p = 0 THEN 0 ELSE p - 1) \in Minutes
    BY DEF Minutes, Larger
  <2> QED
    BY <2>1 DEF FieldsOK, Minute
<1>3. age' \in [Stats -> 0 .. MaxIdle + 1]
  BY DEF FieldsOK, Minute, Lesser
<1>4. ASSUME NEW s \in Stats
      PROVE  /\ timers'[s] = [m \in 0 .. UnblockMinutes |->
                  (IF m = 0 THEN timers[s][0] ELSE 0)
                    + (IF m = UnblockMinutes THEN 0 ELSE timers[s][m + 1])]
             /\ \A m \in 0 .. UnblockMinutes : timers[s][m] \in Nat
  BY DEF FieldsOK, Minute
<1>5. ASSUME NEW s \in Stats, NEW m \in 0 .. UnblockMinutes
      PROVE  \E x, y \in Nat :
               /\ timers'[s][m] = x + y
               /\ m = 0 => x = timers[s][0]
               /\ m # UnblockMinutes => y = timers[s][m + 1]
  <2> DEFINE x == IF m = 0 THEN timers[s][0] ELSE 0
             y == IF m = UnblockMinutes THEN 0 ELSE timers[s][m + 1]
  <2>1. timers'[s][m] = x + y
    BY <1>4, ZenonT(60)
  <2>2. m # UnblockMinutes => m + 1 \in 0 .. UnblockMinutes
    OBVIOUS
  <2>3. x \in Nat /\ y \in Nat
    BY <1>4, <2>2
  <2> QED
    BY <2>1, <2>3
<1>6. ASSUME NEW s \in Stats
      PROVE  timers'[s] \in [0 .. UnblockMinutes -> Nat]
  <2>1. \A m \in 0 .. UnblockMinutes : timers'[s][m] \in Nat
    BY <1>5
  <2> QED
    BY <1>4, <2>1
<1>7. timers' \in [Stats -> [0 .. UnblockMinutes -> Nat]]
  BY <1>6 DEF Minute
<1>8. ASSUME NEW s \in Stats, NEW m \in 0 .. UnblockMinutes, timers[s][m] > 0
      PROVE  \E n \in 0 .. UnblockMinutes : timers'[s][n] > 0
  <2>1. CASE m = 0
    <3>1. timers'[s][m] > 0
      BY <1>5, <1>8, <2>1
    <3> QED
      BY <3>1
  <2>2. CASE m # 0
    <3> DEFINE n == m - 1
    <3>1. n \in 0 .. UnblockMinutes /\ n # UnblockMinutes /\ n + 1 = m
      BY <2>2
    <3>2. timers[s][n + 1] > 0
      BY <1>8, <3>1
    <3> HIDE DEF n
    <3>3. timers'[s][n] > 0
      BY <1>5, <3>1, <3>2
    <3> QED
      BY <3>1, <3>3
  <2> QED
    BY <2>1, <2>2
<1>9. MaxFailures' = MaxFailures
  BY <1>1 DEF MaxFailures
<1> QED
  BY <1>1, <1>2, <1>3, <1>7, <1>8, <1>9 DEF FieldsOK


(* The fields of the statistics keep their types.                          *)
LEMMA FieldsStep ==
  ASSUME MapsOK, FieldsOK, PlacesOK, HoldsOK, ThrottleNext
  PROVE  MapsOK' /\ FieldsOK'
<1>1. ASSUME NEW c \in Call, NEW a \in Address, Arrive(c, a) PROVE MapsOK' /\ FieldsOK'
  BY <1>1, BoundsAreNat
  DEF MapsOK, FieldsOK, PlacesOK, HoldsOK, MaxFailures, Unused, Move, objects, locks,
      callVars, Arrive
<1>2. ASSUME NEW c \in Call, FindStats(c) PROVE MapsOK' /\ FieldsOK'
  BY <1>2, BoundsAreNat
  DEF MapsOK, FieldsOK, PlacesOK, HoldsOK, MaxFailures, Unused, Move, objects, locks,
      callVars, FindStats
<1>3. ASSUME NEW c \in Call, Announce(c, "create", "creating") PROVE MapsOK' /\ FieldsOK'
  BY <1>3, BoundsAreNat
  DEF MapsOK, FieldsOK, PlacesOK, HoldsOK, MaxFailures, Unused, Move, objects, locks,
      callVars, Announce
<1>4. ASSUME NEW c \in Call, Announce(c, "subnetCreate", "subnetCreating") PROVE MapsOK' /\ FieldsOK'
  BY <1>4, BoundsAreNat
  DEF MapsOK, FieldsOK, PlacesOK, HoldsOK, MaxFailures, Unused, Move, objects, locks,
      callVars, Announce
<1>5. ASSUME NEW c \in Call, CreateStats(c) PROVE MapsOK' /\ FieldsOK'
  <2>1. PICK s \in Stats :
           \/ UNCHANGED <<ipStats, objects>>
           \/ /\ UNCHANGED timers
              /\ trusted' = trusted \cup {s} \/ trusted' = trusted \ {s}
              /\ ipStats' = [ipStats EXCEPT ![address[c]] = s]
              /\ failed' = [failed EXCEPT ![s] = 0]
              /\ penalty' = [penalty EXCEPT ![s] = 0]
              /\ blacklisted' = [blacklisted EXCEPT ![s] = FALSE]
              /\ age' = [age EXCEPT ![s] = 0]
    BY <1>5, CreateStatsFinds
  <2>2. setup' = setup /\ subnetKnown' = subnetKnown
    BY <1>5, CreateStatsMoves
  <2>3. MaxFailures' = MaxFailures
    BY <2>2 DEF MaxFailures
  <2>4. ipStats' \in [Address -> Stats \cup {None}] /\ trusted' \subseteq Stats
    BY <2>1 DEF MapsOK, objects
  <2>5. 0 \in 0 .. MaxFailures /\ 0 \in Minutes /\ 0 \in 0 .. MaxIdle + 1
    BY BoundsAreNat DEF Minutes, Larger
  <2>6. /\ failed' \in [Stats -> 0 .. MaxFailures] /\ penalty' \in [Stats -> Minutes]
        /\ blacklisted' \in [Stats -> BOOLEAN] /\ age' \in [Stats -> 0 .. MaxIdle + 1]
        /\ timers' = timers
    <3>1. CASE UNCHANGED objects
      BY <3>1 DEF FieldsOK, objects
    <3>2. CASE ~UNCHANGED objects
      <4>1. failed' = [failed EXCEPT ![s] = 0] /\ penalty' = [penalty EXCEPT ![s] = 0]
            /\ blacklisted' = [blacklisted EXCEPT ![s] = FALSE]
            /\ age' = [age EXCEPT ![s] = 0] /\ timers' = timers
        BY <2>1, <3>2
      <4>2. failed' \in [Stats -> 0 .. MaxFailures] /\ penalty' \in [Stats -> Minutes]
        BY <4>1, <2>5 DEF FieldsOK
      <4> QED
        BY <4>1, <4>2, <2>5 DEF FieldsOK
    <3> QED
      BY <3>1, <3>2
  <2> QED
    BY <2>2, <2>3, <2>4, <2>6 DEF MapsOK, FieldsOK
<1>6. ASSUME NEW c \in Call, RefusePunished(c) PROVE MapsOK' /\ FieldsOK'
  BY <1>6, BoundsAreNat
  DEF MapsOK, FieldsOK, PlacesOK, HoldsOK, MaxFailures, Unused, Move, objects, locks,
      callVars, RefusePunished, Return
<1>7. ASSUME NEW c \in Call, Refill(c) PROVE MapsOK' /\ FieldsOK'
  BY <1>7, BoundsAreNat
  DEF MapsOK, FieldsOK, PlacesOK, HoldsOK, MaxFailures, Unused, Move, objects, locks,
      callVars, Refill
<1>8. ASSUME NEW c \in Call, FindSubnet(c) PROVE MapsOK' /\ FieldsOK'
  BY <1>8, BoundsAreNat
  DEF MapsOK, FieldsOK, PlacesOK, HoldsOK, MaxFailures, Unused, Move, objects, locks,
      callVars, FindSubnet
<1>9. ASSUME NEW c \in Call, CreateSubnet(c) PROVE MapsOK' /\ FieldsOK'
  BY <1>9, BoundsAreNat
  DEF MapsOK, FieldsOK, PlacesOK, HoldsOK, MaxFailures, Unused, Move, objects, locks,
      callVars, CreateSubnet
<1>10. ASSUME NEW c \in Call, Charge(c) PROVE MapsOK' /\ FieldsOK'
  BY <1>10, BoundsAreNat
  DEF MapsOK, FieldsOK, PlacesOK, HoldsOK, MaxFailures, Unused, Move, objects, locks,
      callVars, Charge, Return
<1>11. ASSUME NEW c \in Call, Respond(c) PROVE MapsOK' /\ FieldsOK'
  BY <1>11, BoundsAreNat
  DEF MapsOK, FieldsOK, PlacesOK, HoldsOK, MaxFailures, Unused, Move, objects, locks,
      callVars, Respond
<1>12. ASSUME NEW c \in Call, RecordFailure(c) PROVE MapsOK' /\ FieldsOK'
  <2> DEFINE s == found[c]
             n == Lesser(failed[s] + 1, MaxFailures)
  <2>1. s \in Stats
    BY <1>12, RecordFailureMoves DEF HoldsOK
  <2>2. n \in 0 .. MaxFailures
    BY <2>1, BoundsAreNat DEF FieldsOK, Lesser
  <2>3. n \div FailureStep \in Nat
    BY <2>2, BoundsAreNat
  <2>4. Lesser(n \div FailureStep, MaxPenaltyMinutes) \in Minutes
    BY <2>3, BoundsAreNat DEF Lesser
  <2>5. Penalty(s, n) \in Minutes
    BY <2>1, <2>4, BoundsAreNat DEF Penalty, FieldsOK
  <2>6. /\ failed' = [failed EXCEPT ![s] = n]
        /\ penalty' = [penalty EXCEPT ![s] = Penalty(s, n)]
        /\ Blacklist(s) \/ UNCHANGED <<blacklisted, timers>>
        /\ UNCHANGED <<setup, ipStats, subnetKnown, age, trusted>>
    BY <1>12, RecordFailureCounts
  <2> HIDE DEF s, n
  <2>7. /\ failed' \in [Stats -> 0 .. MaxFailures]
        /\ penalty' \in [Stats -> Minutes]
        /\ age' \in [Stats -> 0 .. MaxIdle + 1] /\ MaxFailures' = MaxFailures
    BY <2>2, <2>5, <2>6 DEF FieldsOK, MaxFailures
  <2>8. /\ blacklisted' \in [Stats -> BOOLEAN]
        /\ timers' \in [Stats -> [0 .. UnblockMinutes -> Nat]]
    BY <2>1, <2>6, BlacklistType DEF FieldsOK
  <2> QED
    BY <2>6, <2>7, <2>8 DEF MapsOK, FieldsOK
<1>13. ASSUME NEW s \in Stats, scheduleUnblacklist(s) PROVE MapsOK' /\ FieldsOK'
  BY <1>13, UnblacklistType DEF MapsOK, FieldsOK, MaxFailures, scheduleUnblacklist
<1>14. ASSUME StartCleanup PROVE MapsOK' /\ FieldsOK'
  BY <1>14, BoundsAreNat
  DEF MapsOK, FieldsOK, PlacesOK, HoldsOK, MaxFailures, Unused, Move, objects, locks,
      callVars, StartCleanup
<1>15. ASSUME EnterCleanup PROVE MapsOK' /\ FieldsOK'
  BY <1>15, BoundsAreNat
  DEF MapsOK, FieldsOK, PlacesOK, HoldsOK, MaxFailures, Unused, Move, objects, locks,
      callVars, EnterCleanup
<1>16. ASSUME NEW a \in Address, cleanup(a) PROVE MapsOK' /\ FieldsOK'
  BY <1>16, BoundsAreNat
  DEF MapsOK, FieldsOK, PlacesOK, HoldsOK, MaxFailures, Unused, Move, objects, locks,
      callVars, cleanup
<1>17. ASSUME EndCleanup PROVE MapsOK' /\ FieldsOK'
  BY <1>17, BoundsAreNat
  DEF MapsOK, FieldsOK, PlacesOK, HoldsOK, MaxFailures, Unused, Move, objects, locks,
      callVars, EndCleanup
<1>18. ASSUME NEW r \in Reader, StartReading(r) PROVE MapsOK' /\ FieldsOK'
  BY <1>18, BoundsAreNat
  DEF MapsOK, FieldsOK, PlacesOK, HoldsOK, MaxFailures, Unused, Move, objects, locks,
      callVars, StartReading
<1>19. ASSUME NEW r \in Reader, NEW a \in Address, Read(r, a) PROVE MapsOK' /\ FieldsOK'
  BY <1>19, BoundsAreNat
  DEF MapsOK, FieldsOK, PlacesOK, HoldsOK, MaxFailures, Unused, Move, objects, locks,
      callVars, Read
<1>20. ASSUME NEW r \in Reader, EndReading(r) PROVE MapsOK' /\ FieldsOK'
  BY <1>20, BoundsAreNat
  DEF MapsOK, FieldsOK, PlacesOK, HoldsOK, MaxFailures, Unused, Move, objects, locks,
      callVars, EndReading
<1>21. ASSUME Minute PROVE MapsOK' /\ FieldsOK'
  BY <1>21, MinuteType DEF MapsOK, Minute
<1> QED
  BY <1>1, <1>2, <1>3, <1>4, <1>5, <1>6, <1>7, <1>8, <1>9, <1>10, <1>11,
     <1>12, <1>13, <1>14, <1>15, <1>16, <1>17, <1>18, <1>19, <1>20, <1>21
  DEF ThrottleNext, CallStep, ReaderStep, CleanerStep

(* A block comes with a timer, and no timer is lost.                       *)
LEMMA TimerStep ==
  ASSUME MapsOK, FieldsOK, HoldsOK, BlockHasTimer, ThrottleNext
  PROVE  BlockHasTimer'
<1>1. ASSUME NEW c \in Call, NEW a \in Address, Arrive(c, a) PROVE BlockHasTimer'
  BY <1>1, BoundsAreNat
  DEF MapsOK, FieldsOK, BlockHasTimer, Unused, Move, objects, locks, callVars, Arrive
<1>2. ASSUME NEW c \in Call, FindStats(c) PROVE BlockHasTimer'
  BY <1>2, BoundsAreNat
  DEF MapsOK, FieldsOK, BlockHasTimer, Unused, Move, objects, locks, callVars,
      FindStats
<1>3. ASSUME NEW c \in Call, Announce(c, "create", "creating") PROVE BlockHasTimer'
  BY <1>3, BoundsAreNat
  DEF MapsOK, FieldsOK, BlockHasTimer, Unused, Move, objects, locks, callVars,
      Announce
<1>4. ASSUME NEW c \in Call, Announce(c, "subnetCreate", "subnetCreating") PROVE BlockHasTimer'
  BY <1>4, BoundsAreNat
  DEF MapsOK, FieldsOK, BlockHasTimer, Unused, Move, objects, locks, callVars,
      Announce
<1>5. ASSUME NEW c \in Call, CreateStats(c) PROVE BlockHasTimer'
  BY <1>5, CreateStatsFinds, ZenonT(60) DEF FieldsOK, BlockHasTimer, Unused, objects
<1>6. ASSUME NEW c \in Call, RefusePunished(c) PROVE BlockHasTimer'
  BY <1>6, BoundsAreNat
  DEF MapsOK, FieldsOK, BlockHasTimer, Unused, Move, objects, locks, callVars,
      RefusePunished, Return
<1>7. ASSUME NEW c \in Call, Refill(c) PROVE BlockHasTimer'
  BY <1>7, BoundsAreNat
  DEF MapsOK, FieldsOK, BlockHasTimer, Unused, Move, objects, locks, callVars, Refill
<1>8. ASSUME NEW c \in Call, FindSubnet(c) PROVE BlockHasTimer'
  BY <1>8, BoundsAreNat
  DEF MapsOK, FieldsOK, BlockHasTimer, Unused, Move, objects, locks, callVars,
      FindSubnet
<1>9. ASSUME NEW c \in Call, CreateSubnet(c) PROVE BlockHasTimer'
  BY <1>9, BoundsAreNat
  DEF MapsOK, FieldsOK, BlockHasTimer, Unused, Move, objects, locks, callVars,
      CreateSubnet
<1>10. ASSUME NEW c \in Call, Charge(c) PROVE BlockHasTimer'
  BY <1>10, BoundsAreNat
  DEF MapsOK, FieldsOK, BlockHasTimer, Unused, Move, objects, locks, callVars, Charge,
      Return
<1>11. ASSUME NEW c \in Call, Respond(c) PROVE BlockHasTimer'
  BY <1>11, BoundsAreNat
  DEF MapsOK, FieldsOK, BlockHasTimer, Unused, Move, objects, locks, callVars, Respond
<1>12. ASSUME NEW c \in Call, RecordFailure(c) PROVE BlockHasTimer'
  <2>1. found[c] \in Stats
    BY <1>12, RecordFailureMoves DEF HoldsOK
  <2>2. Blacklist(found[c]) \/ UNCHANGED <<blacklisted, timers>>
    BY <1>12, RecordFailureCounts
  <2>3. UnblockMinutes \in 0 .. UnblockMinutes
    BY BoundsAreNat
  <2> QED
    BY <2>1, <2>2, <2>3, BlacklistType DEF BlockHasTimer
<1>13. ASSUME NEW s \in Stats, scheduleUnblacklist(s) PROVE BlockHasTimer'
  BY <1>13, UnblacklistType DEF BlockHasTimer
<1>14. ASSUME StartCleanup PROVE BlockHasTimer'
  BY <1>14, BoundsAreNat
  DEF MapsOK, FieldsOK, BlockHasTimer, Unused, Move, objects, locks, callVars,
      StartCleanup
<1>15. ASSUME EnterCleanup PROVE BlockHasTimer'
  BY <1>15, BoundsAreNat
  DEF MapsOK, FieldsOK, BlockHasTimer, Unused, Move, objects, locks, callVars,
      EnterCleanup
<1>16. ASSUME NEW a \in Address, cleanup(a) PROVE BlockHasTimer'
  BY <1>16, BoundsAreNat
  DEF MapsOK, FieldsOK, BlockHasTimer, Unused, Move, objects, locks, callVars, cleanup
<1>17. ASSUME EndCleanup PROVE BlockHasTimer'
  BY <1>17, BoundsAreNat
  DEF MapsOK, FieldsOK, BlockHasTimer, Unused, Move, objects, locks, callVars,
      EndCleanup
<1>18. ASSUME NEW r \in Reader, StartReading(r) PROVE BlockHasTimer'
  BY <1>18, BoundsAreNat
  DEF MapsOK, FieldsOK, BlockHasTimer, Unused, Move, objects, locks, callVars,
      StartReading
<1>19. ASSUME NEW r \in Reader, NEW a \in Address, Read(r, a) PROVE BlockHasTimer'
  BY <1>19, BoundsAreNat
  DEF MapsOK, FieldsOK, BlockHasTimer, Unused, Move, objects, locks, callVars, Read
<1>20. ASSUME NEW r \in Reader, EndReading(r) PROVE BlockHasTimer'
  BY <1>20, BoundsAreNat
  DEF MapsOK, FieldsOK, BlockHasTimer, Unused, Move, objects, locks, callVars,
      EndReading
<1>21. ASSUME Minute PROVE BlockHasTimer'
  BY <1>21, MinuteType DEF BlockHasTimer, Minute
<1> QED
  BY <1>1, <1>2, <1>3, <1>4, <1>5, <1>6, <1>7, <1>8, <1>9, <1>10, <1>11,
     <1>12, <1>13, <1>14, <1>15, <1>16, <1>17, <1>18, <1>19, <1>20, <1>21
  DEF ThrottleNext, CallStep, ReaderStep, CleanerStep

(* All of it together.                                                     *)
LEMMA ThrottleInvariant == ThrottleSpec => []IInv
<1>1. ThrottleInit => IInv
  <2> SUFFICES ASSUME ThrottleInit PROVE IInv
    OBVIOUS
  <2>1. MapsOK /\ PlacesOK
    BY DEF ThrottleInit, MapsOK, PlacesOK, Places, Goroutine
  <2>2. FieldsOK
    <3>1. NoTimers \in [0 .. UnblockMinutes -> Nat]
      BY DEF NoTimers
    <3>2. 0 \in 0 .. MaxFailures /\ 0 \in Minutes /\ 0 \in 0 .. MaxIdle + 1
      BY <2>1, BoundsAreNat DEF Minutes, Larger
    <3> QED
      BY <3>1, <3>2 DEF ThrottleInit, FieldsOK
  <2>3. HoldsOK /\ LockOK /\ LoopOK /\ BlockHasTimer
    BY DEF ThrottleInit, HoldsOK, LockOK, LoopOK, BlockHasTimer, Holding, Goroutine
  <2> QED
    BY <2>1, <2>2, <2>3 DEF IInv
<1>2. IInv /\ [ThrottleNext]_throttleVars => IInv'
  <2> SUFFICES ASSUME IInv, [ThrottleNext]_throttleVars PROVE IInv'
    OBVIOUS
  <2> USE DEF IInv
  <2>1. CASE ThrottleNext
    BY <2>1, FieldsStep, PlacesStep, HoldsStep, LockStep, LoopStep, TimerStep
  <2>2. CASE UNCHANGED throttleVars
    <3>1. MapsOK' /\ FieldsOK'
      BY <2>2 DEF throttleVars, MapsOK, FieldsOK, MaxFailures
    <3>2. PlacesOK'
      BY <2>2 DEF throttleVars, PlacesOK
    <3>3. HoldsOK' /\ LockOK' /\ LoopOK' /\ BlockHasTimer'
      BY <2>2 DEF throttleVars, HoldsOK, LockOK, LoopOK, BlockHasTimer
    <3> QED
      BY <3>1, <3>2, <3>3
  <2> QED
    BY <2>1, <2>2
<1> QED
  BY <1>1, <1>2, PTL DEF ThrottleSpec

-----------------------------------------------------------------------------
(* Every field of the throttler has its type.                              *)
THEOREM ThrottleTypesCorrect == ThrottleSpec => []ThrottleTypeOK
<1>1. IInv => ThrottleTypeOK
  BY DEF IInv, MapsOK, FieldsOK, PlacesOK, Places, ThrottleTypeOK
<1> QED
  BY <1>1, ThrottleInvariant, PTL

(* A blacklisted address always has a timer that will lift its block: the  *)
(* only writers of blacklisted are RecordFailure, which starts one, and a  *)
(* timer itself.                                                           *)
THEOREM BlocksEnd == ThrottleSpec => []BlockHasTimer
<1>1. IInv => BlockHasTimer
  BY DEF IInv
<1> QED
  BY <1>1, ThrottleInvariant, PTL

(* Allow gives its lock up while it asks for the subnet for no one: two    *)
(* calls that are between the refill and the answer have different         *)
(* statistics.                                                             *)
OneHolder ==
  \A c, d \in Call :
    c # d /\ place[c] \in Holding /\ place[d] \in Holding => found[c] # found[d]

THEOREM StatisticsExclusive == ThrottleSpec => []OneHolder
<1>1. IInv => OneHolder
  BY DEF IInv, HoldsOK, OneHolder
<1> QED
  BY <1>1, ThrottleInvariant, PTL

(* GetStats, GetTopThrottledIPs and cleanup never meet an entry that was   *)
(* deleted since their loop began: t.mu keeps them apart, although Allow   *)
(* takes and gives back t.mu in the middle of its own critical section.    *)
THEOREM LoopsFindTheirEntries == ThrottleSpec => []LoopOK
<1>1. IInv => LoopOK
  BY DEF IInv
<1> QED
  BY <1>1, ThrottleInvariant, PTL

-----------------------------------------------------------------------------
(* The timers of an address.  Its totals say how many are due within m      *)
(* minutes; a wave is what began with a failure while no penalty ran.       *)

HIDE ThrottleAssumption
HIDE DEF ThrottleAssumption

Half == SuspiciousPenaltyMinutes
Over == UnblockMinutes + 1
Callers == Cardinality(Call)

Totals(sleeping, up) ==
  /\ up \in [0 .. Over -> Nat] /\ up[0] = 0
  /\ \A m \in 0 .. UnblockMinutes : up[m + 1] = up[m] + sleeping[m]
  /\ \A i \in 0 .. Over, j \in 0 .. Over : i <= j => up[i] <= up[j]

(* No penalty runs: those that are not due are of one wave.                *)
Calm(up, term) ==
  /\ term = 0 /\ \A j \in Half + 1 .. Over : up[j] = up[Over]
  /\ up[Over] - up[1] <= Callers /\ up[Over] <= 2 * Callers

(* A penalty runs for left minutes more, in a wave whose first timer is    *)
(* due in k minutes; waiting calls can still fail in it.                   *)
Wave(up, term, k, waiting) ==
  /\ term \in 1 .. Half /\ k <= Half + term
  /\ \A j \in Half + term + 1 .. Over : up[j] = up[Over]
  /\ \A j \in 0 .. k : j + Half >= k + 1 => up[j] = up[k]
  /\ k = UnblockMinutes => up[k] <= 2 * Callers /\ up[k] - up[1] <= Callers
  /\ k < UnblockMinutes => up[k] <= Callers
  /\ up[Over] - up[k] + waiting <= Callers

Waves(up, term, waiting) ==
  Calm(up, term) \/ \E k \in 0 .. UnblockMinutes : Wave(up, term, k, waiting)

LEMMA TimesAre ==
  /\ Half \in Nat /\ Half >= 1 /\ UnblockMinutes \in Nat /\ UnblockMinutes = Half + Half
  /\ Over = UnblockMinutes + 1
  BY ThrottleAssumption DEF ThrottleAssumption, Half, Over, UnblockMinutes

LEMMA CallersCounted == IsFiniteSet(Call) => Callers \in Nat
  BY FS_CardinalityType DEF Callers

LEMMA FewTimers ==
  ASSUME IsFiniteSet(Call), NEW asleep, NEW up, Totals(asleep, up), NEW term \in Nat, NEW waiting \in Nat,
         up[Over] = 0 \/ Waves(up, term, waiting)
  PROVE  up[Over] <= 3 * Callers
<1>1. Callers \in Nat
  BY CallersCounted
<1>2. CASE up[Over] = 0
  BY <1>1, <1>2
<1>3. CASE Calm(up, term)
  <2>1. up[Over] <= 2 * Callers /\ Over \in 0 .. Over /\ up[Over] \in Nat
    BY <1>3, TimesAre DEF Calm, Totals
  <2> QED BY <1>1, <2>1
<1>4. ASSUME NEW k \in 0 .. UnblockMinutes, Wave(up, term, k, waiting) PROVE up[Over] <= 3 * Callers
  <2>1. k \in 0 .. Over /\ Over \in 0 .. Over
    BY TimesAre
  <2>2. up[k] \in Nat /\ up[Over] \in Nat
    BY <2>1 DEF Totals
  <2>3. up[k] <= 2 * Callers
    <3>1. k \in Nat /\ (k = UnblockMinutes \/ k < UnblockMinutes)
      BY TimesAre
    <3>2. k < UnblockMinutes => up[k] <= Callers
      BY <1>4 DEF Wave
    <3>3. k = UnblockMinutes => up[k] <= 2 * Callers
      BY <1>4 DEF Wave
    <3> QED BY <1>1, <2>2, <3>1, <3>2, <3>3
  <2>4. up[Over] - up[k] + waiting <= Callers
    BY <1>4 DEF Wave
  <2> QED BY <1>1, <2>2, <2>3, <2>4
<1> QED BY <1>2, <1>3, <1>4 DEF Waves

(* A new timer.                                                            *)
LEMMA TimerStarts ==
  ASSUME IsFiniteSet(Call), NEW asleep \in [0 .. UnblockMinutes -> Nat], NEW up, Totals(asleep, up),
         NEW term \in Nat, NEW waiting \in Nat, NEW later \in Nat,
         \/ up[Over] = 0 /\ later + 1 <= Callers
         \/ Calm(up, term) /\ later + 1 <= Callers
         \/ Waves(up, term, waiting) /\ term # 0 /\ later + 1 <= waiting
  PROVE  \E new : /\ Totals([asleep EXCEPT ![UnblockMinutes] = @ + 1], new)
                  /\ Waves(new, Half, later)
<1> DEFINE new == [up EXCEPT ![Over] = @ + 1]
           next == [asleep EXCEPT ![UnblockMinutes] = @ + 1]
<1>1. Callers \in Nat
  BY CallersCounted
<1>2. /\ new \in [0 .. Over -> Nat] /\ up \in [0 .. Over -> Nat]
      /\ new[Over] = up[Over] + 1
      /\ \A m \in 0 .. UnblockMinutes : m \in 0 .. Over /\ new[m] = up[m]
  <2>1. up \in [0 .. Over -> Nat] /\ Over \in 0 .. Over /\ up[Over] + 1 \in Nat
    <3>1. up \in [0 .. Over -> Nat]
      BY DEF Totals
    <3>2. Over \in 0 .. Over
      BY TimesAre
    <3> QED BY <3>1, <3>2
  <2>2. ASSUME NEW m \in 0 .. UnblockMinutes PROVE m \in 0 .. Over /\ m # Over
    BY TimesAre
  <2> QED BY <2>1, <2>2
<1>3. /\ next[UnblockMinutes] = asleep[UnblockMinutes] + 1
      /\ \A m \in 0 .. UnblockMinutes - 1 : next[m] = asleep[m]
  BY TimesAre
<1> HIDE DEF new, next
<1>4. \A i \in 0 .. Over : up[i] \in Nat
  BY <1>2
<1>5. Totals(next, new)
  <2>1. new[0] = 0
    BY <1>2, TimesAre DEF Totals
  <2>2. ASSUME NEW m \in 0 .. UnblockMinutes PROVE new[m + 1] = new[m] + next[m]
    <3>1. up[m + 1] = up[m] + asleep[m] /\ m + 1 \in 0 .. Over /\ m \in 0 .. Over
      BY TimesAre DEF Totals
    <3>2. CASE m = UnblockMinutes
      <4>1. new[m + 1] = up[m + 1] + 1 /\ new[m] = up[m] /\ next[m] = asleep[m] + 1
        BY <1>2, <1>3, <3>2, TimesAre
      <4> QED BY <1>4, <3>1, <4>1
    <3>3. CASE m # UnblockMinutes
      <4>1. m \in 0 .. UnblockMinutes - 1 /\ m + 1 \in 0 .. UnblockMinutes
        BY <3>3, TimesAre
      <4> QED BY <1>2, <1>3, <3>1, <4>1
    <3> QED BY <3>2, <3>3
  <2>3. ASSUME NEW i \in 0 .. Over, NEW j \in 0 .. Over, i <= j PROVE new[i] <= new[j]
    <3>1. up[i] <= up[j] /\ up[i] \in Nat /\ up[j] \in Nat
      BY <1>4, <2>3 DEF Totals
    <3>2. \A h \in 0 .. Over : h = Over \/ h \in 0 .. UnblockMinutes
      BY TimesAre
    <3>4. \A h \in 0 .. Over : new[h] = IF h = Over THEN up[h] + 1 ELSE up[h]
      <4> SUFFICES ASSUME NEW h \in 0 .. Over PROVE new[h] = IF h = Over THEN up[h] + 1 ELSE up[h]
        OBVIOUS
      <4>1. CASE h = Over
        BY <1>2, <4>1
      <4>2. CASE h # Over
        BY <1>2, <3>2, <4>2
      <4> QED BY <4>1, <4>2
    <3>3. i = Over => j = Over
      BY <2>3, TimesAre
    <3> QED BY <3>1, <3>3, <3>4
  <2> QED BY <1>2, <2>1, <2>2, <2>3 DEF Totals
<1>6. UnblockMinutes \in 0 .. Over /\ 1 \in 0 .. UnblockMinutes /\ UnblockMinutes \in 0 .. UnblockMinutes /\ Over \in 0 .. Over
  BY TimesAre
<1>7. CASE \/ up[Over] = 0 /\ later + 1 <= Callers
           \/ Calm(up, term) /\ later + 1 <= Callers
  <2>1. /\ \A j \in Half + 1 .. UnblockMinutes : up[j] = up[Over]
        /\ up[Over] <= 2 * Callers /\ up[Over] - up[1] <= Callers
    <3>1. CASE up[Over] = 0
      <4>1. \A j \in 0 .. Over : up[j] <= up[Over] /\ up[j] \in Nat
        BY <1>4, <1>6 DEF Totals
      <4>2. \A j \in 0 .. Over : up[j] = 0
        BY <3>1, <4>1
      <4>3. \A j \in Half + 1 .. UnblockMinutes : j \in 0 .. Over
        BY TimesAre
      <4> QED BY <1>1, <1>6, <3>1, <4>2, <4>3, TimesAre
    <3>2. CASE Calm(up, term)
      <4>1. \A j \in Half + 1 .. UnblockMinutes : j \in Half + 1 .. Over
        BY TimesAre
      <4> QED BY <3>2, <4>1 DEF Calm
    <3> QED BY <1>7, <3>1, <3>2
  <2>2. UnblockMinutes \in Half + 1 .. UnblockMinutes
    BY TimesAre
  <2>3. Wave(new, Half, UnblockMinutes, later)
    <3>1. Half \in 1 .. Half /\ UnblockMinutes <= Half + Half /\ \A j \in Half + Half + 1 .. Over : j = Over
      BY TimesAre
    <3>2. ASSUME NEW j \in 0 .. UnblockMinutes, j + Half >= UnblockMinutes + 1 PROVE new[j] = new[UnblockMinutes]
      <4>1. j \in Half + 1 .. UnblockMinutes
        BY <3>2, TimesAre
      <4> QED BY <1>2, <1>6, <2>1, <2>2, <4>1
    <3>3. /\ new[UnblockMinutes] = up[Over] /\ new[1] = up[1] /\ new[Over] = up[Over] + 1
          /\ up[Over] \in Nat
      BY <1>2, <1>4, <1>6, <2>1, <2>2
    <3>4. later + 1 <= Callers
      BY <1>7
    <3>5. new[Over] - new[UnblockMinutes] + later <= Callers
      BY <1>1, <3>3, <3>4
    <3> QED BY <2>1, <3>1, <3>2, <3>3, <3>5, TimesAre DEF Wave
  <2> QED BY <1>5, <1>6, <2>3 DEF Waves, new, next
<1>8. CASE Waves(up, term, waiting) /\ term # 0 /\ later + 1 <= waiting
  <2>1. PICK k \in 0 .. UnblockMinutes : Wave(up, term, k, waiting)
    BY <1>8 DEF Waves, Calm
  <2>2. k \in Nat /\ k \in 0 .. Over /\ k <= UnblockMinutes
    BY TimesAre
  <2>3. Wave(new, Half, k, later)
    <3>1. Half \in 1 .. Half /\ k <= Half + Half /\ \A j \in Half + Half + 1 .. Over : j = Over
      BY <2>2, TimesAre
    <3>2. ASSUME NEW j \in 0 .. k, j + Half >= k + 1 PROVE new[j] = new[k]
      <4>1. j \in 0 .. UnblockMinutes /\ up[j] = up[k]
        BY <2>1, <2>2, <3>2, TimesAre DEF Wave
      <4> QED BY <1>2, <2>2, <4>1
    <3>3. new[k] = up[k] /\ new[1] = up[1] /\ new[Over] = up[Over] + 1 /\ up[k] \in Nat /\ up[Over] \in Nat
      BY <1>2, <1>4, <1>6, <2>2
    <3>4. up[Over] - up[k] + waiting <= Callers /\ later + 1 <= waiting
      BY <1>8, <2>1 DEF Wave
    <3>5. new[Over] - new[k] + later <= Callers
      BY <1>1, <3>3, <3>4
    <3>6. /\ k = UnblockMinutes => up[k] <= 2 * Callers /\ up[k] - up[1] <= Callers
          /\ k < UnblockMinutes => up[k] <= Callers
      BY <2>1 DEF Wave
    <3> QED BY <3>1, <3>2, <3>3, <3>5, <3>6 DEF Wave
  <2> QED BY <1>5, <2>3 DEF Waves, new, next
<1> QED BY <1>7, <1>8

(* A timer that is due runs.                                               *)
LEMMA TimerRuns ==
  ASSUME NEW asleep \in [0 .. UnblockMinutes -> Nat], NEW up, Totals(asleep, up), asleep[0] > 0,
         NEW term \in Nat, NEW waiting \in Nat, IsFiniteSet(Call)
  PROVE  /\ up[Over] # 0
         /\ \E new : /\ Totals([asleep EXCEPT ![0] = @ - 1], new)
                     /\ Waves(up, term, waiting) => Waves(new, term, waiting)
<1> DEFINE new == [m \in 0 .. Over |-> IF m = 0 THEN 0 ELSE up[m] - 1]
           next == [asleep EXCEPT ![0] = @ - 1]
<1>1. Callers \in Nat
  BY CallersCounted
<1>2. /\ \A m \in 0 .. Over : up[m] \in Nat
      /\ 0 \in 0 .. UnblockMinutes /\ 0 \in 0 .. Over /\ 1 \in 0 .. Over /\ Over \in 0 .. Over
      /\ Over # 0
  <2>1. up \in [0 .. Over -> Nat]
    BY DEF Totals
  <2> QED BY <2>1, TimesAre
<1>3. up[1] >= 1
  <2>1. up[0 + 1] = up[0] + asleep[0] /\ up[0] = 0 /\ asleep[0] \in Nat
    BY <1>2 DEF Totals
  <2> QED BY <2>1
<1>4. \A m \in 1 .. Over : m \in 0 .. Over /\ up[m] >= 1 /\ new[m] = up[m] - 1
  <2> SUFFICES ASSUME NEW m \in 1 .. Over PROVE m \in 0 .. Over /\ up[m] >= 1 /\ new[m] = up[m] - 1
    OBVIOUS
  <2>1. m \in 0 .. Over /\ 1 <= m /\ m # 0
    BY TimesAre
  <2>2. up[1] <= up[m]
    BY <1>2, <2>1 DEF Totals
  <2> QED BY <1>2, <1>3, <2>1, <2>2
<1>5. new[0] = 0 /\ new \in [0 .. Over -> Nat]
  <2>1. \A m \in 0 .. Over : m = 0 \/ m \in 1 .. Over
    BY TimesAre
  <2>2. ASSUME NEW m \in 0 .. Over PROVE new[m] \in Nat
    <3>1. CASE m = 0
      BY <3>1
    <3>2. CASE m \in 1 .. Over
      <4> HIDE DEF new
      <4> QED BY <1>2, <1>4, <3>2
    <3> QED BY <2>1, <3>1, <3>2
  <2> QED BY <1>2, <2>2
<1>6. next[0] = asleep[0] - 1 /\ asleep[0] \in Nat /\ \A m \in 1 .. UnblockMinutes : next[m] = asleep[m]
  BY <1>2
<1> HIDE DEF new, next
<1>7. Totals(next, new)
  <2>1. ASSUME NEW m \in 0 .. UnblockMinutes PROVE new[m + 1] = new[m] + next[m]
    <3>1. up[m + 1] = up[m] + asleep[m] /\ m + 1 \in 1 .. Over /\ m \in 0 .. Over
      BY TimesAre DEF Totals
    <3>2. new[m + 1] = up[m + 1] - 1
      BY <1>4, <3>1
    <3>3. CASE m = 0
      <4>1. up[m + 1] = 0 + asleep[0] /\ new[m] = 0 /\ next[m] = asleep[0] - 1
        BY <1>5, <1>6, <3>1, <3>3 DEF Totals
      <4> QED BY <1>6, <3>2, <4>1
    <3>4. CASE m # 0
      <4>1. m \in 1 .. UnblockMinutes /\ m \in 1 .. Over
        BY <3>4, TimesAre
      <4>2. new[m] = up[m] - 1 /\ next[m] = asleep[m] /\ asleep[m] \in Nat /\ up[m] \in Nat
        BY <1>2, <1>4, <1>6, <3>1, <4>1
      <4> QED BY <3>1, <3>2, <4>2
    <3> QED BY <3>3, <3>4
  <2>2. ASSUME NEW i \in 0 .. Over, NEW j \in 0 .. Over, i <= j PROVE new[i] <= new[j]
    <3>1. new[i] \in Nat /\ new[j] \in Nat /\ up[i] \in Nat /\ up[j] \in Nat /\ up[i] <= up[j]
      BY <1>2, <1>5, <2>2 DEF Totals
    <3>2. CASE i = 0
      BY <1>5, <3>1, <3>2
    <3>3. CASE i # 0
      <4>1. i \in 1 .. Over /\ j \in 1 .. Over
        BY <2>2, <3>3, TimesAre
      <4> QED BY <1>4, <3>1, <4>1
    <3> QED BY <3>2, <3>3
  <2> QED BY <1>5, <2>1, <2>2 DEF Totals
<1>8. up[Over] # 0 /\ Over \in 1 .. Over /\ 1 \in 1 .. Over
  BY <1>2, <1>4, TimesAre
<1>9. ASSUME Calm(up, term) PROVE Calm(new, term)
  <2>1. ASSUME NEW j \in Half + 1 .. Over PROVE new[j] = new[Over]
    <3>1. j \in 1 .. Over /\ up[j] = up[Over]
      BY <1>9, TimesAre DEF Calm
    <3> QED BY <1>4, <1>8, <3>1
  <2>2. new[Over] = up[Over] - 1 /\ new[1] = up[1] - 1 /\ up[Over] \in Nat /\ up[1] \in Nat
    BY <1>2, <1>4, <1>8
  <2>3. term = 0 /\ up[Over] - up[1] <= Callers /\ up[Over] <= 2 * Callers
    BY <1>9 DEF Calm
  <2>4. new[Over] - new[1] <= Callers /\ new[Over] <= 2 * Callers
    BY <1>1, <2>2, <2>3
  <2> QED BY <2>1, <2>3, <2>4 DEF Calm
<1>10. ASSUME NEW k \in 0 .. UnblockMinutes, Wave(up, term, k, waiting) PROVE Wave(new, term, k, waiting)
  <2>1. term \in 1 .. Half /\ k <= Half + term /\ k \in 0 .. Over /\ k \in Nat
    BY <1>10, TimesAre DEF Wave
  <2>2. ASSUME NEW j \in Half + term + 1 .. Over PROVE new[j] = new[Over]
    <3>1. j \in 1 .. Over /\ up[j] = up[Over]
      BY <1>10, TimesAre DEF Wave
    <3> QED BY <1>4, <1>8, <3>1
  <2>3. ASSUME NEW j \in 0 .. k, j + Half >= k + 1 PROVE new[j] = new[k]
    <3>1. up[j] = up[k]
      BY <1>10, <2>3 DEF Wave
    <3>2. CASE j = k
      BY <3>2
    <3>3. CASE j # k
      <4>1. k \in 1 .. Over /\ (j = 0 \/ j \in 1 .. Over)
        BY <2>1, <3>3, TimesAre
      <4>2. up[k] >= 1
        BY <1>4, <4>1
      <4>3. j # 0
        BY <3>1, <4>2 DEF Totals
      <4> QED BY <1>4, <3>1, <4>1, <4>3
    <3> QED BY <3>2, <3>3
  <2>4. /\ new[Over] = up[Over] - 1 /\ new[1] = up[1] - 1 /\ up[Over] \in Nat /\ up[1] \in Nat
        /\ up[k] \in Nat /\ up[Over] - up[k] + waiting <= Callers
    BY <1>2, <1>4, <1>8, <1>10, <2>1 DEF Wave
  <2>5. CASE k = 0
    <3>1. new[k] = 0 /\ up[k] = 0 /\ k < UnblockMinutes /\ k # UnblockMinutes
      BY <1>5, <2>5, TimesAre DEF Totals
    <3>2. new[Over] - new[k] + waiting <= Callers
      BY <1>1, <2>4, <3>1
    <3> QED BY <1>1, <2>1, <2>2, <2>3, <3>1, <3>2 DEF Wave
  <2>6. CASE k # 0
    <3>1. k \in 1 .. Over
      BY <2>1, <2>6, TimesAre
    <3>2. new[k] = up[k] - 1
      BY <1>4, <3>1
    <3>3. /\ k = UnblockMinutes => up[k] <= 2 * Callers /\ up[k] - up[1] <= Callers
          /\ k < UnblockMinutes => up[k] <= Callers
      BY <1>10 DEF Wave
    <3>4. /\ k = UnblockMinutes => new[k] <= 2 * Callers /\ new[k] - new[1] <= Callers
          /\ k < UnblockMinutes => new[k] <= Callers
          /\ new[Over] - new[k] + waiting <= Callers
      <4>8. 2 * Callers \in Nat
        BY <1>1
      <4>9. new[k] <= up[k] /\ new[k] \in Int
        BY <2>4, <3>2
      <4>10. new[k] - new[1] = up[k] - up[1]
        BY <2>4, <3>2, SMTT(60)
      <4>1. 2 * Callers \in Nat /\ new[k] <= up[k] /\ new[k] - new[1] = up[k] - up[1]
        BY <4>8, <4>9, <4>10
      <4>2. new[Over] - new[k] = up[Over] - up[k]
        BY <2>4, <3>2, SMTT(60)
      <4>3. new[k] <= 2 * Callers \/ ~(up[k] <= 2 * Callers)
        BY <2>4, <3>2, <4>1
      <4>4. new[k] <= Callers \/ ~(up[k] <= Callers)
        BY <1>1, <2>4, <3>2, <4>1
      <4>5. new[Over] - new[k] + waiting <= Callers
        BY <2>4, <4>2
      <4>6. k = UnblockMinutes => new[k] <= 2 * Callers /\ new[k] - new[1] <= Callers
        BY <3>3, <4>1, <4>3, Zenon
      <4>7. k < UnblockMinutes => new[k] <= Callers
        BY <3>3, <4>4, Zenon
      <4> QED BY <4>5, <4>6, <4>7, Zenon
    <3> QED BY <2>1, <2>2, <2>3, <3>4 DEF Wave
  <2> QED BY <2>5, <2>6
<1>11. Waves(up, term, waiting) => Waves(new, term, waiting)
  BY <1>9, <1>10 DEF Waves
<1> QED BY <1>7, <1>8, <1>11 DEF next

(* A minute, in which nothing due is left if a penalty runs.                *)
LEMMA MinutePasses ==
  ASSUME NEW asleep \in [0 .. UnblockMinutes -> Nat], NEW up, Totals(asleep, up),
         NEW term \in Nat, NEW waiting \in Nat, IsFiniteSet(Call),
         term > 0 => asleep[0] = 0,
         NEW next, next = [m \in 0 .. UnblockMinutes |->
           (IF m = 0 THEN asleep[0] ELSE 0) + (IF m = UnblockMinutes THEN 0 ELSE asleep[m + 1])]
  PROVE  \E new : /\ Totals(next, new) /\ new[Over] = up[Over]
                  /\ Waves(up, term, waiting)
                       => Waves(new, IF term = 0 THEN 0 ELSE term - 1, waiting)
<1> DEFINE new == [m \in 0 .. Over |-> IF m = 0 THEN 0 ELSE IF m = Over THEN up[Over] ELSE up[m + 1]]
           then == IF term = 0 THEN 0 ELSE term - 1
<1>1. Callers \in Nat
  BY CallersCounted
<1>2. /\ \A m \in 0 .. Over : up[m] \in Nat
      /\ up[0] = 0
  BY DEF Totals
<1>3. /\ \A m \in 1 .. UnblockMinutes : m \in 0 .. Over /\ m + 1 \in 0 .. Over /\ m # Over /\ m # 0
      /\ 0 \in 0 .. UnblockMinutes /\ 0 \in 0 .. Over /\ 1 \in 0 .. Over /\ 2 \in 0 .. Over
      /\ 1 \in 1 .. UnblockMinutes /\ Over \in 0 .. Over /\ Over # 0 /\ 1 # Over
      /\ \A m \in 0 .. Over : m = 0 \/ m = Over \/ m \in 1 .. UnblockMinutes
  BY TimesAre
<1>4. new[0] = 0 /\ new[Over] = up[Over] /\ \A m \in 1 .. UnblockMinutes : new[m] = up[m + 1]
  BY <1>3
<1>5. new \in [0 .. Over -> Nat]
  <2>1. ASSUME NEW m \in 0 .. Over PROVE new[m] \in Nat
    <3> HIDE DEF new
    <3> QED BY <1>2, <1>3, <1>4
  <2> QED BY <2>1
<1> HIDE DEF new
<1>6. Totals(next, new)
  <2>1. ASSUME NEW m \in 0 .. UnblockMinutes PROVE new[m + 1] = new[m] + next[m]
    <3>1. CASE m = 0
      <4>1. new[m + 1] = up[2] /\ new[m] = 0 /\ next[m] = asleep[0] + asleep[1]
        <5>1. m + 1 = 1 /\ 1 + 1 = 2 /\ m # UnblockMinutes
          BY <3>1, TimesAre
        <5> QED BY <1>3, <1>4, <3>1, <5>1
      <4>2. up[0 + 1] = up[0] + asleep[0] /\ up[1 + 1] = up[1] + asleep[1] /\ asleep[0] \in Nat /\ asleep[1] \in Nat
        BY <1>3, TimesAre DEF Totals
      <4>3. up[1] = asleep[0] /\ up[2] = up[1] + asleep[1]
        BY <1>2, <4>2
      <4> QED BY <4>1, <4>2, <4>3
    <3>2. CASE m = UnblockMinutes
      <4>1. m + 1 = Over /\ m # 0 /\ m \in 1 .. UnblockMinutes
        BY <3>2, TimesAre
      <4>2. new[m + 1] = up[Over] /\ new[m] = up[Over] /\ next[m] = 0 + 0
        BY <1>4, <3>2, <4>1
      <4>3. up[Over] \in Nat
        BY <1>2, <1>3
      <4> QED BY <4>2, <4>3
    <3>3. CASE m # 0 /\ m # UnblockMinutes
      <4>1. m \in 1 .. UnblockMinutes /\ m + 1 \in 1 .. UnblockMinutes /\ m + 1 \in 0 .. UnblockMinutes /\ m + 1 \in 0 .. Over
        BY <3>3, TimesAre
      <4>2. new[m + 1] = up[m + 1 + 1] /\ new[m] = up[m + 1] /\ next[m] = 0 + asleep[m + 1]
        BY <1>4, <3>3, <4>1
      <4>3. up[m + 1 + 1] = up[m + 1] + asleep[m + 1] /\ asleep[m + 1] \in Nat
        BY <4>1 DEF Totals
      <4> QED BY <4>2, <4>3
    <3> QED BY <3>1, <3>2, <3>3
  <2>2. ASSUME NEW i \in 0 .. Over, NEW j \in 0 .. Over, i <= j PROVE new[i] <= new[j]
    <3>1. new[i] \in Nat /\ new[j] \in Nat
      BY <1>5
    <3>2. CASE i = 0
      BY <1>4, <3>1, <3>2
    <3>3. CASE j = Over
      <4>1. i = Over \/ i = 0 \/ i \in 1 .. UnblockMinutes
        BY <1>3
      <4>2. ASSUME i \in 1 .. UnblockMinutes PROVE new[i] <= new[j]
        <5>1. i + 1 \in 0 .. Over /\ i + 1 <= Over
          BY <4>2, TimesAre
        <5>2. up[i + 1] <= up[Over]
          BY <1>3, <5>1 DEF Totals
        <5> QED BY <1>4, <3>3, <4>2, <5>2
      <4> QED BY <3>1, <3>2, <3>3, <4>1, <4>2
    <3>4. CASE i # 0 /\ j # Over
      <4>1. /\ i \in 1 .. UnblockMinutes /\ j \in 1 .. UnblockMinutes
            /\ i + 1 \in 0 .. Over /\ j + 1 \in 0 .. Over /\ i + 1 <= j + 1
        BY <2>2, <3>4, TimesAre
      <4> QED BY <1>4, <4>1 DEF Totals
    <3> QED BY <3>2, <3>3, <3>4
  <2> QED BY <1>4, <1>5, <2>1, <2>2 DEF Totals
<1>7. ASSUME Calm(up, term) PROVE Calm(new, then)
  <2>1. term = 0 /\ up[Over] - up[1] <= Callers /\ up[Over] <= 2 * Callers
    BY <1>7 DEF Calm
  <2>2. ASSUME NEW j \in Half + 1 .. Over PROVE new[j] = new[Over]
    <3>1. CASE j = Over
      BY <3>1
    <3>2. CASE j # Over
      <4>1. j \in 1 .. UnblockMinutes /\ j + 1 \in Half + 1 .. Over
        BY <3>2, TimesAre
      <4> QED BY <1>4, <1>7, <4>1 DEF Calm
    <3> QED BY <3>1, <3>2
  <2>3. new[1] = up[2] /\ up[1] <= up[2] /\ up[1] \in Nat /\ up[2] \in Nat /\ up[Over] \in Nat
    <3>1. 1 + 1 = 2 /\ 1 <= 2
      OBVIOUS
    <3>2. new[1] = up[2]
      BY <1>3, <1>4, <3>1
    <3>3. up[1] <= up[2]
      BY <1>3, <3>1 DEF Totals
    <3> QED BY <1>2, <1>3, <3>2, <3>3
  <2>4. new[Over] - new[1] <= Callers
    BY <1>1, <1>4, <2>1, <2>3
  <2> QED BY <1>4, <2>1, <2>2, <2>4 DEF Calm
<1>8. ASSUME NEW k \in 0 .. UnblockMinutes, Wave(up, term, k, waiting) PROVE Waves(new, then, waiting)
  <2>1. /\ term \in 1 .. Half /\ k <= Half + term /\ k \in 0 .. Over /\ k \in Nat /\ term \in Nat
        /\ term > 0 /\ then = term - 1
    BY <1>8, TimesAre DEF Wave
  <2>2. up[1] = 0
    <3>1. up[0 + 1] = up[0] + asleep[0] /\ asleep[0] = 0
      BY <1>3, <2>1 DEF Totals
    <3> QED BY <1>2, <3>1
  <2>3. \A m \in 0 .. UnblockMinutes : new[m] = up[m + 1]
    <3> SUFFICES ASSUME NEW m \in 0 .. UnblockMinutes PROVE new[m] = up[m + 1]
      OBVIOUS
    <3>1. CASE m = 0
      <4>1. m + 1 = 1
        BY <3>1
      <4> QED BY <1>4, <2>2, <3>1, <4>1
    <3>2. CASE m # 0
      <4>1. m \in 1 .. UnblockMinutes
        BY <3>2
      <4> QED BY <1>4, <4>1
    <3> QED BY <3>1, <3>2
  <2>4. ASSUME NEW j \in Half + term .. Over PROVE new[j] = up[Over]
    <3>1. CASE j = Over
      BY <1>4, <3>1
    <3>2. CASE j # Over
      <4>1. j \in 0 .. UnblockMinutes /\ j + 1 \in Half + term + 1 .. Over
        BY <2>1, <3>2, TimesAre
      <4> QED BY <1>8, <2>3, <4>1 DEF Wave
    <3> QED BY <3>1, <3>2
  <2>5. up[k] \in Nat /\ up[Over] \in Nat /\ up[Over] - up[k] + waiting <= Callers
    BY <1>2, <1>3, <1>8, <2>1 DEF Wave
  <2>6. up[k] <= Callers
    <3>1. CASE k = UnblockMinutes
      <4>1. up[k] - up[1] <= Callers
        BY <1>8, <3>1 DEF Wave
      <4> QED BY <2>2, <2>5, <4>1
    <3>2. CASE k # UnblockMinutes
      <4>1. k < UnblockMinutes
        BY <3>2, TimesAre
      <4> QED BY <1>8, <4>1 DEF Wave
    <3> QED BY <3>1, <3>2
  <2>7. CASE term = 1
    <3>1. then = 0
      BY <2>1, <2>7
    <3>2. ASSUME NEW j \in Half + 1 .. Over PROVE new[j] = new[Over]
      BY <1>4, <2>4, <2>7
    <3>3. up[2] >= up[k] /\ up[2] \in Nat
      <4>1. CASE k <= 1
        <5>1. k = 0 \/ k = 1
          BY <2>1, <4>1
        <5> QED BY <1>2, <1>3, <2>2, <5>1
      <4>2. CASE ~(k <= 1)
        <5>1. 2 \in 0 .. k /\ 2 + Half >= k + 1
          BY <2>1, <2>7, <4>2, TimesAre
        <5>2. up[2] = up[k]
          BY <1>8, <5>1 DEF Wave
        <5> QED BY <2>5, <5>2
      <4> QED BY <4>1, <4>2
    <3>4. new[1] = up[2]
      <4>1. 1 + 1 = 2 /\ 1 \in 0 .. UnblockMinutes
        BY TimesAre
      <4> QED BY <2>3, <4>1
    <3>5. new[Over] - new[1] <= Callers /\ new[Over] <= 2 * Callers
      BY <1>1, <1>4, <2>5, <2>6, <3>3, <3>4
    <3> QED BY <3>1, <3>2, <3>5 DEF Calm, Waves
  <2>8. CASE term # 1
    <3> DEFINE h == IF k = 0 THEN 0 ELSE k - 1
    <3>1. /\ h \in 0 .. UnblockMinutes /\ h # UnblockMinutes /\ h < UnblockMinutes /\ h <= Half + then
          /\ then \in 1 .. Half /\ h \in Nat
      <4>1. then \in 1 .. Half /\ then + 1 = term /\ then \in Nat
        BY <2>1, <2>8, TimesAre
      <4> HIDE DEF then
      <4>2. CASE k = 0
        BY <4>1, <4>2, TimesAre
      <4>3. CASE k # 0
        <5>1. h = k - 1 /\ k - 1 \in Nat /\ k <= UnblockMinutes
          BY <2>1, <4>3, TimesAre
        <5> QED BY <2>1, <4>1, <5>1, TimesAre
      <4> QED BY <4>2, <4>3
    <3>2. new[h] = up[k]
      <4>1. CASE k = 0
        BY <1>2, <1>4, <4>1
      <4>2. CASE k # 0
        <5>1. h = k - 1 /\ h + 1 = k
          BY <2>1, <4>2
        <5> QED BY <2>3, <3>1, <5>1
      <4> QED BY <4>1, <4>2
    <3>3. ASSUME NEW j \in 0 .. h, j + Half >= h + 1 PROVE new[j] = new[h]
      <4>1. CASE k = 0
        <5>1. j = h
          BY <4>1
        <5> QED BY <5>1
      <4>2. CASE k # 0
        <5>1. j + 1 \in 0 .. k /\ j + 1 + Half >= k + 1 /\ j \in 0 .. UnblockMinutes
          BY <2>1, <3>1, <3>3, <4>2, TimesAre
        <5>2. up[j + 1] = up[k]
          BY <1>8, <5>1 DEF Wave
        <5> QED BY <2>3, <3>2, <5>1, <5>2
      <4> QED BY <4>1, <4>2
    <3>4. ASSUME NEW j \in Half + then + 1 .. Over PROVE new[j] = new[Over]
      <4>1. j \in Half + term .. Over
        BY <2>1, TimesAre
      <4> QED BY <1>4, <2>4, <4>1
    <3>5. new[Over] - new[h] + waiting <= Callers
      BY <1>4, <2>5, <3>2
    <3> HIDE DEF h, then
    <3>6. Wave(new, then, h, waiting)
      BY <2>6, <3>1, <3>2, <3>3, <3>4, <3>5 DEF Wave
    <3> QED BY <3>1, <3>6 DEF Waves
  <2> QED BY <2>7, <2>8
<1>9. Waves(up, term, waiting) => Waves(new, then, waiting)
  BY <1>7, <1>8 DEF Waves
<1> QED BY <1>4, <1>6, <1>9

(* The equation that defines the loop of Pending.                          *)
Adds(asleep, f) ==
  [m \in 0 .. UnblockMinutes |-> asleep[m] + (IF m = 0 THEN 0 ELSE f[m - 1])]

LEMMA LeastMinute ==
  ASSUME NEW T, T \subseteq Nat, T # {}
  PROVE  \E x \in T : \A y \in T : x <= y
<1>1. PICK x \in T : \A y \in T : ~(<<y, x>> \in OpToRel(<, Nat))
  BY WFMin, NatLessThanWellFounded
<1>2. \A y \in T : ~(y < x)
  BY <1>1 DEF OpToRel
<1> QED
  BY <1>2

LEMMA OneTotal ==
  ASSUME NEW asleep \in [0 .. UnblockMinutes -> Nat], NEW up, Totals(asleep, up), NEW f, f = Adds(asleep, f)
  PROVE  f[UnblockMinutes] = up[Over]
<1> DEFINE T == {m \in 0 .. UnblockMinutes : f[m] # up[m + 1]}
<1>1. T = {}
  <2>1. SUFFICES ASSUME T # {} PROVE FALSE
    OBVIOUS
  <2>2. T \subseteq Nat
    BY TimesAre
  <2>3. PICK n \in T : \A m \in T : n <= m
    <3> HIDE DEF T
    <3> QED BY <2>1, <2>2, LeastMinute
  <2>4. n \in 0 .. UnblockMinutes /\ n \in Nat /\ f[n] # up[n + 1]
    BY TimesAre
  <2>5. up[n + 1] = up[n] + asleep[n] /\ asleep[n] \in Nat /\ up[n] \in Nat
    <3>1. n \in 0 .. Over
      BY <2>4, TimesAre
    <3> QED BY <2>4, <3>1 DEF Totals
  <2>6. f[n] = asleep[n] + (IF n = 0 THEN 0 ELSE f[n - 1])
    BY <2>4 DEF Adds
  <2>7. CASE n = 0
    <3>1. up[n] = 0
      BY <2>7 DEF Totals
    <3> QED BY <2>4, <2>5, <2>6, <2>7, <3>1
  <2>8. CASE n # 0
    <3>1. n - 1 \in 0 .. UnblockMinutes /\ ~(n <= n - 1) /\ n - 1 + 1 = n
      BY <2>4, <2>8, TimesAre
    <3>2. f[n - 1] = up[n - 1 + 1]
      BY <2>3, <3>1
    <3>3. f[n - 1] = up[n]
      BY <3>1, <3>2
    <3> QED BY <2>4, <2>5, <2>6, <2>8, <3>3
  <2> QED BY <2>7, <2>8
<1>2. UnblockMinutes \in 0 .. UnblockMinutes /\ Over = UnblockMinutes + 1
  BY TimesAre
<1> QED BY <1>1, <1>2

LEMMA PendingIs ==
  ASSUME NEW s, timers[s] \in [0 .. UnblockMinutes -> Nat], NEW up, Totals(timers[s], up)
  PROVE  Pending(s) = up[Over]
<1> DEFINE f == [m \in 0 .. UnblockMinutes |-> up[m + 1]]
           g == CHOOSE g : g = Adds(timers[s], g)
<1>1. f = Adds(timers[s], f)
  <2>1. ASSUME NEW m \in 0 .. UnblockMinutes
        PROVE  f[m] = timers[s][m] + (IF m = 0 THEN 0 ELSE f[m - 1])
    <3>1. up[m + 1] = up[m] + timers[s][m] /\ timers[s][m] \in Nat /\ up[m] \in Nat
      <4>1. m \in 0 .. Over
        BY TimesAre
      <4> QED BY <4>1 DEF Totals
    <3>2. CASE m = 0
      <4>1. up[m] = 0
        BY <3>2 DEF Totals
      <4> QED BY <3>1, <3>2, <4>1
    <3>3. CASE m # 0
      <4>1. m - 1 \in 0 .. UnblockMinutes /\ m - 1 + 1 = m
        BY <3>3, TimesAre
      <4>2. f[m - 1] = up[m] /\ f[m] = up[m + 1]
        BY <4>1
      <4> HIDE DEF f
      <4> QED BY <3>1, <3>3, <4>2
    <3> QED BY <3>2, <3>3
  <2>2. Adds(timers[s], f) = [m \in 0 .. UnblockMinutes |-> f[m]]
    <3> HIDE DEF f
    <3> QED BY <2>1 DEF Adds
  <2> QED BY <2>2
<1>2. g = Adds(timers[s], g)
  <2> HIDE DEF f
  <2> QED BY <1>1
<1>3. Pending(s) = g[UnblockMinutes]
  BY DEF Pending, Adds
<1> HIDE DEF g
<1> QED BY <1>2, <1>3, OneTotal

-----------------------------------------------------------------------------
(* The calls that may still record a failure on s without being admitted    *)
(* by s before.                                                             *)
NotYet(s) ==
  {c \in Call :
     \/ /\ place[c] \in {"find", "create", "creating"} /\ purpose[c] = "record"
        /\ ipStats[address[c]] = s
     \/ place[c] = "handler" /\ ipStats[address[c]] = s
     \/ place[c] = "lock" /\ purpose[c] = "record" /\ found[c] = s
     \/ /\ place[c] = "lock" /\ purpose[c] = "allow" /\ found[c] # s
        /\ ipStats[address[c]] = s
     \/ place[c] \in Holding /\ found[c] # s /\ ipStats[address[c]] = s}

Waiting(s) == Cardinality(NotYet(s))

Spread(s) ==
  \E up : /\ Totals(timers[s], up)
          /\ \/ up[Over] = 0
             \/ VerySuspicious(failed[s]) /\ Waves(up, penalty[s], Waiting(s))

(* Nobody has stats.mu of an address that is punished.                     *)
OwnersAdmitted == \A s \in Stats : owner[s] # None => ~Punished(s)

(* An object was made for the whitelist if its address is on it.           *)
TrustedOK ==
  \A a \in Address :
    ipStats[a] \in Stats => (ipStats[a] \in trusted <=> a \in setup.whitelist)

TimersInv ==
  IInv /\ OwnersAdmitted /\ TrustedOK /\ \A s \in Stats \ trusted : Spread(s)

LEMMA WaitingIs ==
  ASSUME NEW s
  PROVE  /\ NotYet(s) \subseteq Call
         /\ IsFiniteSet(Call) => IsFiniteSet(NotYet(s)) /\ Waiting(s) \in Nat /\ Waiting(s) <= Callers
<1>1. NotYet(s) \subseteq Call
  BY DEF NotYet
<1> QED BY <1>1, FS_Subset, FS_CardinalityType DEF Waiting, Callers

LEMMA FewerWait ==
  ASSUME IsFiniteSet(Call), NEW s, NEW T, T \subseteq NotYet(s)
  PROVE  Cardinality(T) \in Nat /\ Cardinality(T) <= Waiting(s)
  BY WaitingIs, FS_Subset, FS_CardinalityType DEF Waiting

LEMMA OneLess ==
  ASSUME NEW S, IsFiniteSet(S), NEW c \in S, NEW T, T \subseteq S \ {c}
  PROVE  Cardinality(T) \in Nat /\ Cardinality(T) + 1 <= Cardinality(S)
<1>1. IsFiniteSet(S \ {c}) /\ Cardinality(S \ {c}) = Cardinality(S) - 1
  BY FS_RemoveElement
<1>2. IsFiniteSet(T) /\ Cardinality(T) <= Cardinality(S \ {c})
  BY <1>1, FS_Subset
<1>3. Cardinality(T) \in Nat /\ Cardinality(S) \in Nat
  BY <1>2, FS_CardinalityType
<1> QED BY <1>1, <1>2, <1>3

(* The fewer calls wait, the less is to come.                              *)
LEMMA FewerWaves ==
  ASSUME IsFiniteSet(Call), NEW asleep, NEW up, Totals(asleep, up), NEW term,
         NEW waiting \in Nat, NEW later \in Nat, term # 0 => later <= waiting,
         Waves(up, term, waiting)
  PROVE  Waves(up, term, later)
<1>1. ASSUME NEW k \in 0 .. UnblockMinutes, Wave(up, term, k, waiting) PROVE Wave(up, term, k, later)
  <2>1. term # 0 /\ up[Over] - up[k] + waiting <= Callers
    BY <1>1, TimesAre DEF Wave
  <2>2. up[Over] \in Nat /\ up[k] \in Nat /\ Callers \in Nat
    <3>1. k \in 0 .. Over /\ Over \in 0 .. Over
      BY TimesAre
    <3> QED BY <3>1, CallersCounted DEF Totals
  <2>3. up[Over] - up[k] + later <= Callers
    BY <2>1, <2>2
  <2> QED BY <1>1, <2>3 DEF Wave
<1> QED BY <1>1 DEF Waves

LEMMA CallsFinite == IsFiniteSet(Call) /\ Call \cap Reader = {} /\ Cleaner \notin Call /\ None \notin Stats \cup Call \cup Address
  BY ThrottleAssumption DEF ThrottleAssumption

LEMMA SpreadStays ==
  ASSUME NEW s \in Stats, Spread(s), UNCHANGED <<timers[s], penalty[s], failed[s], setup>>,
         penalty[s] # 0 => NotYet(s)' \subseteq NotYet(s)
  PROVE  Spread(s)'
<1>1. PICK up : /\ Totals(timers[s], up)
                /\ \/ up[Over] = 0
                   \/ VerySuspicious(failed[s]) /\ Waves(up, penalty[s], Waiting(s))
  BY DEF Spread
<1>2. timers'[s] = timers[s] /\ penalty'[s] = penalty[s] /\ failed'[s] = failed[s] /\ setup' = setup
  OBVIOUS
<1>3. Waiting(s) \in Nat
  BY CallsFinite, WaitingIs
<1>4. Waiting(s)' \in Nat
  <2>1. NotYet(s)' \subseteq Call
    BY DEF NotYet
  <2> QED BY <2>1, CallsFinite, FS_Subset, FS_CardinalityType DEF Waiting
<1>5. penalty[s] # 0 => Waiting(s)' <= Waiting(s)
  BY CallsFinite, FewerWait DEF Waiting
<1>6. VerySuspicious(failed[s]) => VerySuspicious(failed[s])'
  BY <1>2 DEF VerySuspicious, Suspicious
<1>7. Waves(up, penalty[s], Waiting(s)) => Waves(up, penalty[s], Waiting(s)')
  BY <1>1, <1>3, <1>4, <1>5, CallsFinite, FewerWaves
<1>8. \/ up[Over] = 0
      \/ VerySuspicious(failed[s])' /\ Waves(up, penalty'[s], Waiting(s)')
  BY <1>1, <1>2, <1>6, <1>7
<1> QED BY <1>1, <1>2, <1>8 DEF Spread

(* Those who have not moved.                                               *)
LEMMA SameCalls ==
  ASSUME HoldsOK, NEW s, UNCHANGED <<purpose, address, found>>,
         \A c \in Call : place'[c] = place[c],
         \A a \in Address : ipStats'[a] = s => ipStats[a] = s
  PROVE  NotYet(s)' \subseteq NotYet(s)
<1>1. SUFFICES ASSUME NEW c \in NotYet(s)' PROVE c \in NotYet(s)
  OBVIOUS
<1>2. c \in Call /\ place'[c] = place[c] /\ purpose' = purpose /\ address' = address /\ found' = found
  BY <1>1 DEF NotYet
<1>3. place[c] # "idle" => address[c] \in Address
  BY <1>2 DEF HoldsOK
<1> QED BY <1>1, <1>2, <1>3 DEF NotYet, Holding

LEMMA NobodyAdmitted ==
  ASSUME IInv, OwnersAdmitted, TrustedOK, NEW s \in Stats \ trusted, penalty[s] # 0,
         NEW c \in Call,
         \/ \E a \in Address : Arrive(c, a)
         \/ FindStats(c) \/ Announce(c, "create", "creating")
         \/ RefusePunished(c) \/ Refill(c)
         \/ FindSubnet(c) \/ Announce(c, "subnetCreate", "subnetCreating") \/ CreateSubnet(c)
         \/ Charge(c) \/ Respond(c)
  PROVE  NotYet(s)' \subseteq NotYet(s)
<1>1. PlacesOK /\ HoldsOK /\ MapsOK /\ Punished(s)
  <2>1. penalty[s] \in Minutes
    BY DEF IInv, FieldsOK
  <2>2. penalty[s] > 0
    BY <2>1, BoundsAreNat DEF IInv
  <2> QED BY <2>2 DEF IInv, Punished
<1>2. owner[s] = None
  BY <1>1 DEF OwnersAdmitted
<1>3. SUFFICES ASSUME NEW d \in NotYet(s)' PROVE d \in NotYet(s)
  OBVIOUS
<1>4. d \in Call /\ d # None
  BY <1>3, CallsFinite DEF NotYet
<1>5. ASSUME NEW a \in Address, Arrive(c, a) PROVE d \in NotYet(s)
  <2>1. PICK to \in {"find", "handler"} :
           /\ place[c] = "idle" /\ place' = [place EXCEPT ![c] = to]
           /\ to = "handler" => a \in setup.whitelist
           /\ address' = [address EXCEPT ![c] = a]
           /\ purpose' = [purpose EXCEPT ![c] = "allow"]
           /\ UNCHANGED <<ipStats, found>>
    BY <1>5 DEF Arrive, Move
  <2>2. to = "handler" => ipStats[a] # s
    BY <2>1 DEF TrustedOK
  <2>3. CASE d = c
    BY <1>1, <1>3, <1>4, <2>1, <2>2, <2>3 DEF NotYet, PlacesOK, Holding, Goroutine
  <2>4. CASE d # c
    BY <1>1, <1>3, <1>4, <2>1, <2>4 DEF NotYet, PlacesOK, Holding, Goroutine
  <2> QED BY <2>3, <2>4
<1>6. CASE FindStats(c)
  BY <1>1, <1>3, <1>4, <1>6 DEF NotYet, FindStats, Move, objects, locks, PlacesOK, Holding, Goroutine
<1>7. CASE Announce(c, "create", "creating")
  BY <1>1, <1>3, <1>4, <1>7 DEF NotYet, Announce, Move, objects, callVars, PlacesOK, Holding, Goroutine
<1>8. CASE RefusePunished(c)
  BY <1>1, <1>3, <1>4, <1>8 DEF NotYet, RefusePunished, Return, objects, PlacesOK, Holding, Goroutine
<1>9. CASE Refill(c)
  BY <1>1, <1>2, <1>3, <1>4, <1>9 DEF NotYet, Refill, Move, callVars, PlacesOK, Holding, Goroutine
<1>10. CASE FindSubnet(c)
  BY <1>1, <1>3, <1>4, <1>10 DEF NotYet, FindSubnet, Move, objects, locks, callVars, PlacesOK, Holding, Goroutine
<1>11. CASE Announce(c, "subnetCreate", "subnetCreating")
  BY <1>1, <1>3, <1>4, <1>11 DEF NotYet, Announce, Move, objects, callVars, PlacesOK, Holding, Goroutine
<1>12. CASE CreateSubnet(c)
  BY <1>1, <1>3, <1>4, <1>12 DEF NotYet, CreateSubnet, Move, objects, callVars, PlacesOK, Holding, Goroutine
<1>13. CASE Charge(c)
  BY <1>1, <1>2, <1>3, <1>4, <1>13 DEF NotYet, Charge, Return, objects, PlacesOK, HoldsOK, Holding, Goroutine
<1>14. CASE Respond(c)
  BY <1>1, <1>3, <1>4, <1>14 DEF NotYet, Respond, Move, objects, locks, PlacesOK, Holding, Goroutine
<1> QED BY <1>5, <1>6, <1>7, <1>8, <1>9, <1>10, <1>11, <1>12, <1>13, <1>14

LEMMA CreateKeeps ==
  ASSUME TimersInv, NEW c \in Call, CreateStats(c), NEW s \in Stats \ trusted'
  PROVE  Spread(s)'
<1>0. MapsOK /\ HoldsOK /\ PlacesOK /\ FieldsOK /\ (s \notin trusted => Spread(s))
  BY DEF TimersInv, IInv
<1>1. PICK t \in Stats :
           /\ found' = [found EXCEPT ![c] = t]
           /\ \/ t = ipStats[address[c]] /\ UNCHANGED <<ipStats, objects>>
              \/ /\ t \in Unused /\ UNCHANGED timers
                 /\ trusted' = trusted \cup {t} \/ trusted' = trusted \ {t}
                 /\ ipStats' = [ipStats EXCEPT ![address[c]] = t]
                 /\ failed' = [failed EXCEPT ![t] = 0]
                 /\ penalty' = [penalty EXCEPT ![t] = 0]
  BY <1>0, CreateStatsFinds
<1>2. /\ place[c] = "creating" /\ place' = [place EXCEPT ![c] = "lock"]
      /\ UNCHANGED <<setup, purpose, address>>
  BY CreateStatsMoves
<1>3. address[c] \in Address /\ None \notin Stats
  BY <1>0, <1>2, CallsFinite DEF HoldsOK
<1>4. CASE t = ipStats[address[c]] /\ UNCHANGED <<ipStats, objects>>
  <2>1. ASSUME NEW d \in NotYet(s)' PROVE d \in NotYet(s)
    <3>1. d \in Call
      BY <2>1 DEF NotYet
    <3>2. ipStats' = ipStats
      BY <1>4
    <3> QED BY <1>0, <1>1, <1>2, <1>4, <2>1, <3>1, <3>2 DEF NotYet, PlacesOK, Holding, Goroutine
  <2>2. UNCHANGED <<timers[s], penalty[s], failed[s], setup>>
    BY <1>2, <1>4 DEF objects
  <2>3. s \notin trusted
    BY <1>4 DEF objects
  <2> QED BY <1>0, <2>1, <2>2, <2>3, SpreadStays
<1>5. CASE /\ t \in Unused /\ UNCHANGED timers
           /\ trusted' = trusted \cup {t} \/ trusted' = trusted \ {t}
           /\ ipStats' = [ipStats EXCEPT ![address[c]] = t]
           /\ failed' = [failed EXCEPT ![t] = 0]
           /\ penalty' = [penalty EXCEPT ![t] = 0]
  <2>1. CASE s = t
    <3> DEFINE up == [m \in 0 .. Over |-> 0]
    <3>1. timers'[s] = NoTimers
      BY <1>5, <2>1 DEF Unused
    <3>2. Over \in 0 .. Over /\ \A m \in 0 .. UnblockMinutes : m \in 0 .. Over /\ m + 1 \in 0 .. Over /\ NoTimers[m] = 0
      BY TimesAre DEF NoTimers
    <3>3. Totals(timers'[s], up)
      BY <3>1, <3>2, TimesAre DEF Totals
    <3>4. up[Over] = 0
      BY <3>2
    <3> HIDE DEF up
    <3> QED BY <3>3, <3>4 DEF Spread
  <2>2. CASE s # t
    <3>1. UNCHANGED <<timers[s], penalty[s], failed[s], setup>>
      BY <1>0, <1>2, <1>5, <2>2 DEF FieldsOK
    <3>2. ASSUME NEW d \in NotYet(s)' PROVE d \in NotYet(s)
      <4>1. d \in Call
        BY <3>2 DEF NotYet
      <4>2. place[d] # "idle" => address[d] \in Address
        BY <1>0, <4>1 DEF HoldsOK
      <4>3. \A a \in Address : ipStats'[a] = s => ipStats[a] = s
        BY <1>0, <1>5, <2>2 DEF MapsOK
      <4>4. CASE d = c
        <5>1. place'[d] = "lock" /\ found'[d] = t /\ ipStats'[address[d]] = t /\ address' = address
          BY <1>0, <1>1, <1>2, <1>3, <1>5, <4>1, <4>4 DEF PlacesOK, MapsOK, Goroutine
        <5> QED BY <2>2, <3>2, <5>1 DEF NotYet, Holding
      <4>5. CASE d # c
        <5>1. place'[d] = place[d] /\ found'[d] = found[d] /\ address' = address /\ purpose' = purpose
          BY <1>0, <1>1, <1>2, <4>1, <4>5 DEF PlacesOK, Goroutine
        <5> QED BY <3>2, <4>1, <4>2, <4>3, <5>1 DEF NotYet, Holding
      <4> QED BY <4>4, <4>5
    <3>3. s \notin trusted
      BY <1>5, <2>2
    <3> QED BY <1>0, <3>1, <3>2, <3>3, SpreadStays
  <2> QED BY <2>1, <2>2
<1> QED BY <1>1, <1>4, <1>5

(* What recording a failure does to the counters.                          *)
LEMMA FailureCounts ==
  ASSUME TimersInv, NEW c \in Call, RecordFailure(c), NEW s, s = found[c],
         NEW n, n = Lesser(failed[s] + 1, MaxFailures)
  PROVE  /\ s \in Stats /\ failed'[s] = n /\ setup' = setup
         /\ VerySuspicious(failed[s]) => VerySuspicious(n)
         /\ IF VerySuspicious(n)
            THEN /\ penalty'[s] = Half
                 /\ timers'[s] = [timers[s] EXCEPT ![UnblockMinutes] = @ + 1]
            ELSE timers' = timers
         /\ \A t \in Stats \ {s} : UNCHANGED <<timers[t], penalty[t], failed[t]>>
<1>1. MapsOK /\ FieldsOK /\ HoldsOK
  BY DEF TimersInv, IInv
<1>2. /\ failed' = [failed EXCEPT ![s] = n]
      /\ penalty' = [penalty EXCEPT ![s] = Penalty(s, n)]
      /\ setup' = setup
  BY RecordFailureCounts
<1>3. s \in Stats
  BY <1>1, RecordFailureMoves DEF HoldsOK
<1>4. IF VerySuspicious(n) THEN Blacklist(s) ELSE UNCHANGED <<blacklisted, timers>>
  BY Zenon DEF RecordFailure
<1>5. VerySuspicious(failed[s]) => VerySuspicious(n)
  <2> SUFFICES ASSUME VerySuspicious(failed[s]) PROVE VerySuspicious(n)
    OBVIOUS
  <2>1. /\ "suspicious" \in setup.options /\ failed[s] >= SuspiciousThreshold
        /\ failed[s] >= SuspiciousThreshold * 2
    BY DEF VerySuspicious, Suspicious
  <2>2. /\ failed[s] \in 0 .. MaxFailures /\ MaxFailures \in Nat
        /\ SuspiciousThreshold \in Nat /\ SuspiciousThreshold * 2 \in Nat
    BY <1>1, <1>3, BoundsAreNat, ThrottleAssumption DEF FieldsOK, ThrottleAssumption
  <2>3. n >= failed[s]
    BY <2>2 DEF Lesser
  <2>4. n \in Nat
    BY <2>2 DEF Lesser
  <2>5. n >= SuspiciousThreshold /\ n >= SuspiciousThreshold * 2
    BY <2>1, <2>2, <2>3, <2>4
  <2> QED BY <2>1, <2>5 DEF VerySuspicious, Suspicious
<1>6. VerySuspicious(n) => Penalty(s, n) = Half
  BY DEF VerySuspicious, Penalty, Half
<1>7. failed'[s] = n /\ penalty'[s] = Penalty(s, n)
      /\ \A t \in Stats \ {s} : penalty'[t] = penalty[t] /\ failed'[t] = failed[t]
  BY <1>1, <1>2, <1>3 DEF FieldsOK
<1>8. CASE VerySuspicious(n)
  <2>1. timers' = [timers EXCEPT ![s][UnblockMinutes] = @ + 1]
    BY <1>4, <1>8 DEF Blacklist
  <2>2. timers'[s] = [timers[s] EXCEPT ![UnblockMinutes] = @ + 1] /\ \A t \in Stats \ {s} : timers'[t] = timers[t]
    BY <1>1, <1>3, <2>1 DEF FieldsOK
  <2> QED BY <1>2, <1>3, <1>5, <1>6, <1>7, <1>8, <2>2
<1>9. CASE ~VerySuspicious(n)
  <2>1. timers' = timers
    BY <1>4, <1>9
  <2> QED BY <1>2, <1>3, <1>5, <1>7, <1>9, <2>1
<1> QED BY <1>8, <1>9

LEMMA RecordKeeps ==
  ASSUME TimersInv, NEW c \in Call, RecordFailure(c), NEW t \in Stats \ trusted
  PROVE  Spread(t)'
<1> DEFINE s == found[c]
           n == Lesser(failed[s] + 1, MaxFailures)
<1>1. MapsOK /\ FieldsOK /\ HoldsOK /\ PlacesOK /\ Spread(t)
  BY DEF TimersInv, IInv
<1>2. /\ s \in Stats /\ failed'[s] = n /\ setup' = setup
      /\ VerySuspicious(failed[s]) => VerySuspicious(n)
      /\ IF VerySuspicious(n)
         THEN /\ penalty'[s] = Half
              /\ timers'[s] = [timers[s] EXCEPT ![UnblockMinutes] = @ + 1]
         ELSE timers' = timers
      /\ \A r \in Stats \ {s} : UNCHANGED <<timers[r], penalty[r], failed[r]>>
  BY FailureCounts
<1>3. /\ place[c] = "lock" /\ purpose[c] = "record" /\ Return(c, "idle")
      /\ UNCHANGED <<ipStats, address>>
  <2>1. purpose[c] = "record"
    BY Zenon DEF RecordFailure
  <2> QED BY <2>1, RecordFailureMoves
<1>4. ASSUME NEW r \in Stats, NEW d \in NotYet(r)' PROVE d \in NotYet(r) \ {c}
  <2>1. d \in Call
    BY <1>4 DEF NotYet
  <2>2. d # c
    BY <1>1, <1>3, <1>4, <2>1 DEF NotYet, Return, PlacesOK, Holding, Goroutine
  <2> QED BY <1>1, <1>3, <1>4, <2>1, <2>2 DEF NotYet, Return, PlacesOK, Holding, Goroutine
<1> HIDE DEF n
<1>5. CASE t # s
  <2>1. NotYet(t)' \subseteq NotYet(t)
    BY <1>4
  <2>2. UNCHANGED <<timers[t], penalty[t], failed[t], setup>>
    BY <1>2, <1>5
  <2> QED BY <1>1, <2>1, <2>2, SpreadStays
<1>6. CASE t = s
  <2> HIDE DEF s
  <2>1. PICK up : /\ Totals(timers[t], up)
                  /\ \/ up[Over] = 0
                     \/ VerySuspicious(failed[t]) /\ Waves(up, penalty[t], Waiting(t))
    BY <1>1 DEF Spread
  <2>2. CASE ~VerySuspicious(n)
    <3>1. up[Over] = 0 /\ timers' = timers
      BY <1>2, <1>6, <2>1, <2>2
    <3> QED BY <2>1, <3>1 DEF Spread
  <2>3. CASE VerySuspicious(n)
    <3>1. c \in NotYet(t) /\ NotYet(t)' \subseteq NotYet(t) \ {c} /\ NotYet(t) \subseteq Call
      BY <1>3, <1>4, <1>6, WaitingIs DEF NotYet, s
    <3>2. IsFiniteSet(NotYet(t)) /\ Waiting(t) \in Nat /\ IsFiniteSet(Call) /\ Waiting(t) <= Callers
      BY CallsFinite, WaitingIs
    <3>3. Waiting(t)' \in Nat /\ Waiting(t)' + 1 <= Waiting(t)
      BY <3>1, <3>2, OneLess DEF Waiting
    <3>4. Waiting(t)' + 1 <= Callers
      BY <3>2, <3>3, CallersCounted
    <3>5. penalty[t] \in Nat /\ timers[t] \in [0 .. UnblockMinutes -> Nat]
      BY <1>1, BoundsAreNat DEF FieldsOK
    <3>6. \/ up[Over] = 0 /\ Waiting(t)' + 1 <= Callers
          \/ Calm(up, penalty[t]) /\ Waiting(t)' + 1 <= Callers
          \/ Waves(up, penalty[t], Waiting(t)) /\ penalty[t] # 0 /\ Waiting(t)' + 1 <= Waiting(t)
      <4>1. ASSUME NEW k \in 0 .. UnblockMinutes, Wave(up, penalty[t], k, Waiting(t)) PROVE penalty[t] # 0
        BY <4>1, TimesAre DEF Wave
      <4> QED BY <2>1, <3>3, <3>4, <4>1 DEF Waves
    <3>7. \E new : /\ Totals([timers[t] EXCEPT ![UnblockMinutes] = @ + 1], new)
                   /\ Waves(new, Half, Waiting(t)')
      <4> DEFINE later == Waiting(t)'
      <4> HIDE DEF later
      <4> QED BY <2>1, <3>2, <3>3, <3>5, <3>6, TimerStarts DEF later
    <3>8. VerySuspicious(failed[t])'
      BY <1>2, <1>6, <2>3 DEF VerySuspicious, Suspicious
    <3>9. timers'[t] = [timers[t] EXCEPT ![UnblockMinutes] = @ + 1] /\ penalty'[t] = Half
      BY <1>2, <1>6, <2>3
    <3> QED BY <3>7, <3>8, <3>9 DEF Spread
  <2> QED BY <2>2, <2>3
<1> QED BY <1>5, <1>6

LEMMA RunsKeeps ==
  ASSUME TimersInv, NEW s \in Stats, scheduleUnblacklist(s), NEW t \in Stats \ trusted
  PROVE  Spread(t)'
<1>1. FieldsOK /\ HoldsOK /\ MapsOK /\ Spread(t)
  BY DEF TimersInv, IInv
<1>2. /\ UNCHANGED <<setup, ipStats, failed, penalty, place, purpose, address, found>>
      /\ timers' = [timers EXCEPT ![s][0] = @ - 1] /\ timers[s][0] > 0
  BY Zenon DEF scheduleUnblacklist, callVars
<1>3. NotYet(t)' = NotYet(t)
  BY <1>2 DEF NotYet
<1>4. CASE t # s
  <2>1. timers'[t] = timers[t] /\ penalty'[t] = penalty[t] /\ failed'[t] = failed[t] /\ setup' = setup
    BY <1>1, <1>2, <1>4 DEF FieldsOK
  <2> QED BY <1>1, <1>3, <2>1, SpreadStays
<1>5. CASE t = s
  <2>1. /\ timers[t] \in [0 .. UnblockMinutes -> Nat] /\ penalty[t] \in Nat
        /\ timers'[t] = [timers[t] EXCEPT ![0] = @ - 1] /\ timers[t][0] > 0
    BY <1>1, <1>2, <1>5, BoundsAreNat DEF FieldsOK
  <2>2. PICK up : /\ Totals(timers[t], up)
                  /\ \/ up[Over] = 0
                     \/ VerySuspicious(failed[t]) /\ Waves(up, penalty[t], Waiting(t))
    BY <1>1 DEF Spread
  <2>3. Waiting(t) \in Nat /\ IsFiniteSet(Call)
    BY CallsFinite, WaitingIs
  <2>4. /\ up[Over] # 0
        /\ \E new : /\ Totals([timers[t] EXCEPT ![0] = @ - 1], new)
                    /\ Waves(up, penalty[t], Waiting(t)) => Waves(new, penalty[t], Waiting(t))
    BY <2>1, <2>2, <2>3, TimerRuns
  <2>5. Waiting(t)' = Waiting(t) /\ penalty'[t] = penalty[t]
    BY <1>2, <1>3 DEF Waiting
  <2>6. VerySuspicious(failed[t])' = VerySuspicious(failed[t])
    BY <1>2 DEF VerySuspicious, Suspicious
  <2> QED BY <2>1, <2>2, <2>4, <2>5, <2>6 DEF Spread
<1> QED BY <1>4, <1>5

LEMMA MinuteKeeps ==
  ASSUME TimersInv, Minute, NEW s \in Stats \ trusted
  PROVE  Spread(s)'
<1>1. FieldsOK /\ MapsOK /\ Spread(s) /\ OwnersAdmitted
  BY DEF TimersInv, IInv
<1>2. /\ UNCHANGED <<setup, ipStats, failed, place, purpose, address, found>>
      /\ timers'[s] = [m \in 0 .. UnblockMinutes |->
           (IF m = 0 THEN timers[s][0] ELSE 0)
             + (IF m = UnblockMinutes THEN 0 ELSE timers[s][m + 1])]
      /\ penalty'[s] = IF penalty[s] = 0 THEN 0 ELSE penalty[s] - 1
      /\ timers[s][0] = 0 \/ owner[s] # None
  BY DEF Minute, callVars
<1>3. NotYet(s)' = NotYet(s)
  BY <1>2 DEF NotYet
<1>4. timers[s] \in [0 .. UnblockMinutes -> Nat] /\ penalty[s] \in Nat
  BY <1>1, BoundsAreNat DEF FieldsOK
<1>5. penalty[s] > 0 => timers[s][0] = 0
  BY <1>1, <1>2 DEF OwnersAdmitted, Punished
<1>6. PICK up : /\ Totals(timers[s], up)
                /\ \/ up[Over] = 0
                   \/ VerySuspicious(failed[s]) /\ Waves(up, penalty[s], Waiting(s))
  BY <1>1 DEF Spread
<1>7. Waiting(s) \in Nat /\ IsFiniteSet(Call)
  BY CallsFinite, WaitingIs
<1>8. \E new : /\ Totals(timers'[s], new) /\ new[Over] = up[Over]
               /\ Waves(up, penalty[s], Waiting(s)) => Waves(new, penalty'[s], Waiting(s))
  <2>1. PICK asleep, term, waiting, next :
             asleep = timers[s] /\ term = penalty[s] /\ waiting = Waiting(s) /\ next = timers'[s]
    OBVIOUS
  <2>2. /\ asleep \in [0 .. UnblockMinutes -> Nat] /\ term \in Nat /\ waiting \in Nat
        /\ Totals(asleep, up)
    BY <1>4, <1>6, <1>7, <2>1
  <2>3. term > 0 => asleep[0] = 0
    BY <1>5, <2>1
  <2>4. next = [m \in 0 .. UnblockMinutes |->
          (IF m = 0 THEN asleep[0] ELSE 0) + (IF m = UnblockMinutes THEN 0 ELSE asleep[m + 1])]
    <3>1. timers'[s] = [m \in 0 .. UnblockMinutes |->
             (IF m = 0 THEN timers[s][0] ELSE 0)
               + (IF m = UnblockMinutes THEN 0 ELSE timers[s][m + 1])]
      BY <1>2
    <3> QED BY <2>1, <3>1
  <2>5. \E new : /\ Totals(next, new) /\ new[Over] = up[Over]
                 /\ Waves(up, term, waiting) => Waves(new, IF term = 0 THEN 0 ELSE term - 1, waiting)
    BY <1>7, <2>2, <2>3, <2>4, MinutePasses
  <2>6. penalty'[s] = IF term = 0 THEN 0 ELSE term - 1
    BY <1>2, <2>1
  <2> QED BY <2>1, <2>5, <2>6
<1>9. Waiting(s)' = Waiting(s)
  BY <1>3 DEF Waiting
<1>10. VerySuspicious(failed[s])' = VerySuspicious(failed[s])
  BY <1>2 DEF VerySuspicious, Suspicious
<1> QED BY <1>6, <1>8, <1>9, <1>10 DEF Spread

(* Whoever does not touch the statistics and admits no call.               *)
LEMMA OthersKeep ==
  ASSUME TimersInv, NEW s \in Stats \ trusted, UNCHANGED <<setup, failed, penalty, timers>>,
         penalty[s] # 0 => NotYet(s)' \subseteq NotYet(s)
  PROVE  Spread(s)'
<1>1. Spread(s) /\ UNCHANGED <<timers[s], penalty[s], failed[s], setup>>
  BY DEF TimersInv
<1> QED BY <1>1, SpreadStays

(* Only the making of statistics changes what was made for the whitelist.  *)
LEMMA TrustedStays ==
  ASSUME ThrottleNext
  PROVE  (\E c \in Call : CreateStats(c)) \/ trusted' = trusted
<1>1. ASSUME NEW c \in Call, RecordFailure(c) PROVE trusted' = trusted
  BY <1>1, Zenon DEF RecordFailure
<1>2. ASSUME NEW c \in Call, Refill(c) PROVE trusted' = trusted
  BY <1>2 DEF Refill
<1>3. ASSUME NEW c \in Call,
             \/ \E a \in Address : Arrive(c, a)
             \/ FindStats(c) \/ Announce(c, "create", "creating") \/ RefusePunished(c)
             \/ FindSubnet(c) \/ Announce(c, "subnetCreate", "subnetCreating") \/ CreateSubnet(c)
             \/ Charge(c) \/ Respond(c)
      PROVE  trusted' = trusted
  BY <1>3 DEF Arrive, FindStats, Announce, RefusePunished, FindSubnet, CreateSubnet, Charge,
              Respond, objects
<1>4. ASSUME \/ StartCleanup \/ EnterCleanup \/ EndCleanup \/ \E a \in Address : cleanup(a)
             \/ \E r \in Reader : StartReading(r) \/ EndReading(r) \/ \E a \in Address : Read(r, a)
      PROVE  trusted' = trusted
  BY <1>4 DEF StartCleanup, EnterCleanup, EndCleanup, cleanup, StartReading, EndReading, Read,
              objects
<1>5. ASSUME Minute \/ \E s \in Stats : scheduleUnblacklist(s) PROVE trusted' = trusted
  BY <1>5, Zenon DEF Minute, scheduleUnblacklist
<1> QED
  BY <1>1, <1>2, <1>3, <1>4, <1>5 DEF ThrottleNext, CallStep, ReaderStep, CleanerStep

LEMMA TrustedStep ==
  ASSUME MapsOK, HoldsOK, TrustedOK, ThrottleNext
  PROVE  TrustedOK'
<1>1. CASE \E c \in Call : CreateStats(c)
  <2>1. PICK c \in Call : CreateStats(c)
    BY <1>1
  <2>2. PICK s \in Stats :
           \/ UNCHANGED <<ipStats, objects>>
           \/ /\ s \in Unused /\ ipStats' = [ipStats EXCEPT ![address[c]] = s]
              /\ trusted' = IF address[c] \in setup.whitelist
                              THEN trusted \cup {s} ELSE trusted \ {s}
    BY <2>1, CreateStatsFinds
  <2>3. setup' = setup
    BY <2>1, CreateStatsMoves
  <2>4. CASE UNCHANGED <<ipStats, objects>>
    BY <2>3, <2>4 DEF TrustedOK, objects
  <2>5. CASE /\ s \in Unused /\ ipStats' = [ipStats EXCEPT ![address[c]] = s]
             /\ trusted' = IF address[c] \in setup.whitelist
                             THEN trusted \cup {s} ELSE trusted \ {s}
    <3> SUFFICES ASSUME NEW a \in Address, ipStats'[a] \in Stats
                 PROVE  ipStats'[a] \in trusted' <=> a \in setup.whitelist
      BY <2>3 DEF TrustedOK
    <3>1. ipStats'[a] = IF a = address[c] THEN s ELSE ipStats[a]
      BY <2>5 DEF MapsOK
    <3>2. CASE a = address[c]
      BY <2>5, <3>1, <3>2
    <3>3. CASE a # address[c]
      <4>1. ipStats[a] # s
        BY <2>5 DEF Unused
      <4> QED BY <2>5, <3>1, <3>3, <4>1 DEF TrustedOK
    <3> QED BY <3>2, <3>3
  <2> QED BY <2>2, <2>4, <2>5
<1>2. CASE ~\E c \in Call : CreateStats(c)
  <2>1. trusted' = trusted
    BY <1>2, TrustedStays
  <2>2. setup' = setup /\ \A a \in Address : ipStats'[a] \in {ipStats[a], None}
    <3>1. ASSUME NEW a \in Address, cleanup(a)
          PROVE  setup' = setup /\ \A b \in Address : ipStats'[b] \in {ipStats[b], None}
      BY <3>1 DEF cleanup, MapsOK
    <3>2. ASSUME NEW c \in Call, RecordFailure(c) PROVE setup' = setup /\ ipStats' = ipStats
      BY <3>2, RecordFailureMoves
    <3>3. ASSUME NEW c \in Call, CallStep(c) \/ \E a \in Address : Arrive(c, a)
          PROVE  setup' = setup /\ ipStats' = ipStats
      BY <1>2, <3>2, <3>3
      DEF CallStep, Arrive, FindStats, Announce, RefusePunished, Refill, FindSubnet,
          CreateSubnet, Charge, Respond
    <3>4. ASSUME \/ StartCleanup \/ EnterCleanup \/ EndCleanup
                 \/ \E r \in Reader : StartReading(r) \/ EndReading(r) \/ \E a \in Address : Read(r, a)
                 \/ Minute \/ \E s \in Stats : scheduleUnblacklist(s)
          PROVE  setup' = setup /\ ipStats' = ipStats
      BY <3>4 DEF StartCleanup, EnterCleanup, EndCleanup, StartReading, EndReading, Read, Minute,
                  scheduleUnblacklist
    <3> QED BY <3>1, <3>3, <3>4 DEF ThrottleNext, ReaderStep, CleanerStep
  <2> QED BY <2>1, <2>2, CallsFinite DEF TrustedOK
<1> QED BY <1>1, <1>2

LEMMA SpreadStep ==
  ASSUME TimersInv, ThrottleNext, NEW s \in Stats \ trusted'
  PROVE  Spread(s)'
<1>1. IInv /\ OwnersAdmitted /\ TrustedOK /\ HoldsOK /\ PlacesOK /\ MapsOK
  BY DEF TimersInv, IInv
<1>0. (\E c \in Call : CreateStats(c)) \/ s \notin trusted
  BY TrustedStays
<1>2. ASSUME NEW c \in Call,
             \/ \E a \in Address : Arrive(c, a)
             \/ FindStats(c) \/ Announce(c, "create", "creating")
             \/ RefusePunished(c) \/ Refill(c)
             \/ FindSubnet(c) \/ Announce(c, "subnetCreate", "subnetCreating") \/ CreateSubnet(c)
             \/ Charge(c) \/ Respond(c)
      PROVE  Spread(s)'
  <2>0. s \notin trusted
    BY <1>2 DEF Arrive, FindStats, Announce, RefusePunished, Refill, FindSubnet, CreateSubnet,
                Charge, Respond, objects
  <2>1. UNCHANGED <<setup, failed, penalty, timers>>
    BY <1>2 DEF Arrive, FindStats, Announce, RefusePunished, Refill, FindSubnet, CreateSubnet,
                Charge, Respond, objects
  <2>2. penalty[s] # 0 => NotYet(s)' \subseteq NotYet(s)
    <3> SUFFICES ASSUME penalty[s] # 0 PROVE NotYet(s)' \subseteq NotYet(s)
      OBVIOUS
    <3> QED BY <1>1, <1>2, <2>0, NobodyAdmitted
  <2> QED BY <2>0, <2>1, <2>2, OthersKeep
<1>3. ASSUME \/ StartCleanup \/ EnterCleanup \/ EndCleanup \/ \E a \in Address : cleanup(a)
             \/ \E r \in Reader : StartReading(r) \/ EndReading(r) \/ \E a \in Address : Read(r, a)
      PROVE  Spread(s)'
  <2>1. UNCHANGED <<setup, failed, penalty, timers, purpose, address, found>>
    BY <1>3 DEF StartCleanup, EnterCleanup, EndCleanup, cleanup, StartReading, EndReading, Read,
                objects, callVars
  <2>2. \A c \in Call : place'[c] = place[c]
    BY <1>1, <1>3, CallsFinite
    DEF StartCleanup, EnterCleanup, EndCleanup, cleanup, StartReading, EndReading, Read, Move,
        PlacesOK, Goroutine
  <2>3. \A a \in Address : ipStats'[a] = s => ipStats[a] = s
    BY <1>1, <1>3, CallsFinite
    DEF StartCleanup, EnterCleanup, EndCleanup, cleanup, StartReading, EndReading, Read, MapsOK
  <2>4. NotYet(s)' \subseteq NotYet(s)
    BY <1>1, <2>1, <2>2, <2>3, SameCalls
  <2>5. s \notin trusted
    BY <1>3 DEF StartCleanup, EnterCleanup, EndCleanup, cleanup, StartReading, EndReading, Read,
                objects
  <2> QED BY <2>1, <2>4, <2>5, OthersKeep
<1> QED
  BY <1>0, <1>2, <1>3, CreateKeeps, RecordKeeps, RunsKeeps, MinuteKeeps
  DEF ThrottleNext, CallStep, ReaderStep, CleanerStep

LEMMA OwnersStep ==
  ASSUME IInv, OwnersAdmitted, ThrottleNext
  PROVE  OwnersAdmitted'
<1>1. HoldsOK /\ PlacesOK /\ MapsOK /\ FieldsOK
  BY DEF IInv
<1>2. ASSUME NEW c \in Call,
             \/ \E a \in Address : Arrive(c, a)
             \/ FindStats(c) \/ Announce(c, "create", "creating")
             \/ FindSubnet(c) \/ Announce(c, "subnetCreate", "subnetCreating") \/ CreateSubnet(c)
             \/ Respond(c)
      PROVE  OwnersAdmitted'
  <2>1. UNCHANGED <<penalty, blacklisted, owner>>
    BY <1>2 DEF Arrive, FindStats, Announce, FindSubnet, CreateSubnet, Respond, objects, locks
  <2> QED BY <2>1 DEF OwnersAdmitted, Punished
<1>3. ASSUME NEW c \in Call, RefusePunished(c) \/ Charge(c) PROVE OwnersAdmitted'
  <2>1. /\ UNCHANGED <<penalty, blacklisted>>
        /\ owner' = owner \/ owner' = [owner EXCEPT ![found[c]] = None]
    BY <1>3 DEF RefusePunished, Charge, Return, objects
  <2>2. ASSUME NEW s \in Stats PROVE owner'[s] = owner[s] \/ owner'[s] = None
    BY <1>1, <2>1 DEF PlacesOK
  <2>3. \A s \in Stats : Punished(s)' = Punished(s)
    BY <2>1 DEF Punished
  <2> QED BY <2>2, <2>3 DEF OwnersAdmitted
<1>4. ASSUME NEW c \in Call, Refill(c) PROVE OwnersAdmitted'
  BY <1>1, <1>4 DEF Refill, OwnersAdmitted, Punished, PlacesOK
<1>5. ASSUME NEW c \in Call, CreateStats(c) PROVE OwnersAdmitted'
  <2>1. owner' = owner
    BY <1>5, CreateStatsMoves
  <2>2. \A s \in Stats : Punished(s)' => Punished(s)
    <3>1. PICK new \in Stats :
               \/ UNCHANGED objects
               \/ /\ penalty' = [penalty EXCEPT ![new] = 0]
                  /\ blacklisted' = [blacklisted EXCEPT ![new] = FALSE]
      BY <1>1, <1>5, CreateStatsFinds
    <3>2. penalty \in [Stats -> Minutes] /\ blacklisted \in [Stats -> BOOLEAN]
      BY <1>1 DEF FieldsOK
    <3>3. CASE UNCHANGED objects
      BY <3>3 DEF objects, Punished
    <3>4. ASSUME penalty' = [penalty EXCEPT ![new] = 0],
                 blacklisted' = [blacklisted EXCEPT ![new] = FALSE],
                 NEW s \in Stats, Punished(s)'
          PROVE  Punished(s)
      <4>1. penalty'[s] = (IF s = new THEN 0 ELSE penalty[s])
            /\ blacklisted'[s] = (IF s = new THEN FALSE ELSE blacklisted[s])
        BY <3>2, <3>4
      <4> QED BY <3>4, <4>1 DEF Punished
    <3> QED BY <3>1, <3>3, <3>4
  <2> QED BY <2>1, <2>2 DEF OwnersAdmitted
<1>6. ASSUME NEW c \in Call, RecordFailure(c) PROVE OwnersAdmitted'
  <2> DEFINE s == found[c]
             n == Lesser(failed[s] + 1, MaxFailures)
  <2>1. Return(c, "idle") /\ s \in Stats
    BY <1>1, <1>6, RecordFailureMoves DEF HoldsOK
  <2>2. /\ penalty' = [penalty EXCEPT ![s] = Penalty(s, n)]
        /\ Blacklist(s) \/ UNCHANGED <<blacklisted, timers>>
    BY <1>6, RecordFailureCounts
  <2> HIDE DEF n
  <2>3. owner' = [owner EXCEPT ![s] = None]
    BY <2>1 DEF Return
  <2> HIDE DEF s
  <2>4. ASSUME NEW t \in Stats \ {s} PROVE penalty'[t] = penalty[t] /\ blacklisted'[t] = blacklisted[t] /\ owner'[t] = owner[t]
    BY <1>1, <2>1, <2>2, <2>3 DEF FieldsOK, PlacesOK, Blacklist
  <2>5. owner'[s] = None
    BY <1>1, <2>1, <2>3 DEF PlacesOK
  <2> QED BY <2>4, <2>5 DEF OwnersAdmitted, Punished
<1>7. ASSUME NEW s \in Stats, scheduleUnblacklist(s) PROVE OwnersAdmitted'
  BY <1>1, <1>7 DEF scheduleUnblacklist, locks, OwnersAdmitted, Punished, FieldsOK
<1>8. ASSUME \/ StartCleanup \/ EnterCleanup \/ EndCleanup \/ \E a \in Address : cleanup(a)
             \/ \E r \in Reader : StartReading(r) \/ EndReading(r) \/ \E a \in Address : Read(r, a)
      PROVE  OwnersAdmitted'
  <2>1. UNCHANGED <<penalty, blacklisted, owner>>
    BY <1>8 DEF StartCleanup, EnterCleanup, EndCleanup, cleanup, StartReading, EndReading, Read,
                objects, locks
  <2> QED BY <2>1 DEF OwnersAdmitted, Punished
<1>9. ASSUME Minute PROVE OwnersAdmitted'
  <2>1. owner' = owner /\ blacklisted' = blacklisted
        /\ \A s \in Stats : penalty'[s] = IF penalty[s] = 0 THEN 0 ELSE penalty[s] - 1
    BY <1>9 DEF Minute, locks
  <2>2. \A s \in Stats : penalty[s] \in Nat
    BY <1>1, BoundsAreNat DEF FieldsOK
  <2>3. \A s \in Stats : Punished(s)' => Punished(s)
    BY <2>1, <2>2 DEF Punished
  <2> QED BY <2>1, <2>3 DEF OwnersAdmitted
<1> QED
  BY <1>2, <1>3, <1>4, <1>5, <1>6, <1>7, <1>8, <1>9
  DEF ThrottleNext, CallStep, ReaderStep, CleanerStep

LEMMA TimersInitInv ==
  ThrottleInit => OwnersAdmitted /\ TrustedOK /\ \A s \in Stats \ trusted : Spread(s)
<1> SUFFICES ASSUME ThrottleInit
             PROVE  OwnersAdmitted /\ TrustedOK /\ \A s \in Stats \ trusted : Spread(s)
  OBVIOUS
<1>0. TrustedOK
  BY CallsFinite DEF ThrottleInit, TrustedOK
<1>1. OwnersAdmitted
  BY DEF ThrottleInit, OwnersAdmitted
<1>2. ASSUME NEW s \in Stats PROVE Spread(s)
  <2> DEFINE up == [m \in 0 .. Over |-> 0]
  <2>1. timers[s] = NoTimers
    BY DEF ThrottleInit
  <2>2. Over \in 0 .. Over /\ \A m \in 0 .. UnblockMinutes : m \in 0 .. Over /\ m + 1 \in 0 .. Over /\ NoTimers[m] = 0
    BY TimesAre DEF NoTimers
  <2>3. Totals(timers[s], up) /\ up[Over] = 0
    BY <2>1, <2>2, TimesAre DEF Totals
  <2> HIDE DEF up
  <2> QED BY <2>3 DEF Spread
<1> QED BY <1>0, <1>1, <1>2

LEMMA FewPending == TimersInv => TimersBounded
<1> SUFFICES ASSUME TimersInv, NEW s \in Stats \ trusted PROVE Pending(s) <= 3 * Callers
  BY DEF TimersBounded, Callers
<1>1. timers[s] \in [0 .. UnblockMinutes -> Nat] /\ penalty[s] \in Nat /\ Spread(s)
  BY BoundsAreNat DEF TimersInv, IInv, FieldsOK
<1>2. Waiting(s) \in Nat
  BY CallsFinite, WaitingIs
<1> QED BY <1>1, <1>2, CallsFinite, PendingIs, FewTimers DEF Spread

(* No more timers sleep for an address that is not on the whitelist than   *)
(* three times the requests that there can be at once: while a penalty     *)
(* runs no request of it is admitted, so each can start one timer in it,   *)
(* and timers that are not due are of two such waves at most.              *)
THEOREM FewTimersPending == ThrottleSpec => []TimersBounded
<1> DEFINE Rest == OwnersAdmitted /\ TrustedOK /\ \A s \in Stats \ trusted : Spread(s)
<1>1. ThrottleInit => Rest
  BY TimersInitInv
<1>2. IInv /\ Rest /\ [ThrottleNext]_throttleVars => Rest'
  <2> SUFFICES ASSUME TimersInv, [ThrottleNext]_throttleVars
               PROVE  /\ OwnersAdmitted' /\ TrustedOK'
                      /\ \A s \in Stats \ trusted' : Spread(s)'
    BY DEF TimersInv
  <2>1. CASE ThrottleNext
    BY <2>1, SpreadStep, OwnersStep, TrustedStep DEF TimersInv, IInv
  <2>2. CASE UNCHANGED throttleVars
    <3>1. UNCHANGED <<setup, ipStats, failed, penalty, blacklisted, timers, trusted, owner,
                      place, purpose, address, found>>
      BY <2>2 DEF throttleVars
    <3>2. OwnersAdmitted' /\ TrustedOK'
      BY <3>1 DEF OwnersAdmitted, TrustedOK, Punished, TimersInv
    <3>3. ASSUME NEW s \in Stats \ trusted' PROVE Spread(s)'
      <4>1. NotYet(s)' = NotYet(s)
        BY <3>1 DEF NotYet
      <4> QED BY <3>1, <4>1, OthersKeep
    <3> QED BY <3>2, <3>3
  <2> QED BY <2>1, <2>2
<1>3. IInv /\ Rest => TimersBounded
  BY FewPending DEF TimersInv
<1> QED BY <1>1, <1>2, <1>3, ThrottleInvariant, PTL DEF ThrottleSpec

-----------------------------------------------------------------------------
(* The locks, seen from who holds them: an owner is between its refill and  *)
(* its answer, a writer and the readers are at the places that Lock() and   *)
(* RLock() lead to, and only the option leads to the subnet.               *)
CallPlaces == {"idle", "find", "create", "creating", "lock", "handler"} \cup Holding

AtSubnet(c) == place[c] \in {"subnet", "subnetCreate", "subnetCreating"}

OwnersHold ==
  \A s \in Stats : owner[s] # None => place[owner[s]] \in Holding /\ found[owner[s]] = s

ModesOK ==
  /\ \A c \in Call : place[c] \in CallPlaces /\ (AtSubnet(c) => "subnet" \in setup.options)
  /\ writer \in Call => place[writer] \in {"creating", "subnetCreating"}
  /\ place[Cleaner] \in {"idle", "announced", "loop"}
  /\ writer = Cleaner => place[Cleaner] # "idle"
  /\ \A r \in Reader : IF r \in readers THEN place[r] = "loop" ELSE place[r] = "idle"

LoopsLeft == \A g \in Reader \cup {Cleaner} : left[g] # {} => place[g] = "loop"

CycleInv == IInv /\ OwnersHold /\ ModesOK /\ LoopsLeft

LEMMA Distinct ==
  /\ None \notin Address /\ None \notin Stats /\ None \notin Call /\ None \notin Reader
  /\ Cleaner # None /\ Cleaner \notin Call /\ Cleaner \notin Reader /\ Call \cap Reader = {}
  BY ThrottleAssumption DEF ThrottleAssumption

(* What a step of a call does to places and owners, whichever it is.       *)
LEMMA OwnersHoldStep ==
  ASSUME CycleInv, ThrottleNext
  PROVE  OwnersHold'
<1>1. MapsOK /\ HoldsOK /\ PlacesOK /\ OwnersHold
  BY DEF CycleInv, IInv
<1>2. \A s \in Stats : owner[s] \in Call \cup {None}
  BY <1>1 DEF PlacesOK
<1>3. ASSUME NEW c \in Call, NEW from, NEW to, Move(c, from, to), from \notin Holding \/ to \in Holding,
             UNCHANGED owner, \A d \in Call \ {c} : found'[d] = found[d],
             from \in Holding => found'[c] = found[c]
      PROVE  OwnersHold'
  <2>1. ASSUME NEW s \in Stats, owner'[s] # None
        PROVE  place'[owner'[s]] \in Holding /\ found'[owner'[s]] = s
    <3>1. owner[s] \in Call /\ place[owner[s]] \in Holding /\ found[owner[s]] = s /\ owner'[s] = owner[s]
      BY <1>1, <1>2, <1>3, <2>1 DEF OwnersHold
    <3>2. CASE owner[s] = c
      BY <1>1, <1>3, <3>1, <3>2 DEF Move, PlacesOK, Goroutine
    <3>3. CASE owner[s] # c
      BY <1>1, <1>3, <3>1, <3>3 DEF Move, PlacesOK, Goroutine
    <3> QED BY <3>2, <3>3
  <2> QED BY <2>1 DEF OwnersHold
<1>4. ASSUME NEW c \in Call, NEW to, Return(c, to), found[c] \in Stats
      PROVE  OwnersHold'
  <2>1. ASSUME NEW s \in Stats, owner'[s] # None
        PROVE  place'[owner'[s]] \in Holding /\ found'[owner'[s]] = s
    <3>1. s # found[c] /\ owner'[s] = owner[s]
      BY <1>1, <1>4, <2>1 DEF Return, PlacesOK
    <3>2. owner[s] \in Call /\ place[owner[s]] \in Holding /\ found[owner[s]] = s
      BY <1>1, <1>2, <2>1, <3>1 DEF OwnersHold
    <3>3. owner[s] # c
      BY <3>1, <3>2
    <3> QED BY <1>1, <1>4, <3>1, <3>2, <3>3 DEF Return, PlacesOK, Goroutine
  <2> QED BY <2>1 DEF OwnersHold
<1>5. ASSUME UNCHANGED <<owner, found>>, \A c \in Call : place'[c] = place[c]
      PROVE  OwnersHold'
  BY <1>1, <1>2, <1>5 DEF OwnersHold
<1>6. ASSUME NEW c \in Call, NEW a \in Address, Arrive(c, a) PROVE OwnersHold'
  BY <1>3, <1>6 DEF Arrive, locks, Holding
<1>7. ASSUME NEW c \in Call, FindStats(c) PROVE OwnersHold'
  <2>1. Move(c, "find", IF ipStats[address[c]] = None THEN "create" ELSE "lock")
        /\ owner' = owner /\ found' = [found EXCEPT ![c] = ipStats[address[c]]]
    BY <1>7 DEF FindStats, locks
  <2>2. "find" \notin Holding /\ \A d \in Call \ {c} : found'[d] = found[d]
    BY <1>1, <2>1 DEF Holding, PlacesOK
  <2> QED BY <1>3, <2>1, <2>2
<1>8. ASSUME NEW c \in Call,
             \/ Announce(c, "create", "creating") \/ FindSubnet(c)
             \/ Announce(c, "subnetCreate", "subnetCreating") \/ CreateSubnet(c) \/ Respond(c)
      PROVE  OwnersHold'
  <2>1. PICK old, new : Move(c, old, new) /\ (old \notin Holding \/ new \in Holding)
    <3>1. \/ Move(c, "create", "creating") \/ Move(c, "subnetCreate", "subnetCreating")
          \/ Move(c, "subnet", "charge") \/ Move(c, "subnet", "subnetCreate")
          \/ Move(c, "subnetCreating", "charge")
          \/ Move(c, "handler", "idle") \/ Move(c, "handler", "find")
      BY <1>8 DEF Announce, FindSubnet, CreateSubnet, Respond
    <3>2. /\ {"create", "handler"} \cap Holding = {}
          /\ {"subnetCreating", "charge", "subnetCreate"} \subseteq Holding
      BY DEF Holding
    <3> QED BY <3>1, <3>2
  <2>2. owner' = owner /\ found' = found
    <3>1. ASSUME NEW from, NEW to, Announce(c, from, to) PROVE owner' = owner /\ found' = found
      BY <3>1 DEF Announce, callVars
    <3>2. ASSUME FindSubnet(c) \/ CreateSubnet(c) \/ Respond(c) PROVE owner' = owner /\ found' = found
      BY <3>2 DEF FindSubnet, CreateSubnet, Respond, locks, callVars
    <3> QED BY <1>8, <3>1, <3>2
  <2>3. \A d \in Call : found'[d] = found[d]
    BY <2>2
  <2>4. \A d \in Call \ {c} : found'[d] = found[d]
    BY <2>3
  <2>5. UNCHANGED owner /\ (old \in Holding => found'[c] = found[c])
    BY <2>2
  <2> QED BY <1>3, <2>1, <2>4, <2>5
<1>9. ASSUME NEW c \in Call, CreateStats(c) PROVE OwnersHold'
  <2>1. Move(c, "creating", "lock") /\ owner' = owner
    BY <1>9, CreateStatsMoves DEF Move
  <2>2. PICK s \in Stats : found' = [found EXCEPT ![c] = s]
    BY <1>1, <1>9, CreateStatsFinds
  <2>3. "creating" \notin Holding /\ \A d \in Call \ {c} : found'[d] = found[d]
    BY <1>1, <2>2 DEF Holding, PlacesOK
  <2> QED BY <1>3, <2>1, <2>3
<1>10. ASSUME NEW c \in Call, RefusePunished(c) \/ Charge(c) \/ RecordFailure(c) PROVE OwnersHold'
  <2>1. place[c] \in Holding \cup {"lock"} /\ \E to : Return(c, to)
    BY <1>10, RecordFailureMoves DEF RefusePunished, Charge, Holding
  <2>2. found[c] \in Stats
    BY <1>1, <2>1 DEF HoldsOK
  <2> QED BY <1>4, <2>1, <2>2
<1>11. ASSUME NEW c \in Call, Refill(c) PROVE OwnersHold'
  <2>1. /\ place[c] = "lock" /\ found' = found /\ owner' = [owner EXCEPT ![found[c]] = c]
        /\ place' = [place EXCEPT ![c] = IF "subnet" \in setup.options THEN "subnet" ELSE "charge"]
    BY <1>11 DEF Refill, Move, callVars
  <2>2. ASSUME NEW s \in Stats, owner'[s] # None
        PROVE  place'[owner'[s]] \in Holding /\ found'[owner'[s]] = s
    <3>1. CASE s = found[c]
      BY <1>1, <2>1, <3>1 DEF PlacesOK, Goroutine, Holding
    <3>2. CASE s # found[c]
      <4>1. owner'[s] = owner[s] /\ owner[s] \in Call /\ place[owner[s]] \in Holding /\ found[owner[s]] = s
        BY <1>1, <1>2, <2>1, <2>2, <3>2 DEF OwnersHold, PlacesOK
      <4>2. owner[s] # c
        BY <3>2, <4>1
      <4> QED BY <1>1, <2>1, <4>1, <4>2 DEF PlacesOK, Goroutine
    <3> QED BY <3>1, <3>2
  <2> QED BY <2>2 DEF OwnersHold
<1>12. ASSUME \/ \E r \in Reader : StartReading(r) \/ ReaderStep(r)
              \/ StartCleanup \/ CleanerStep \/ Minute \/ \E s \in Stats : scheduleUnblacklist(s)
       PROVE  OwnersHold'
  <2>1. owner' = owner /\ found' = found
    BY <1>12 DEF StartReading, ReaderStep, Read, EndReading, StartCleanup, CleanerStep, EnterCleanup,
                 cleanup, EndCleanup, Minute, scheduleUnblacklist, locks, callVars
  <2>2. place' = place \/ \E g \in Reader \cup {Cleaner}, to \in Places : place' = [place EXCEPT ![g] = to]
    BY <1>12 DEF StartReading, ReaderStep, Read, EndReading, StartCleanup, CleanerStep, EnterCleanup,
                 cleanup, EndCleanup, Minute, scheduleUnblacklist, Move, Places
  <2>3. \A c \in Call : c \notin Reader \cup {Cleaner} /\ place'[c] = place[c]
    BY <1>1, <2>2, Distinct DEF PlacesOK, Goroutine
  <2> QED BY <1>5, <2>1, <2>3
<1> QED
  BY <1>6, <1>7, <1>8, <1>9, <1>10, <1>11, <1>12 DEF ThrottleNext, CallStep


LEMMA ModesStep ==
  ASSUME CycleInv, ThrottleNext
  PROVE  ModesOK'
<1>1. MapsOK /\ HoldsOK /\ PlacesOK /\ LockOK /\ ModesOK
  BY DEF CycleInv, IInv
<1>2. place \in [Goroutine -> Places] /\ Call \cup Reader \cup {Cleaner} = Goroutine
  BY <1>1 DEF PlacesOK, Goroutine
(* A move of a call that leaves the locks alone, or takes or gives back the *)
(* write lock.                                                             *)
<1>3. ASSUME NEW c \in Call, NEW to \in CallPlaces, place' = [place EXCEPT ![c] = to],
             UNCHANGED <<setup, readers>>,
             to \in {"subnet", "subnetCreate", "subnetCreating"} => "subnet" \in setup.options,
             \/ writer' = writer /\ place[c] \notin {"creating", "subnetCreating"}
             \/ writer' = c /\ to \in {"creating", "subnetCreating"}
             \/ writer' = None
      PROVE  ModesOK'
  <2>1. /\ place'[c] = to
        /\ \A g \in Goroutine \ {c} : place'[g] = place[g]
    BY <1>2, <1>3
  <2>2. c \notin Reader /\ c # Cleaner /\ c # None /\ None \notin Call /\ Cleaner # None
        /\ \A r \in Reader \cup {Cleaner} : r \in Goroutine \ {c}
    BY <1>2, Distinct
  <2>3. \A d \in Call : place'[d] \in CallPlaces /\ (AtSubnet(d)' => "subnet" \in setup'.options)
    BY <1>1, <1>2, <1>3, <2>1 DEF ModesOK, AtSubnet
  <2>4. writer' \in Call => place'[writer'] \in {"creating", "subnetCreating"}
    BY <1>1, <1>2, <1>3, <2>1, <2>2 DEF ModesOK
  <2>5. place'[Cleaner] \in {"idle", "announced", "loop"}
        /\ \A r \in Reader : IF r \in readers' THEN place'[r] = "loop" ELSE place'[r] = "idle"
    BY <1>1, <1>3, <2>1, <2>2 DEF ModesOK
  <2>6. writer' = Cleaner => place'[Cleaner] # "idle"
    BY <1>1, <1>3, <2>1, <2>2 DEF ModesOK
  <2> QED BY <2>3, <2>4, <2>5, <2>6 DEF ModesOK
<1>4. ASSUME NEW c \in Call, NEW a \in Address, Arrive(c, a) PROVE ModesOK'
  <2>1. PICK to \in {"find", "handler"} :
           /\ place[c] = "idle" /\ place' = [place EXCEPT ![c] = to]
           /\ UNCHANGED <<setup, readers>> /\ writer' = writer
    BY <1>4 DEF Arrive, Move, locks
  <2> QED BY <1>3, <2>1 DEF CallPlaces
<1>5. ASSUME NEW c \in Call, FindStats(c) PROVE ModesOK'
  <2>1. PICK to \in {"create", "lock"} :
           /\ place[c] = "find" /\ place' = [place EXCEPT ![c] = to]
           /\ UNCHANGED <<setup, readers>> /\ writer' = writer
    BY <1>5 DEF FindStats, Move, locks
  <2> QED BY <1>3, <2>1 DEF CallPlaces
<1>6. ASSUME NEW c \in Call, Announce(c, "create", "creating") PROVE ModesOK'
  <2>1. /\ place' = [place EXCEPT ![c] = "creating"]
        /\ UNCHANGED <<setup, readers>> /\ writer' = c
    BY <1>6 DEF Announce, Move
  <2> QED BY <1>3, <2>1 DEF CallPlaces
<1>7. ASSUME NEW c \in Call, Announce(c, "subnetCreate", "subnetCreating") PROVE ModesOK'
  <2>1. /\ place[c] = "subnetCreate" /\ place' = [place EXCEPT ![c] = "subnetCreating"]
        /\ UNCHANGED <<setup, readers>> /\ writer' = c
    BY <1>7 DEF Announce, Move
  <2>2. "subnet" \in setup.options
    BY <1>1, <2>1 DEF ModesOK, AtSubnet
  <2> QED BY <1>3, <2>1, <2>2 DEF CallPlaces, Holding
<1>8. ASSUME NEW c \in Call, CreateStats(c) PROVE ModesOK'
  BY <1>3, <1>8, CreateStatsMoves DEF CallPlaces
<1>9. ASSUME NEW c \in Call, RefusePunished(c) \/ Charge(c) \/ RecordFailure(c) PROVE ModesOK'
  <2>1. PICK to \in {"idle", "handler"} :
           /\ place[c] \in {"lock", "charge"} /\ place' = [place EXCEPT ![c] = to]
           /\ UNCHANGED <<setup, readers>> /\ writer' = writer
    BY <1>9, RecordFailureMoves DEF RefusePunished, Charge, Return
  <2> QED BY <1>3, <2>1 DEF CallPlaces
<1>10. ASSUME NEW c \in Call, Refill(c) PROVE ModesOK'
  <2>1. PICK to \in {"subnet", "charge"} :
           /\ place[c] = "lock" /\ place' = [place EXCEPT ![c] = to]
           /\ to = "subnet" => "subnet" \in setup.options
           /\ UNCHANGED <<setup, readers>> /\ writer' = writer
    BY <1>10 DEF Refill, Move
  <2> QED BY <1>3, <2>1 DEF CallPlaces, Holding
<1>11. ASSUME NEW c \in Call, FindSubnet(c) PROVE ModesOK'
  <2>1. PICK to \in {"charge", "subnetCreate"} :
           /\ place[c] = "subnet" /\ place' = [place EXCEPT ![c] = to]
           /\ UNCHANGED <<setup, readers>> /\ writer' = writer
    BY <1>11 DEF FindSubnet, Move, locks
  <2>2. "subnet" \in setup.options
    BY <1>1, <2>1 DEF ModesOK, AtSubnet
  <2> QED BY <1>3, <2>1, <2>2 DEF CallPlaces, Holding
<1>12. ASSUME NEW c \in Call, CreateSubnet(c) PROVE ModesOK'
  <2>1. /\ place' = [place EXCEPT ![c] = "charge"]
        /\ UNCHANGED <<setup, readers>> /\ writer' = None
    BY <1>12 DEF CreateSubnet, Move
  <2> QED BY <1>3, <2>1 DEF CallPlaces, Holding
<1>13. ASSUME NEW c \in Call, Respond(c) PROVE ModesOK'
  <2>1. PICK to \in {"idle", "find"} :
           /\ place[c] = "handler" /\ place' = [place EXCEPT ![c] = to]
           /\ UNCHANGED <<setup, readers>> /\ writer' = writer
    BY <1>13 DEF Respond, Move, locks
  <2> QED BY <1>3, <2>1 DEF CallPlaces
<1>14. ASSUME UNCHANGED <<setup, place, writer, readers>> PROVE ModesOK'
  BY <1>1, <1>14 DEF ModesOK, AtSubnet
<1>15. ASSUME \/ Minute \/ \E s \in Stats : scheduleUnblacklist(s)
              \/ \E r \in Reader, a \in Address : Read(r, a)
              \/ \E a \in Address : cleanup(a)
       PROVE  ModesOK'
  BY <1>14, <1>15 DEF Minute, scheduleUnblacklist, Read, cleanup, locks
<1>16. ASSUME NEW g \in Reader \cup {Cleaner}, NEW to \in Places, place' = [place EXCEPT ![g] = to], setup' = setup
       PROVE  /\ place'[g] = to
              /\ \A h \in Goroutine \ {g} : place'[h] = place[h]
              /\ \A c \in Call : c # g /\ place'[c] \in CallPlaces
                                 /\ (AtSubnet(c)' => "subnet" \in setup'.options)
  <2>1. place'[g] = to /\ \A h \in Goroutine \ {g} : place'[h] = place[h]
    BY <1>2, <1>16
  <2>2. \A c \in Call : c # g /\ c \in Goroutine
    BY <1>2, Distinct
  <2> QED BY <1>1, <1>16, <2>1, <2>2 DEF ModesOK, AtSubnet
<1>17. ASSUME StartCleanup \/ EnterCleanup \/ EndCleanup PROVE ModesOK'
  <2>1. /\ UNCHANGED <<setup, readers>>
        /\ \/ writer' = Cleaner /\ place' = [place EXCEPT ![Cleaner] = "announced"]
           \/ writer' = writer /\ place' = [place EXCEPT ![Cleaner] = "loop"]
           \/ writer' = None /\ place' = [place EXCEPT ![Cleaner] = "idle"]
    BY <1>17 DEF StartCleanup, EnterCleanup, EndCleanup, Move, locks
  <2>2. \E to \in {"announced", "loop", "idle"} :
           /\ place' = [place EXCEPT ![Cleaner] = to]
           /\ \/ to # "idle" /\ writer' \in {Cleaner, writer}
              \/ writer' = None
    BY <2>1
  <2>3. PICK to \in {"announced", "loop", "idle"} :
           /\ place' = [place EXCEPT ![Cleaner] = to]
           /\ \/ to # "idle" /\ writer' \in {Cleaner, writer}
              \/ writer' = None
    BY <2>2
  <2>4. to \in Places
    BY DEF Places
  <2>5. /\ place'[Cleaner] = to /\ \A h \in Goroutine \ {Cleaner} : place'[h] = place[h]
        /\ \A c \in Call : c # Cleaner /\ place'[c] \in CallPlaces
                           /\ (AtSubnet(c)' => "subnet" \in setup'.options)
    BY <1>16, <2>1, <2>3, <2>4
  <2>6. writer' \in Call => place'[writer'] \in {"creating", "subnetCreating"}
    BY <1>1, <1>2, <2>3, <2>5, Distinct DEF ModesOK
  <2>7. \A r \in Reader : IF r \in readers' THEN place'[r] = "loop" ELSE place'[r] = "idle"
    BY <1>1, <1>2, <2>1, <2>5, Distinct DEF ModesOK
  <2>8. place'[Cleaner] \in {"idle", "announced", "loop"} /\ (writer' = Cleaner => place'[Cleaner] # "idle")
    BY <2>3, <2>5, Distinct
  <2> QED BY <2>5, <2>6, <2>7, <2>8 DEF ModesOK
<1>18. ASSUME NEW r \in Reader, StartReading(r) \/ EndReading(r) PROVE ModesOK'
  <2>1. /\ UNCHANGED <<setup, writer>>
        /\ \/ readers' = readers \cup {r} /\ place' = [place EXCEPT ![r] = "loop"]
           \/ readers' = readers \ {r} /\ place' = [place EXCEPT ![r] = "idle"]
    BY <1>18 DEF StartReading, EndReading, Move
  <2>2. PICK to \in {"loop", "idle"} :
           /\ place' = [place EXCEPT ![r] = to]
           /\ r \in readers' <=> to = "loop"
           /\ \A q \in Reader \ {r} : q \in readers' <=> q \in readers
    BY <2>1
  <2>3. to \in Places
    BY DEF Places
  <2>4. /\ place'[r] = to /\ \A h \in Goroutine \ {r} : place'[h] = place[h]
        /\ \A c \in Call : c # r /\ place'[c] \in CallPlaces
                           /\ (AtSubnet(c)' => "subnet" \in setup'.options)
    BY <1>16, <2>1, <2>2, <2>3
  <2>5. writer' \in Call => place'[writer'] \in {"creating", "subnetCreating"}
    BY <1>1, <1>2, <2>1, <2>4, Distinct DEF ModesOK
  <2>6. \A q \in Reader : IF q \in readers' THEN place'[q] = "loop" ELSE place'[q] = "idle"
    BY <1>1, <1>2, <2>2, <2>4 DEF ModesOK
  <2>7. place'[Cleaner] \in {"idle", "announced", "loop"} /\ (writer' = Cleaner => place'[Cleaner] # "idle")
    BY <1>1, <1>2, <2>1, <2>4, Distinct DEF ModesOK
  <2> QED BY <2>4, <2>5, <2>6, <2>7 DEF ModesOK
<1> QED
  BY <1>4, <1>5, <1>6, <1>7, <1>8, <1>9, <1>10, <1>11, <1>12, <1>13, <1>15, <1>17, <1>18
  DEF ThrottleNext, CallStep, ReaderStep, CleanerStep

LEMMA LoopsLeftStep ==
  ASSUME CycleInv, ThrottleNext
  PROVE  LoopsLeft'
<1>1. PlacesOK /\ LoopsLeft
  BY DEF CycleInv, IInv
<1>2. place \in [Goroutine -> Places] /\ Goroutine = Call \cup (Reader \cup {Cleaner})
      /\ left \in [Reader \cup {Cleaner} -> SUBSET Address]
  BY <1>1 DEF PlacesOK, Goroutine
<1>3. ASSUME NEW c \in Call, NEW to, place' = [place EXCEPT ![c] = to], left' = left PROVE LoopsLeft'
  <2>1. \A g \in Reader \cup {Cleaner} : g # c /\ place'[g] = place[g]
    BY <1>2, <1>3, Distinct
  <2> QED BY <1>1, <1>3, <2>1 DEF LoopsLeft
<1>4. ASSUME NEW c \in Call, CallStep(c) \/ \E a \in Address : Arrive(c, a) PROVE LoopsLeft'
  <2>1. left' = left
    <3>1. ASSUME NEW from, NEW to, Announce(c, from, to) PROVE left' = left
      BY <3>1 DEF Announce
    <3>2. ASSUME RecordFailure(c) \/ CreateStats(c) PROVE left' = left
      BY <3>2, RecordFailureMoves, CreateStatsMoves
    <3> QED BY <1>4, <3>1, <3>2 DEF CallStep, FindStats, RefusePunished, Refill, FindSubnet, CreateSubnet,
                                    Charge, Respond, Arrive
  <2>2. \E to : place' = [place EXCEPT ![c] = to]
    <3>1. ASSUME NEW from, NEW to, Announce(c, from, to) PROVE place' = [place EXCEPT ![c] = to]
      BY <3>1 DEF Announce, Move
    <3>2. ASSUME CreateStats(c) PROVE \E to : place' = [place EXCEPT ![c] = to]
      BY <3>2, CreateStatsMoves
    <3>3. ASSUME NEW new, Return(c, new) PROVE \E to : place' = [place EXCEPT ![c] = to]
      BY <3>3 DEF Return
    <3>4. ASSUME RecordFailure(c) \/ RefusePunished(c) \/ Charge(c)
          PROVE  \E to : place' = [place EXCEPT ![c] = to]
      BY <3>3, <3>4, RecordFailureMoves DEF RefusePunished, Charge
    <3>5. ASSUME NEW old, NEW new, Move(c, old, new) PROVE \E to : place' = [place EXCEPT ![c] = to]
      BY <3>5 DEF Move
    <3>6. ASSUME \/ FindStats(c) \/ Refill(c) \/ FindSubnet(c) \/ CreateSubnet(c) \/ Respond(c)
                 \/ \E a \in Address : Arrive(c, a)
          PROVE \E to : place' = [place EXCEPT ![c] = to]
      <4>1. \E from, to : Move(c, from, to)
        BY <3>6 DEF FindStats, Refill, FindSubnet, CreateSubnet, Respond, Arrive
      <4> QED BY <3>5, <4>1
    <3> QED BY <1>4, <3>1, <3>2, <3>4, <3>6 DEF CallStep
  <2> QED BY <1>3, <2>1, <2>2
<1>5. ASSUME UNCHANGED <<place, left>> PROVE LoopsLeft'
  BY <1>1, <1>5 DEF LoopsLeft
<1>6. ASSUME Minute \/ \E s \in Stats : scheduleUnblacklist(s) PROVE LoopsLeft'
  BY <1>5, <1>6 DEF Minute, scheduleUnblacklist
<1>7. ASSUME NEW g \in Reader \cup {Cleaner}, NEW to,
             \A h \in (Reader \cup {Cleaner}) \ {g} : place'[h] = place[h] /\ left'[h] = left[h],
             place'[g] = to, left'[g] # {} => to = "loop"
      PROVE  LoopsLeft'
  BY <1>1, <1>7 DEF LoopsLeft
<1>8. ASSUME NEW g \in Reader \cup {Cleaner}, NEW a \in Address, place[g] = "loop",
             left' = [left EXCEPT ![g] = @ \ {a}], place' = place
      PROVE  LoopsLeft'
  BY <1>2, <1>7, <1>8
<1>9. ASSUME NEW g \in Reader \cup {Cleaner}, NEW to, place' = [place EXCEPT ![g] = to], left' = left,
             left[g] = {} \/ place[g] # "loop"
      PROVE  LoopsLeft'
  <2>1. left[g] = {}
    BY <1>1, <1>9 DEF LoopsLeft
  <2>2. \A h \in (Reader \cup {Cleaner}) \ {g} : place'[h] = place[h] /\ left'[h] = left[h]
    BY <1>2, <1>9
  <2>3. place'[g] = to
    BY <1>2, <1>9
  <2> QED BY <1>7, <1>9, <2>1, <2>2, <2>3
<1>10. ASSUME NEW g \in Reader \cup {Cleaner}, place' = [place EXCEPT ![g] = "loop"],
              left' = [left EXCEPT ![g] = Known]
      PROVE  LoopsLeft'
  BY <1>2, <1>7, <1>10
<1>11. ASSUME NEW r \in Reader, StartReading(r) \/ ReaderStep(r) PROVE LoopsLeft'
  <2>1. CASE StartReading(r)
    BY <1>10, <2>1 DEF StartReading, Move
  <2>2. ASSUME NEW a \in Address, Read(r, a) PROVE LoopsLeft'
    BY <1>8, <2>2 DEF Read
  <2>3. CASE EndReading(r)
    BY <1>9, <2>3 DEF EndReading, Move
  <2> QED BY <1>11, <2>1, <2>2, <2>3 DEF ReaderStep
<1>12. ASSUME StartCleanup \/ CleanerStep PROVE LoopsLeft'
  <2>1. CASE StartCleanup
    BY <1>9, <2>1 DEF StartCleanup, Move
  <2>2. ASSUME NEW a \in Address, cleanup(a) PROVE LoopsLeft'
    BY <1>8, <2>2 DEF cleanup
  <2>3. CASE EnterCleanup
    BY <1>10, <2>3 DEF EnterCleanup, Move
  <2>4. CASE EndCleanup
    BY <1>9, <2>4 DEF EndCleanup, Move
  <2> QED BY <1>12, <2>1, <2>2, <2>3, <2>4 DEF CleanerStep
<1> QED BY <1>4, <1>6, <1>11, <1>12 DEF ThrottleNext

LEMMA CyclesInvariant == ThrottleSpec => []CycleInv
<1>1. ThrottleInit => OwnersHold /\ ModesOK /\ LoopsLeft
  <2> SUFFICES ASSUME ThrottleInit PROVE OwnersHold /\ ModesOK /\ LoopsLeft
    OBVIOUS
  <2>1. \A g \in Goroutine : place[g] = "idle"
    BY DEF ThrottleInit
  <2>2. writer = None /\ readers = {} /\ (\A s \in Stats : owner[s] = None)
        /\ \A g \in Reader \cup {Cleaner} : left[g] = {}
    BY DEF ThrottleInit
  <2> QED BY <2>1, <2>2, Distinct DEF OwnersHold, ModesOK, LoopsLeft, CallPlaces, AtSubnet, Goroutine
<1>2. CycleInv /\ [ThrottleNext]_throttleVars => (OwnersHold /\ ModesOK /\ LoopsLeft)'
  <2> SUFFICES ASSUME CycleInv, [ThrottleNext]_throttleVars PROVE (OwnersHold /\ ModesOK /\ LoopsLeft)'
    OBVIOUS
  <2>1. CASE ThrottleNext
    BY <2>1, OwnersHoldStep, ModesStep, LoopsLeftStep
  <2>2. CASE UNCHANGED throttleVars
    BY <2>2 DEF throttleVars, CycleInv, OwnersHold, ModesOK, LoopsLeft, AtSubnet
  <2> QED BY <2>1, <2>2
<1> QED BY <1>1, <1>2, ThrottleInvariant, PTL DEF ThrottleSpec, CycleInv

-----------------------------------------------------------------------------
(* Who is in whose way.  A loop waits for a call that holds the statistics *)
(* of an address it has still to visit, such a call for the writer, and a  *)
(* writer for the readers, if it is not the cleanup in its loop.           *)
LEMMA LoopWaitsForHolder ==
  ASSUME CycleInv, ~SomebodyCanGo, NEW g \in Reader \cup {Cleaner}, place[g] = "loop"
  PROVE  \E a \in left[g], c \in Call : AtSubnet(c) /\ ipStats[a] = found[c]
<1>1. PlacesOK /\ LoopOK /\ OwnersHold
  BY DEF CycleInv, IInv
<1>2. left[g] # {} /\ \A a \in left[g] : owner[ipStats[a]] # None
  BY DEF SomebodyCanGo, LoopCanGo
<1>3. PICK a \in left[g] : owner[ipStats[a]] # None
  BY <1>2
<1>4. ipStats[a] \in Stats /\ owner[ipStats[a]] \in Call
  BY <1>1, <1>3 DEF LoopOK, PlacesOK
<1>5. PICK c \in Call : c = owner[ipStats[a]]
  BY <1>4
<1>6. place[c] \in Holding /\ found[c] = ipStats[a]
  BY <1>1, <1>3, <1>4, <1>5 DEF OwnersHold
<1>7. place[c] # "charge"
  BY DEF SomebodyCanGo, CallCanGo
<1> QED BY <1>6, <1>7 DEF Holding, AtSubnet

LEMMA HolderWaitsForWriter ==
  ASSUME CycleInv, ~SomebodyCanGo, NEW c \in Call, AtSubnet(c)
  PROVE  writer # None
<1>1. LockOK
  BY DEF CycleInv, IInv
<1>2. place[c] = "subnetCreating" => writer = c
  BY <1>1 DEF LockOK
<1>3. place[c] \in {"subnet", "subnetCreate"} => writer # None
  BY DEF SomebodyCanGo, CallCanGo
<1> QED BY <1>2, <1>3, Distinct DEF AtSubnet

LEMMA ReadersCycle ==
  ASSUME CycleInv, ~SomebodyCanGo, readers # {}
  PROVE  LockCycle
<1>1. PlacesOK /\ ModesOK
  BY DEF CycleInv, IInv
<1>2. PICK r \in readers : r \in Reader /\ place[r] = "loop"
  BY <1>1 DEF PlacesOK, ModesOK
<1>3. PICK a \in left[r], c \in Call : AtSubnet(c) /\ ipStats[a] = found[c]
  BY <1>2, LoopWaitsForHolder
<1>4. a \in Address
  BY <1>1, <1>2 DEF PlacesOK
<1>5. writer # None
  BY <1>3, HolderWaitsForWriter
<1> QED BY <1>2, <1>3, <1>4, <1>5 DEF LockCycle, AtSubnet

LEMMA WriterCycle ==
  ASSUME CycleInv, ~SomebodyCanGo, readers = {}, writer # None
  PROVE  LockCycle
<1>1. PlacesOK /\ ModesOK
  BY DEF CycleInv, IInv
<1>2. writer \notin Call
  BY <1>1 DEF ModesOK, SomebodyCanGo, CallCanGo
<1>3. writer = Cleaner /\ place[Cleaner] \in {"announced", "loop"}
  BY <1>1, <1>2 DEF PlacesOK, ModesOK
<1>4. place[Cleaner] = "loop"
  BY <1>3 DEF SomebodyCanGo
<1>5. PICK a \in left[Cleaner], c \in Call : AtSubnet(c) /\ ipStats[a] = found[c]
  BY <1>4, LoopWaitsForHolder
<1>6. a \in Address
  BY <1>1 DEF PlacesOK
<1> QED BY <1>3, <1>5, <1>6 DEF LockCycle, AtSubnet

LEMMA FreeLocksGoOn ==
  ASSUME CycleInv, ~SomebodyCanGo, readers = {}, writer = None, NEW g \in Goroutine
  PROVE  place[g] = "idle"
<1>1. PlacesOK /\ ModesOK /\ LockOK /\ HoldsOK /\ OwnersHold
  BY DEF CycleInv, IInv
<1>2. CASE g \in Reader
  BY <1>1, <1>2 DEF ModesOK
<1>3. CASE g = Cleaner
  BY <1>1, <1>3, Distinct DEF ModesOK, LockOK
<1>4. CASE g \in Call
  <2>1. place[g] \notin {"find", "create", "subnet", "subnetCreate", "charge", "handler",
                         "creating", "subnetCreating"}
    BY <1>4 DEF SomebodyCanGo, CallCanGo
  <2>2. place[g] # "lock"
    <3>1. SUFFICES ASSUME place[g] = "lock" PROVE FALSE
      OBVIOUS
    <3>2. found[g] \in Stats
      BY <1>1, <1>4, <3>1 DEF HoldsOK
    <3>3. owner[found[g]] # None
      BY <1>4, <3>1 DEF SomebodyCanGo, CallCanGo
    <3>4. PICK c \in Call : c = owner[found[g]]
      BY <1>1, <3>2, <3>3 DEF PlacesOK
    <3>5. place[c] \in Holding
      BY <1>1, <3>2, <3>3, <3>4 DEF OwnersHold
    <3>6. place[c] # "charge"
      BY DEF SomebodyCanGo, CallCanGo
    <3>7. AtSubnet(c)
      BY <3>5, <3>6 DEF AtSubnet, Holding
    <3> QED BY <3>7, HolderWaitsForWriter
  <2>3. place[g] \in CallPlaces
    BY <1>1, <1>4 DEF ModesOK
  <2> QED BY <2>1, <2>2, <2>3 DEF CallPlaces, Holding
<1> QED BY <1>2, <1>3, <1>4 DEF Goroutine

(* Nothing but the two lock cycles keeps a request, a reader or the cleanup *)
(* from returning, for any number of them: if all that are under way wait, *)
(* for stats.mu or t.mu, one of the cycles is closed.  What a goroutine    *)
(* waits for is said by its place; that its step is enabled then is left   *)
(* to model checking.                                                      *)
THEOREM SomebodyGoesOn == ThrottleSpec => []GoesOn
<1>1. CycleInv => GoesOn
  BY ReadersCycle, WriterCycle, FreeLocksGoOn DEF GoesOn
<1> QED BY <1>1, CyclesInvariant, PTL

(* The cycles need the limit of a subnet, for which Allow takes t.mu while *)
(* it holds stats.mu: without it nobody waits for ever.                    *)
CyclesNeedSubnets == "subnet" \notin setup.options => ~LockCycle

THEOREM SubnetsCycle == ThrottleSpec => []CyclesNeedSubnets
<1>1. CycleInv => CyclesNeedSubnets
  BY DEF CycleInv, ModesOK, AtSubnet, LockCycle, CyclesNeedSubnets
<1> QED BY <1>1, CyclesInvariant, PTL

(* Whom a cycle keeps, it keeps: c at its subnet's lock, with the          *)
(* statistics of a, and the loop of g that has a still to visit.           *)
Caught(c, a, g) ==
  /\ AtSubnet(c) /\ ipStats[a] = found[c] /\ a \in left[g] /\ writer # None
  /\ \/ g = Cleaner /\ writer = Cleaner
     \/ g \in readers

LEMMA CycleKeeps ==
  ASSUME CycleInv, LockCycle
  PROVE  \E c \in Call, a \in Address, g \in Reader \cup {Cleaner} : Caught(c, a, g)
<1>1. PICK c \in Call, a \in Address :
           /\ AtSubnet(c) /\ ipStats[a] = found[c]
           /\ \/ writer = Cleaner /\ a \in left[Cleaner]
              \/ writer # None /\ \E r \in readers : a \in left[r]
  BY DEF LockCycle, AtSubnet
<1>2. readers \subseteq Reader
  BY DEF CycleInv, IInv, PlacesOK
<1> QED BY <1>1, <1>2, Distinct DEF Caught

LEMMA CaughtCycles ==
  ASSUME NEW c \in Call, NEW a \in Address, NEW g \in Reader \cup {Cleaner}, Caught(c, a, g)
  PROVE  LockCycle
  BY DEF Caught, LockCycle, AtSubnet

LEMMA CaughtStays ==
  ASSUME CycleInv, ThrottleNext,
         NEW c \in Call, NEW a \in Address, NEW g \in Reader \cup {Cleaner}, Caught(c, a, g)
  PROVE  Caught(c, a, g)'
<1>1. MapsOK /\ HoldsOK /\ PlacesOK /\ LockOK /\ LoopsLeft
  BY DEF CycleInv, IInv
<1>2. /\ place[c] \in Holding /\ place[c] # "charge" /\ owner[ipStats[a]] = c /\ c # None
      /\ place[g] = "loop" /\ writer # None
      /\ (g = Cleaner /\ writer = Cleaner) \/ (g # Cleaner /\ g \in readers)
  BY <1>1, Distinct DEF Caught, AtSubnet, Holding, HoldsOK, LoopsLeft, PlacesOK
<1>3. ASSUME readers = {} PROVE g = Cleaner /\ writer = Cleaner /\ place[Cleaner] = "loop"
  BY <1>2, <1>3
<1>4. ASSUME UNCHANGED <<writer, readers>>, place'[c] = place[c], found'[c] = found[c],
             ipStats'[a] = ipStats[a], a \in left'[g]
      PROVE  Caught(c, a, g)'
  BY <1>4 DEF Caught, AtSubnet
<1>5. ASSUME NEW d \in Call, CallStep(d) \/ \E b \in Address : Arrive(d, b) PROVE Caught(c, a, g)'
  <2>1. ~(\E from, to : Announce(d, from, to)) /\ ~FindSubnet(d) /\ ~FindStats(d)
    BY <1>2 DEF Announce, FindSubnet, FindStats
  <2>2. ~CreateSubnet(d) /\ ~CreateStats(d)
    <3>1. SUFFICES ASSUME readers = {}, place[d] \in {"creating", "subnetCreating"} PROVE FALSE
      BY CreateStatsMoves DEF CreateSubnet, Move
    <3>2. writer = d
      BY <1>1, <3>1 DEF LockOK
    <3> QED BY <1>3, <3>1, <3>2, Distinct
  <2>3. \/ RefusePunished(d) \/ Refill(d) \/ Charge(d) \/ Respond(d) \/ RecordFailure(d)
        \/ \E b \in Address : Arrive(d, b)
    BY <1>5, <2>1, <2>2 DEF CallStep
  <2>4. UNCHANGED <<writer, readers, ipStats, left>>
    BY <2>3, RecordFailureMoves DEF RefusePunished, Refill, Charge, Respond, Arrive, locks
  <2>5. d # c
    BY <1>2, <2>3, RecordFailureMoves
    DEF RefusePunished, Refill, Charge, Respond, Arrive, Move, Holding
  <2>6. (\E to : place' = [place EXCEPT ![d] = to]) /\ (found' = found \/ found' = [found EXCEPT ![d] = None])
    <3>1. CASE RefusePunished(d) \/ Charge(d) \/ RecordFailure(d)
      BY <3>1, RecordFailureMoves DEF RefusePunished, Charge, Return
    <3>2. CASE Refill(d) \/ Respond(d) \/ \E b \in Address : Arrive(d, b)
      BY <3>2 DEF Refill, Respond, Arrive, Move, callVars
    <3> QED BY <2>3, <3>1, <3>2
  <2>7. place'[c] = place[c] /\ found'[c] = found[c]
    BY <1>1, <2>5, <2>6 DEF PlacesOK, Goroutine
  <2> QED BY <1>4, <2>4, <2>7 DEF Caught
<1>6. ASSUME NEW r \in Reader, StartReading(r) \/ EndReading(r) \/ \E b \in Address : Read(r, b)
      PROVE  Caught(c, a, g)'
  <2>1. ~StartReading(r)
    BY <1>2 DEF StartReading
  <2>2. UNCHANGED <<writer, ipStats, found>> /\ place'[c] = place[c]
    BY <1>1, <1>6, <2>1, Distinct DEF EndReading, Read, Move, PlacesOK, Goroutine, locks, callVars
  <2>3. CASE EndReading(r)
    <3>1. r # g /\ readers' = readers \ {r} /\ left' = left
      BY <2>3 DEF EndReading, Caught
    <3> QED BY <1>2, <2>2, <3>1 DEF Caught, AtSubnet
  <2>4. ASSUME NEW b \in Address, Read(r, b) PROVE Caught(c, a, g)'
    <3>1. (r # g \/ b # a) /\ left' = [left EXCEPT ![r] = @ \ {b}] /\ readers' = readers
      BY <1>2, <2>4 DEF Read, locks
    <3>2. a \in left'[g]
      BY <1>1, <3>1 DEF PlacesOK, Caught
    <3> QED BY <1>4, <2>2, <3>1, <3>2
  <2> QED BY <1>6, <2>1, <2>3, <2>4
<1>7. ASSUME StartCleanup \/ CleanerStep PROVE Caught(c, a, g)'
  <2>1. ~StartCleanup /\ ~EnterCleanup
    BY <1>2, <1>3 DEF StartCleanup, EnterCleanup, Move
  <2>2. place[Cleaner] = "loop" /\ g = Cleaner
    BY <1>1, <1>2, <1>3, <1>7, <2>1 DEF CleanerStep, cleanup, EndCleanup, Move, LockOK
  <2>3. ~EndCleanup
    BY <2>2 DEF EndCleanup, Caught
  <2>4. PICK b \in Address : cleanup(b)
    BY <1>7, <2>1, <2>3 DEF CleanerStep
  <2>5. b # a /\ UNCHANGED <<writer, readers, place, found>> /\ left' = [left EXCEPT ![Cleaner] = @ \ {b}]
    BY <1>2, <2>4 DEF cleanup, locks, callVars
  <2>6. ipStats'[a] = ipStats[a]
    BY <1>1, <2>4, <2>5 DEF cleanup, MapsOK
  <2>7. a \in left'[g]
    BY <1>1, <2>2, <2>5 DEF PlacesOK, Caught
  <2> QED BY <1>4, <2>5, <2>6, <2>7
<1>8. ASSUME Minute \/ \E s \in Stats : scheduleUnblacklist(s) PROVE Caught(c, a, g)'
  BY <1>8 DEF Minute, scheduleUnblacklist, locks, callVars, Caught, AtSubnet
<1> QED BY <1>5, <1>6, <1>7, <1>8 DEF ThrottleNext, ReaderStep

(* A cycle that is closed stays closed: a request and a loop wait for one  *)
(* another for good, and with them whoever comes to need either lock.      *)
CyclesLast == [][LockCycle => LockCycle']_throttleVars

THEOREM CyclesAreForGood == ThrottleSpec => CyclesLast
<1>1. CycleInv /\ [ThrottleNext]_throttleVars => [LockCycle => LockCycle']_throttleVars
  <2> SUFFICES ASSUME CycleInv, ThrottleNext, LockCycle PROVE LockCycle'
    OBVIOUS
  <2>1. PICK c \in Call, a \in Address, g \in Reader \cup {Cleaner} : Caught(c, a, g)
    BY CycleKeeps
  <2>2. Caught(c, a, g)'
    BY <2>1, CaughtStays
  <2>3. (\E b \in Call, e \in Address, h \in Reader \cup {Cleaner} : Caught(b, e, h)) => LockCycle
    BY CaughtCycles
  <2> QED BY <2>2, <2>3, CaughtCycles DEF Caught, LockCycle, AtSubnet
<1> QED BY <1>1, CyclesInvariant, PTL DEF ThrottleSpec, CyclesLast
====
