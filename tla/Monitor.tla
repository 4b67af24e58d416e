------------------------------- MODULE Monitor -------------------------------
(***************************************************************************)
(* security/monitor.go: addresses are blocked for a while after too many   *)
(* suspicious events.  RecordEvent and the cleanup hold the lock of the    *)
(* monitor; IsIPBlocked and GetSecurityStats hold it for reading, and      *)
(* IsIPBlocked deletes an expired block all the same.                      *)
(***************************************************************************)
EXTENDS Naturals, Sequences, FiniteSets, SequencesExt

CONSTANTS
  Client,          \* the addresses of the events, up to the first blank
  Visitor,         \* requests in the middleware, and callers of the statistics
  alertThreshold,
  blockDuration,
  MaxClock,        \* bound on the clock
  MaxSuspicious    \* bound on the suspicious events of an address

ASSUME MonitorAssumption ==
  /\ {alertThreshold, blockDuration, MaxClock, MaxSuspicious} \subseteq Nat
  /\ "outside" \notin Client /\ "reading" \notin Client

VARIABLES
  clock,
  suspiciousIPs, \* the counts, 0 for an address that is not there
  blockedIPs,    \* the time of each block
  inside,        \* what each visitor that holds the lock for reading does:
                 \* it reads, or deletes the block of an address
  fatal,         \* the runtime ended the process: maps used concurrently
  suspected      \* history: the times of the suspicious events of an address

monitorVars == <<clock, suspiciousIPs, blockedIPs, inside, fatal, suspected>>

MonitorTypeOK ==
  /\ clock \in 0..MaxClock /\ fatal \in BOOLEAN
  /\ suspiciousIPs \in [Client -> 0..MaxSuspicious]
  /\ DOMAIN blockedIPs \subseteq Client /\ Range(blockedIPs) \subseteq 0..clock
  /\ inside \in [Visitor -> {"outside", "reading"} \cup Client]
  /\ suspected \in [Client -> Seq(0..clock)]

MonitorInit ==
  /\ clock = 0 /\ fatal = FALSE
  /\ suspiciousIPs = [c \in Client |-> 0] /\ blockedIPs = <<>>
  /\ inside = [v \in Visitor |-> "outside"] /\ suspected = [c \in Client |-> <<>>]

Unlocked == \A v \in Visitor : inside[v] = "outside"

blockIP(c) == [d \in DOMAIN blockedIPs \cup {c} |-> IF d = c THEN clock ELSE blockedIPs[d]]

(* Mutant: the block runs from the first event that made it.               *)
RecordEventOnce(c) ==
  /\ Unlocked /\ Len(suspected[c]) < MaxSuspicious
  /\ suspiciousIPs' = [suspiciousIPs EXCEPT ![c] = @ + 1]
  /\ suspected' = [suspected EXCEPT ![c] = Append(@, clock)]
  /\ blockedIPs' = IF suspiciousIPs'[c] = alertThreshold THEN blockIP(c) ELSE blockedIPs
  /\ UNCHANGED <<clock, inside, fatal>>

(* A suspicious event; the others are recorded and change nothing here.    *)
(* Each event of an address that has reached the threshold renews its      *)
(* block.                                                                  *)
RecordEvent(c) ==
  /\ Unlocked /\ Len(suspected[c]) < MaxSuspicious
  /\ suspiciousIPs' = [suspiciousIPs EXCEPT ![c] = @ + 1]
  /\ suspected' = [suspected EXCEPT ![c] = Append(@, clock)]
  /\ blockedIPs' = IF suspiciousIPs'[c] >= alertThreshold THEN blockIP(c) ELSE blockedIPs
  /\ UNCHANGED <<clock, inside, fatal>>

Expired(c) == c \in DOMAIN blockedIPs /\ clock - blockedIPs[c] > blockDuration
Forgiven(cs) ==
  /\ blockedIPs' = Restrict(blockedIPs, DOMAIN blockedIPs \ cs)
  /\ suspiciousIPs' = [c \in Client |-> IF c \in cs THEN 0 ELSE suspiciousIPs[c]]

(* IsIPBlocked begins, or GetSecurityStats.                                *)
Look(v, does) ==
  /\ inside[v] = "outside" /\ inside' = [inside EXCEPT ![v] = does]
  /\ UNCHANGED <<clock, suspiciousIPs, blockedIPs, fatal, suspected>>

ReadBlock(v) == Look(v, "reading")
FindExpired(v) == \E c \in Client : Expired(c) /\ Look(v, c)

(* A deletion while anybody else is inside may end the process.            *)
IsIPBlocked(v) ==
  /\ inside[v] # "outside" /\ inside' = [inside EXCEPT ![v] = "outside"]
  /\ Forgiven({inside[v]} \cap Client)
  /\ \/ UNCHANGED fatal
     \/ /\ inside[v] \in Client /\ \E w \in Visitor \ {v} : inside[w] # "outside"
        /\ fatal' = TRUE
  /\ UNCHANGED <<clock, suspected>>

CleanUpMonitor ==
  /\ Unlocked /\ Forgiven({c \in Client : Expired(c)})
  /\ UNCHANGED <<clock, inside, fatal, suspected>>

MonitorTick ==
  /\ clock < MaxClock /\ clock' = clock + 1
  /\ UNCHANGED <<suspiciousIPs, blockedIPs, inside, fatal, suspected>>

MonitorNext ==
  /\ ~fatal
  /\ \/ \E c \in Client : RecordEvent(c)
     \/ \E v \in Visitor : ReadBlock(v) \/ FindExpired(v) \/ IsIPBlocked(v)
     \/ CleanUpMonitor \/ MonitorTick

MonitorSpec == MonitorInit /\ [][MonitorNext]_monitorVars
-----------------------------------------------------------------------------
Blocked(c) == c \in DOMAIN blockedIPs /\ ~Expired(c)

(* Those of its suspicious events that are no older than a block may be.   *)
Within(c) == {i \in DOMAIN suspected[c] : clock - suspected[c][i] <= blockDuration}

(* Whoever looks, and whenever the cleanup comes: an address is blocked if *)
(* it had as many suspicious events as the threshold within the duration   *)
(* of a block, and only if it had as many ever, the last of them within    *)
(* that duration.                                                          *)
BlockDeserved ==
  \A c \in Client :
    /\ Cardinality(Within(c)) >= alertThreshold /\ alertThreshold > 0 => Blocked(c)
    /\ Blocked(c) => Within(c) # {} /\ Len(suspected[c]) >= alertThreshold
=============================================================================
