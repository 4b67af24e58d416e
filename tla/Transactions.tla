---------------------------- MODULE Transactions ----------------------------
(***************************************************************************)
(* QueryBuilder.Transaction of database/query_builder.go over a pool with  *)
(* a limited number of connections, and the HealthChecker of               *)
(* database/health.go that looks at it.  The builder that the function is  *)
(* given can begin a transaction too: it is one of its own, on a second    *)
(* connection, inside the first in time only.                              *)
(***************************************************************************)
EXTENDS Naturals, FiniteSets

CONSTANTS
  TxCaller,  \* goroutines that run one transaction each
  MaxConns   \* SetMaxOpenConns

ASSUME TransactionAssumption == IsFiniteSet(TxCaller) /\ MaxConns \in Nat \ {0}

VARIABLES
  tx,       \* where each caller is, and how many transactions it is in
  result,   \* what its transactions returned, the outer one being number 1
  wrote,    \* those that wrote
  durable,  \* those whose writes the database keeps
  free,     \* connections that are not in use
  open,     \* connections that were opened
  health    \* what the last health check said

txVars == <<tx, result, wrote, durable, free, open, health>>

Level == TxCaller \X {1, 2}

TxTypeOK ==
  /\ tx \in [TxCaller -> [at : {"idle", "begin", "run", "done"}, depth : 0..2]]
  /\ result \in [Level -> {"none", "ok", "error", "unknown", "panic"}]
  /\ wrote \subseteq Level /\ durable \subseteq wrote
  /\ free \in 0..MaxConns /\ open \in 0..MaxConns
  /\ health \in {"none", "healthy", "degraded", "unhealthy"}

TxInit ==
  /\ tx = [c \in TxCaller |-> [at |-> "idle", depth |-> 0]]
  /\ result = [l \in Level |-> "none"]
  /\ wrote = {} /\ durable = {} /\ free = MaxConns /\ open = 0
  /\ health = "none"

Become(c, at, depth) == tx' = [tx EXCEPT ![c] = [at |-> at, depth |-> depth]]
Took == MaxConns - free + 1

(* Transaction is called, by the function of the outer one the second time. *)
Begin(c) ==
  /\ \/ tx[c].at = "idle"
     \/ tx[c].at = "run" /\ tx[c].depth = 1 /\ result[<<c, 2>>] = "none"
  /\ Become(c, "begin", tx[c].depth)
  /\ UNCHANGED <<result, wrote, durable, free, open, health>>

Begun(c) ==
  /\ tx[c].at = "begin" /\ free > 0
  /\ Become(c, "run", tx[c].depth + 1)
  /\ free' = free - 1 /\ open' = IF Took > open THEN Took ELSE open
  /\ UNCHANGED <<result, wrote, durable, health>>

(* The caller of a transaction that is over: it is done, or back in the    *)
(* function of the outer one.                                              *)
EndTx(c, level, r) ==
  /\ Become(c, IF level = 1 THEN "done" ELSE "run", level - 1)
  /\ result' = [result EXCEPT ![<<c, level>>] = r]

BeginFails(c) ==
  /\ tx[c].at = "begin" /\ EndTx(c, tx[c].depth + 1, "error")
  /\ UNCHANGED <<wrote, durable, free, open, health>>

WriteInTx(c) ==
  /\ tx[c].at = "run" /\ wrote' = wrote \cup {<<c, tx[c].depth>>}
  /\ UNCHANGED <<tx, result, durable, free, open, health>>

Own(c) == {<<c, tx[c].depth>>} \cap wrote

(* The function returned nil.  After an error of Commit nobody knows.      *)
Commit(c) ==
  /\ tx[c].at = "run"
  /\ \/ EndTx(c, tx[c].depth, "ok") /\ durable' = durable \cup Own(c)
     \/ EndTx(c, tx[c].depth, "unknown") /\ durable' \in {durable, durable \cup Own(c)}
  /\ free' = free + 1
  /\ UNCHANGED <<wrote, open, health>>

(* Mutant: the error is returned and the transaction left open.            *)
RollbackForgotten(c) ==
  /\ tx[c].at = "run" /\ EndTx(c, tx[c].depth, "error")
  /\ UNCHANGED <<wrote, durable, free, open, health>>

(* The function returned an error.                                         *)
Rollback(c) ==
  /\ tx[c].at = "run" /\ EndTx(c, tx[c].depth, "error")
  /\ free' = free + 1
  /\ UNCHANGED <<wrote, durable, open, health>>

(* A panic of the function passes both, and neither transaction is ended:  *)
(* their connections stay in use.                                          *)
Panic(c) ==
  /\ tx[c].at = "run" /\ Become(c, "done", 0)
  /\ result' = [l \in Level |-> IF l[1] = c /\ l[2] <= tx[c].depth THEN "panic"
                                ELSE result[l]]
  /\ UNCHANGED <<wrote, durable, free, open, health>>

(* Check asks for a connection for the ping and for a query, each of which *)
(* fails when it gets none within the timeout or the database does not     *)
(* answer, and counts in between those that were opened, idle ones too.    *)
(* The last check, for the version, never fails.                           *)
CheckHealth ==
  LET grown == IF free > 0 /\ Took > open THEN Took ELSE open
      after(success) == IF success THEN grown ELSE open
  IN  /\ \E ping, query \in BOOLEAN :
           /\ ping \/ query => free > 0
           /\ open' = after(ping \/ query)
           /\ health' = IF ~ping \/ ~query THEN "unhealthy"
                        ELSE IF after(ping) >= MaxConns THEN "degraded" ELSE "healthy"
      /\ UNCHANGED <<tx, result, wrote, durable, free>>

TxNext ==
  \/ \E c \in TxCaller :
       \/ Begin(c) \/ Begun(c) \/ BeginFails(c) \/ WriteInTx(c)
       \/ Commit(c) \/ Rollback(c) \/ Panic(c)
  \/ CheckHealth

TxSpec == TxInit /\ [][TxNext]_txVars
-----------------------------------------------------------------------------
(* The transactions that hold a connection: those that callers are in, and *)
(* those that a panic left.                                                *)
InUse == {l \in Level : l[2] <= tx[l[1]].depth \/ result[l] = "panic"}

(* What Transaction returns is what happened: nil and the writes are       *)
(* there, an error or nothing yet and they are not, also for a transaction *)
(* within another one, which is settled apart.  Every connection is given  *)
(* back, unless the function panicked.                                     *)
TransactionSettles ==
  /\ \A l \in Level :
       /\ result[l] = "ok" => (l \in wrote => l \in durable)
       /\ result[l] \in {"none", "error", "panic"} => l \notin durable
  /\ free = MaxConns - Cardinality(InUse)
=============================================================================
