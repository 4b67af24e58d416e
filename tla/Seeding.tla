------------------------------- MODULE Seeding -------------------------------
(***************************************************************************)
(* Runs of the seeders of database/seeder.go against one database: one     *)
(* seeder by name or all of them, each of which empties its table and      *)
(* inserts its rows one by one, in no transaction.  A run that fails, or   *)
(* whose process is killed, is followed by the next one; two deployments   *)
(* may also seed at once.                                                  *)
(*                                                                         *)
(* A record of a factory is the set of its columns.  BulkInsert takes the  *)
(* columns of the first record for all.                                    *)
(***************************************************************************)
EXTENDS Naturals, Sequences, SequencesExt

CONSTANTS
  SeedRun,   \* the runs
  Records    \* for each registered seeder, the records it inserts

ASSUME SeedingAssumption ==
  \A s \in DOMAIN Records : /\ Len(Records[s]) \in Nat \ {0}
                            /\ DOMAIN Records[s] = 1..Len(Records[s])

VARIABLES
  seed,      \* where each run is, what it was asked for and has still to do
  tables,    \* the rows in each seeder's table
  lastSeed,  \* the runs that started, in order
  mixed      \* the runs that overlapped another one

seedVars == <<seed, tables, lastSeed, mixed>>

Seeder == DOMAIN Records
Running == {r \in SeedRun : seed[r].at \in {"next", "truncate", "insert"}}

(* Rows are records cut to the columns of the first one.                   *)
Rows(s) == {Records[s][i] \cap Records[s][1] : i \in DOMAIN Records[s]}

SeedTypeOK ==
  /\ \A r \in SeedRun :
       /\ seed[r].at \in {"idle", "next", "truncate", "insert", "ok", "error", "killed"}
       /\ seed[r].todo \subseteq seed[r].asked /\ seed[r].asked \subseteq Seeder
  /\ \A s \in Seeder : Range(tables[s]) \subseteq Rows(s)
  /\ Range(lastSeed) \subseteq SeedRun /\ mixed \subseteq SeedRun

SeedInit ==
  /\ seed = [r \in SeedRun |-> [at |-> "idle", asked |-> {}, todo |-> {},
                                current |-> CHOOSE s \in Seeder : TRUE, done |-> 0]]
  /\ tables = [s \in Seeder |-> <<>>] /\ lastSeed = <<>> /\ mixed = {}

(* RunAll, or Run of one seeder; Run of a name nobody registered fails.    *)
StartSeeding(r) ==
  /\ seed[r].at = "idle"
  /\ \/ \E asked \in {Seeder} \cup {{s} : s \in Seeder} :
          seed' = [seed EXCEPT ![r].at = "next", ![r].asked = asked, ![r].todo = asked]
     \/ seed' = [seed EXCEPT ![r].at = "error"]
  /\ lastSeed' = Append(lastSeed, r)
  /\ mixed' = IF Running = {} THEN mixed ELSE mixed \cup Running \cup {r}
  /\ UNCHANGED tables

(* The order of RunAll is that of a map.                                   *)
NextSeeder(r) ==
  /\ seed[r].at = "next"
  /\ IF seed[r].todo = {} THEN seed' = [seed EXCEPT ![r].at = "ok"]
     ELSE \E s \in seed[r].todo :
            seed' = [seed EXCEPT ![r].at = "truncate", ![r].current = s,
                                 ![r].todo = @ \ {s}]
  /\ UNCHANGED <<tables, lastSeed, mixed>>

(* Mutant: the table is not emptied.                                       *)
TruncateNothing(r) ==
  /\ seed[r].at = "truncate"
  /\ \/ seed' = [seed EXCEPT ![r].at = "insert", ![r].done = 0]
     \/ seed' = [seed EXCEPT ![r].at = "error"]
  /\ UNCHANGED <<tables, lastSeed, mixed>>

TruncateTable(r) ==
  /\ seed[r].at = "truncate"
  /\ \/ /\ tables' = [tables EXCEPT ![seed[r].current] = <<>>]
        /\ seed' = [seed EXCEPT ![r].at = "insert", ![r].done = 0]
     \/ seed' = [seed EXCEPT ![r].at = "error"] /\ UNCHANGED tables
  /\ UNCHANGED <<lastSeed, mixed>>

(* One row of BulkInsert, or its end.  The placeholders of a first record  *)
(* without columns cannot be made, which panics.                           *)
BulkInsert(r) ==
  LET s == seed[r].current
      n == seed[r].done + 1
      row == Records[s][n] \cap Records[s][1]
  IN  /\ seed[r].at = "insert"
      /\ IF Records[s][1] = {}
         THEN seed' = [seed EXCEPT ![r].at = "killed"] /\ UNCHANGED tables
         ELSE IF n > Len(Records[s])
         THEN seed' = [seed EXCEPT ![r].at = "next"] /\ UNCHANGED tables
         ELSE \/ /\ tables' = [tables EXCEPT ![s] = Append(@, row)]
                 /\ seed' = [seed EXCEPT ![r].done = n]
              \/ seed' = [seed EXCEPT ![r].at = "error"] /\ UNCHANGED tables
      /\ UNCHANGED <<lastSeed, mixed>>

KillSeeding(r) ==
  /\ r \in Running /\ seed' = [seed EXCEPT ![r].at = "killed"]
  /\ UNCHANGED <<tables, lastSeed, mixed>>

SeedNext ==
  \E r \in SeedRun :
    \/ StartSeeding(r) \/ NextSeeder(r) \/ TruncateTable(r) \/ BulkInsert(r)
    \/ KillSeeding(r)

SeedSpec == SeedInit /\ [][SeedNext]_seedVars
-----------------------------------------------------------------------------
(* Seeding again repairs what a run left that failed or was killed: after  *)
(* a run that reports success every table it was asked for has each of its *)
(* records once, unless another run overlapped it or came after it.        *)
SeedComplete ==
  \A r \in SeedRun :
    seed[r].at = "ok" /\ r = Last(lastSeed) /\ r \notin mixed =>
      \A s \in seed[r].asked :
        tables[s] = [i \in DOMAIN Records[s] |-> Records[s][i] \cap Records[s][1]]
=============================================================================
