------------------------------ MODULE Chunking ------------------------------
(***************************************************************************)
(* Chunk and ChunkByID of database/query_builder.go over a table that the  *)
(* callback, or somebody else, deletes from and inserts into meanwhile.    *)
(* Rows are their places in the order that is asked for, which is total if *)
(* no two rows tie in it.  Each chunk is queried twice: for whether there  *)
(* are any rows, and for the callback.  A result whose reading fails looks *)
(* like one that is at its end: rows.Next() is false, and nobody asks      *)
(* rows.Err() for the reason.                                              *)
(***************************************************************************)
EXTENDS Naturals, FiniteSets

CONSTANTS
  Row,        \* all rows there may be, by their place from 1
  ChunkSize,
  MaxChanges, \* bound on the changes of the table by others
  MaxVisits   \* bound on the visits of one row that are counted

ASSUME ChunkAssumption ==
  /\ Row \subseteq Nat \ {0} /\ IsFiniteSet(Row)
  /\ ChunkSize \in Nat \ {0} /\ MaxChanges \in Nat /\ MaxVisits \in Nat \ {0}

VARIABLES
  method,  \* "Chunk" or "ChunkByID"
  builder, \* the rows that the conditions of the builder select, whether they
           \* are asked for in a total order, and whether it has an error
  rows,    \* the rows in the table
  chunk,   \* where the loop is, and its offset
  page,    \* what the callback is given
  visits,  \* how often each row was given to the callback
  changes, \* changes of the table, by the callback or by others
  broken   \* history: the reading of a result has failed before its end

chunkVars == <<method, builder, rows, chunk, page, visits, changes, broken>>

ChunkTypeOK ==
  /\ method \in {"Chunk", "ChunkByID"}
  /\ builder \in [selects : SUBSET Row, total : BOOLEAN, err : BOOLEAN]
  /\ rows \subseteq Row /\ page \subseteq Row
  /\ chunk \in [at : {"peek", "fetch", "call", "done", "stopped", "failed"},
                offset : 0..Cardinality(Row) + ChunkSize]
  /\ visits \in [Row -> 0..MaxVisits] /\ changes \in 0..MaxChanges + 1
  /\ broken \in BOOLEAN

(* A builder with an error has lost the condition that was not valid.      *)
ChunkInit ==
  /\ method \in {"Chunk", "ChunkByID"}
  /\ builder \in [selects : {Row, Row \ {1}}, total : BOOLEAN, err : BOOLEAN]
  /\ builder.err => builder.selects = Row
  /\ rows \in {Row, Row \ {1}}
  /\ chunk = [at |-> "peek", offset |-> 0] /\ page = {}
  /\ visits = [r \in Row |-> 0] /\ changes = 0 /\ broken = FALSE

(* The n least of s.                                                       *)
Least(s, n) == {r \in s : Cardinality({q \in s : q < r}) < n}

(* The rows that a query may have as its result.  Chunk skips offset of    *)
(* them, ChunkByID asks for ids above lastID, which is 0 in every round.   *)
(* Rows that tie, or that no order is asked for, come in any.              *)
Pages ==
  LET found == rows \cap builder.selects
      skipped == IF method = "Chunk" THEN chunk.offset ELSE 0
      rest == found \ Least(found, skipped)
      size == IF Cardinality(rest) < ChunkSize THEN Cardinality(rest) ELSE ChunkSize
  IN  IF builder.total
      THEN {Least(rest, ChunkSize)}
      ELSE {p \in SUBSET found : Cardinality(p) = size}

(* The copy of the builder that is queried has its conditions and not its  *)
(* error, if it is Chunk's or ChunkByID's.  Any query may fail, and so may *)
(* the reading of any result, after some of its rows.                      *)
Query(at, empty, found) ==
  /\ chunk.at = at
  /\ \/ chunk' = [chunk EXCEPT !.at = "failed"] /\ page' = {} /\ UNCHANGED broken
     \/ \E p \in Pages : \E got \in SUBSET p :
          /\ page' = got /\ broken' = (broken \/ got # p)
          /\ chunk' = [chunk EXCEPT !.at = IF got = {} THEN empty ELSE found]
  /\ UNCHANGED <<method, builder, rows, visits, changes>>

Peek == Query("peek", "done", "fetch")
Fetch == Query("fetch", "call", "call")

(* Mutant: the next page begins with the last row of this one.             *)
CallbackOverlapping ==
  /\ chunk.at = "call"
  /\ visits' = [r \in Row |-> IF r \in page /\ visits[r] < MaxVisits
                              THEN visits[r] + 1 ELSE visits[r]]
  /\ chunk' = [at |-> "peek", offset |-> chunk.offset + ChunkSize - 1]
  /\ page' = {} /\ UNCHANGED <<method, builder, rows, changes, broken>>

(* The callback may delete rows of its page, and may stop the loop.        *)
Callback ==
  /\ chunk.at = "call"
  /\ visits' = [r \in Row |-> IF r \in page /\ visits[r] < MaxVisits
                              THEN visits[r] + 1 ELSE visits[r]]
  /\ \/ chunk' = [at |-> "peek",
                  offset |-> IF method = "Chunk" THEN chunk.offset + ChunkSize ELSE 0]
     \/ chunk' = [chunk EXCEPT !.at = "stopped"]
  /\ \/ UNCHANGED <<rows, changes>>
     \/ rows' = rows \ page /\ page # {} /\ changes' = MaxChanges + 1
  /\ page' = {} /\ UNCHANGED <<method, builder, broken>>

(* Somebody else deletes or inserts a row.                                 *)
Change ==
  /\ changes < MaxChanges /\ changes' = changes + 1
  /\ \E r \in Row : rows' = IF r \in rows THEN rows \ {r} ELSE rows \cup {r}
  /\ UNCHANGED <<method, builder, chunk, page, visits, broken>>

ChunkNext == Peek \/ Fetch \/ Callback \/ Change

ChunkSpec == ChunkInit /\ [][ChunkNext]_chunkVars
-----------------------------------------------------------------------------
Quiet == changes = 0 /\ builder.total /\ ~builder.err

(* Chunk gives no row to the callback twice, in pages that do not overlap, *)
(* if the order is total and the table stands still: what was visited lies *)
(* before the offset.  Unless the reading of a result failed, which Chunk  *)
(* takes for the end of the rows, it is all that lies there, and all that  *)
(* is selected if the loop ends by itself, that is with an empty page.     *)
ChunkVisitsOnce ==
  method = "Chunk" /\ Quiet =>
    LET found == rows \cap builder.selects
        visited == {r \in Row : visits[r] > 0}
        before == IF chunk.at \in {"peek", "fetch", "call"}
                  THEN Least(found, chunk.offset) ELSE found
    IN  /\ \A r \in Row : visits[r] <= 1
        /\ visited \subseteq before
        /\ chunk.at \in {"peek", "fetch", "call", "done"} /\ ~broken => visited = before

(* "ChunkByID processes query results by ID in batches": no row is in two  *)
(* batches, which Chunk takes care of.                                     *)
ByIDAdvances ==
  method = "ChunkByID" /\ Quiet => \A r \in Row : visits[r] <= 1
=============================================================================
