---------------------------- MODULE QueryBuilder ----------------------------
(***************************************************************************)
(* One builder of database/query_builder.go while its owner chains calls   *)
(* and runs statements, and the models of database/model.go that start     *)
(* such a chain.  A builder is never reset: what a call leaves in it is    *)
(* there for every later statement.                                        *)
(*                                                                         *)
(* A value is the place in the chain that it was given at.  A statement is *)
(* the sequence of its clauses, each with the values that its placeholders *)
(* stand for, beside the parameters in the order in which they are passed. *)
(***************************************************************************)
EXTENDS Naturals, Sequences, Functions

CONSTANTS
  NoQuery,   \* no statement, no union
  Unions,    \* statements of the builders that Union may be given
  MaxCalls   \* bound on the calls of a chain

ASSUME QueryAssumption == MaxCalls \in Nat /\ NoQuery \notin Unions

VARIABLES
  qb,        \* the builder
  calls,     \* number of calls, which tells the values apart
  statement  \* the last statement that was sent

queryVars == <<qb, calls, statement>>

Builder(err, conds) ==
  [err |-> err, table |-> FALSE, count |-> FALSE, where |-> conds,
   having |-> <<>>, joins |-> <<>>, group |-> FALSE, order |-> FALSE,
   limit |-> 0, offset |-> 0, union |-> NoQuery, all |-> FALSE]

(* Conditions: what WHERE makes of an operator, how it joins what stands   *)
(* before it, the values it was given.  An IN that was given to Where has  *)
(* its list in the text, and no values.                                    *)
Kind == {"compare", "null", "not null", "list"}
Condition(kind, logic, values) == [kind |-> kind, logic |-> logic, values |-> values]

QueryTypeOK ==
  /\ calls \in 0..MaxCalls
  /\ qb.err \in BOOLEAN /\ qb.table \in BOOLEAN /\ qb.count \in BOOLEAN
  /\ \A c \in Range(qb.where) \cup Range(qb.having) :
       c.kind \in Kind /\ c.logic \in {"AND", "OR"} /\ Range(c.values) \subseteq Nat
  /\ qb.union \in Unions \cup {NoQuery}
  /\ statement = NoQuery \/ Range(statement.params) \subseteq Nat

(* NewQueryBuilder, or Model.Query with its condition on deleted_at.       *)
QueryInit ==
  /\ calls = 0 /\ statement = NoQuery
  /\ qb \in {Builder(FALSE, <<>>),
             [Builder(FALSE, <<Condition("null", "AND", <<>>)>>) EXCEPT !.table = TRUE]}

Chained(b) ==
  /\ calls < MaxCalls /\ calls' = calls + 1
  /\ qb' = b /\ UNCHANGED statement

(* An argument that is no identifier, operator, direction or join          *)
(* condition: the call has no other effect, and the error stays.           *)
Invalid == Chained([qb EXCEPT !.err = TRUE])

Table == Chained([qb EXCEPT !.table = TRUE])
Select == Chained([qb EXCEPT !.count = FALSE])

AddWhere(c) == Chained([qb EXCEPT !.where = Append(@, c)])

(* Where and OrWhere take any of the operators.                            *)
AnyCondition(logic) ==
  \/ AddWhere(Condition("compare", logic, <<calls>>))
  \/ AddWhere(Condition("null", logic, <<>>))
  \/ AddWhere(Condition("list", logic, <<>>))

Where == AnyCondition("AND")
OrWhere == AnyCondition("OR")
WhereIn == \E n \in 0..2 : AddWhere(Condition("list", "AND", [i \in 1..n |-> 10 * calls + i]))
WhereBetween == AddWhere(Condition("list", "AND", <<10 * calls + 1, 10 * calls + 2>>))
WhereNull == AddWhere(Condition("null", "AND", <<>>))
WhereNotNull == AddWhere(Condition("not null", "AND", <<>>))

AddJoin(kind) == Chained([qb EXCEPT !.joins = Append(@, kind)])
Join == AddJoin("INNER JOIN")
LeftJoin == AddJoin("LEFT JOIN")
RightJoin == AddJoin("RIGHT JOIN")
GroupBy == Chained([qb EXCEPT !.group = TRUE])
OrderBy == Chained([qb EXCEPT !.order = TRUE])
Having == Chained([qb EXCEPT !.having = Append(@, Condition("compare", "AND", <<calls>>))])
Limit == \E n \in 0..1 : Chained([qb EXCEPT !.limit = n])
Offset == \E n \in 0..1 : Chained([qb EXCEPT !.offset = n])
Paginate == \E page \in 0..2 : Chained([qb EXCEPT !.limit = 15,
                                               !.offset = IF page < 1 THEN 0 ELSE 15 * (page - 1)])
AddUnion(all) == \E u \in Unions : Chained([qb EXCEPT !.union = u, !.all = all])
Union == AddUnion(FALSE)
UnionAll == AddUnion(TRUE)

(* HasMany and BelongsTo start a chain of their own.                       *)
Related(column) ==
  Chained([Builder(FALSE, <<Condition("compare", "AND", <<column>>)>>) EXCEPT !.table = TRUE])
HasMany == Related(calls)
BelongsTo == Related(100 + calls)
-----------------------------------------------------------------------------
(* The sequences of a list, one after the other.                           *)
Joined(list) ==
  LET upTo[n \in 0 .. Len(list)] == IF n = 0 THEN <<>> ELSE upTo[n - 1] \o list[n]
  IN  upTo[Len(list)]

(* The words that a clause may start with.                                 *)
Word ==
  {"SELECT", "COUNT", "INNER JOIN", "LEFT JOIN", "RIGHT JOIN", "WHERE", "AND", "OR",
   "GROUP BY", "HAVING", "ORDER BY", "LIMIT", "OFFSET", "UNION", "UNION ALL",
   "INSERT", "UPDATE", "DELETE"}

Clause(word, values) == [word |-> word, values |-> values]
ClauseIf(cond, word) == IF cond THEN <<Clause(word, <<>>)>> ELSE <<>>

(* The conditions of a statement: how each is joined to the one before.    *)
Conditions(word, conds) ==
  [i \in DOMAIN conds |->
     Clause(IF i = 1 THEN word ELSE conds[i].logic, conds[i].values)]

ParamsOf(conds) ==
  Joined([i \in DOMAIN conds |->
            IF conds[i].kind \in {"null", "not null"} THEN <<>> ELSE conds[i].values])

(* What the placeholders of a text stand for, read from the left, is what  *)
(* is passed.                                                              *)
Fits(s) == Joined([i \in DOMAIN s.text |-> s.text[i].values]) = s.params

(* A builder that is given to Union has made its statement as this one.    *)
ASSUME UnionAssumption ==
  \A u \in Unions :
    /\ u.refused \in BOOLEAN /\ u.params \in Seq(Nat)
    /\ u.text \in Seq([word : Word, values : Seq(Nat)]) /\ Fits(u)

(* What ToSQL returns, unless it refuses; a union is refused if its        *)
(* builder is.                                                             *)
Refused(b) == b.err \/ ~b.table \/ (b.union # NoQuery /\ b.union.refused)

(* Mutant: the values of HAVING are bound before those of WHERE.           *)
ToSQLHavingFirst(b) ==
  [refused |-> FALSE,
   text |-> Conditions("WHERE", b.where) \o Conditions("HAVING", b.having),
   params |-> ParamsOf(b.having) \o ParamsOf(b.where)]

ToSQL(b) ==
  [refused |-> FALSE,
   text |-> <<Clause(IF b.count THEN "COUNT" ELSE "SELECT", <<>>)>>
              \o [i \in DOMAIN b.joins |-> Clause(b.joins[i], <<>>)]
              \o Conditions("WHERE", b.where)
              \o ClauseIf(b.group, "GROUP BY")
              \o Conditions("HAVING", b.having)
              \o ClauseIf(b.order, "ORDER BY")
              \o ClauseIf(b.limit > 0, "LIMIT") \o ClauseIf(b.offset > 0, "OFFSET")
              \o (IF b.union = NoQuery THEN <<>>
                  ELSE <<Clause(IF b.all THEN "UNION ALL" ELSE "UNION", <<>>)>> \o b.union.text),
   params |-> ParamsOf(b.where) \o ParamsOf(b.having)
                \o (IF b.union = NoQuery THEN <<>> ELSE b.union.params)]

Sent(s) == statement' = s /\ UNCHANGED calls

Get == ~Refused(qb) /\ Sent(ToSQL(qb)) /\ UNCHANGED qb

(* First keeps its limit of one, and sends an empty statement when the     *)
(* builder refuses.                                                        *)
First ==
  /\ qb' = [qb EXCEPT !.limit = 1]
  /\ Sent(IF Refused(qb') THEN [refused |-> TRUE, text |-> <<>>, params |-> <<>>]
          ELSE ToSQL(qb'))

(* Count, and Exists which asks it.  The columns are restored, unless the  *)
(* builder refuses.                                                        *)
Count ==
  LET counting == [qb EXCEPT !.count = TRUE] IN
  IF Refused(counting) THEN qb' = counting /\ UNCHANGED <<calls, statement>>
  ELSE qb' = qb /\ Sent(ToSQL(counting))

(* Insert, Update and Delete look at the table and the conditions only.    *)
(* The columns of a map come in any order, which the values follow.        *)
Assignments == {<<>>, <<100>>, <<100, 101>>, <<101, 100>>}

Write(word, data, conds) ==
  /\ ~qb.err /\ qb.table
  /\ Sent([refused |-> FALSE,
           text |-> <<Clause(word, data)>> \o Conditions("WHERE", conds),
           params |-> data \o ParamsOf(conds)])
  /\ UNCHANGED qb

Insert == \E data \in Assignments : Write("INSERT", data, <<>>)
Update == \E data \in Assignments : Write("UPDATE", data, qb.where)
SoftDelete == Write("UPDATE", <<100>>, qb.where)  \* deleted_at is now
Restore == Write("UPDATE", <<101>>, qb.where)     \* deleted_at is null
Delete == Write("DELETE", <<>>, qb.where)         \* and ForceDelete

Chain ==
  \/ Invalid \/ Table \/ Select \/ Where \/ OrWhere \/ WhereIn \/ WhereBetween
  \/ WhereNull \/ WhereNotNull \/ Join \/ LeftJoin \/ RightJoin \/ GroupBy \/ OrderBy
  \/ Having \/ Limit \/ Offset \/ Paginate \/ Union \/ UnionAll \/ HasMany \/ BelongsTo

QueryNext ==
  Chain \/ Get \/ First \/ Count \/ Insert \/ Update \/ SoftDelete \/ Restore \/ Delete

QuerySpec == QueryInit /\ [][QueryNext]_queryVars
-----------------------------------------------------------------------------
(* Whatever calls the chain has, in whatever order: reading a statement    *)
(* from the left, each placeholder is given the value of its condition.    *)
ArgumentsFit == statement # NoQuery => Fits(statement)
=============================================================================
