---------------------------- MODULE MCMiddleware ----------------------------
(* A small instance of Middleware: one key, since every operation of a     *)
(* limiter concerns one; a bucket that ten intervals refill.  The setups   *)
(* of the throttler: two requests at once and no cleanup, so that failures *)
(* pile up; one request against a reader and the cleanup; two requests     *)
(* against the cleanup, without penalties; an address of the whitelist.    *)
EXTENDS Middleware

CONSTANTS c1, c2, r1, a1

MCSetups ==
  LET all == {"progressive", "suspicious", "subnet"}
  IN  {[options |-> all, goroutines |-> {c1, c2}, whitelist |-> {}],
       [options |-> all, goroutines |-> {c1, r1, Cleaner}, whitelist |-> {}],
       [options |-> {"subnet"}, goroutines |-> {c1, c2, Cleaner}, whitelist |-> {}],
       [options |-> all, goroutines |-> {c1}, whitelist |-> {a1}]}

(* A pattern of everything, and one of some.                               *)
MCMatching == [p \in {"*", "user*"} |-> IF p = "*" THEN CacheKey ELSE {1, 2}]

(* One union that has a value, and one that its builder refuses.           *)
MCUnions ==
  {[refused |-> FALSE, text |-> <<Clause("SELECT", <<>>), Clause("WHERE", <<90>>)>>,
    params |-> <<90>>],
   [refused |-> TRUE, text |-> <<>>, params |-> <<>>]}
=============================================================================
