-------------------------------- MODULE Cache --------------------------------
(***************************************************************************)
(* cache/cache.go and cache/badger_cache.go: one cache and the requests    *)
(* that use it.  Redis is a server that other applications use too, each   *)
(* under its prefix; badger is the application's own, and New gives it no  *)
(* prefix.  EmptyByMatch of either collects keys first and deletes them    *)
(* later: one by one in redis, in one transaction in badger.               *)
(*                                                                         *)
(* Keys are numbers in the order in which badger iterates them; a value is *)
(* the number of the Set that it was given to.                             *)
(***************************************************************************)
EXTENDS Naturals, FiniteSets, Functions

CONSTANTS
  CacheKey,    \* keys of this application
  Foreign,     \* keys in the same redis, whose prefixes do not begin with ours
  Matching,    \* for each pattern, the keys of CacheKey that it matches
  Slashed,     \* those with a "/", which no "*" of path.Match stands for
  Cacher,      \* requests that empty the cache
  MaxSets      \* bound on the calls of Set

ASSUME CacheAssumption ==
  /\ CacheKey \cup Foreign \subseteq Nat /\ CacheKey \cap Foreign = {}
  /\ \A p \in DOMAIN Matching : Matching[p] \subseteq CacheKey
  /\ MaxSets \in Nat

VARIABLES
  backend,   \* "redis" or "badger"
  kept,      \* the value of each key that has one
  expiring,  \* the keys whose value was given a ttl
  sets,      \* calls of Set so far
  emptying,  \* the calls of EmptyByMatch: their pattern, "" when there is
             \* none; the keys they have collected and not deleted yet; and,
             \* as history, those that were there at the start and were not
             \* set since
  promised,  \* history: the value the callers may count on, 0 for none
  lost       \* history: the keys whose value badger lost without an error: by
             \* a Set that it did not keep, or by emptying a pattern that does
             \* not match them

cacheVars == <<backend, kept, expiring, sets, emptying, promised, lost>>

AnyKey == CacheKey \cup (IF backend = "redis" THEN Foreign ELSE {})
NotEmptying == [pattern |-> "", todo |-> {}, older |-> {}]

CacheTypeOK ==
  /\ backend \in {"redis", "badger"} /\ sets \in 0..MaxSets
  /\ DOMAIN kept \subseteq AnyKey /\ Range(kept) \subseteq 1..MaxSets + 1
  /\ expiring \subseteq DOMAIN kept /\ lost \subseteq CacheKey
  /\ emptying \in [Cacher -> [pattern : {""} \cup DOMAIN Matching,
                              todo : SUBSET AnyKey, older : SUBSET CacheKey]]
  /\ promised \in [AnyKey -> 0..MaxSets + 1]

CacheInit ==
  /\ backend \in {"redis", "badger"}
  /\ kept = [k \in AnyKey \ CacheKey |-> 1]
  /\ promised = [k \in AnyKey |-> IF k \in CacheKey THEN 0 ELSE 1]
  /\ expiring = {} /\ sets = 0 /\ lost = {}
  /\ emptying = [c \in Cacher |-> NotEmptying]

RedisGet(k) == IF k \in DOMAIN kept THEN kept[k] ELSE 0
BadgerGet(k) == RedisGet(k)

(* Badger's asks Get, which puts the prefix in front once more.            *)
RedisHas(k) == k \in DOMAIN kept
BadgerHas(k) == BadgerGet(k) # 0

Stored(k, v) == [j \in DOMAIN kept \cup {k} |-> IF j = k THEN v ELSE kept[j]]
Promise(k, v) == promised' = [promised EXCEPT ![k] = v]

(* A Set replaces the ttl with its own, or with none.                      *)
Expires(k, e) == expiring' = IF e THEN expiring \cup {k} ELSE expiring \ {k}

(* After an error the value may be there or not; the caller knows.         *)
RedisSet(k, v, e) ==
  /\ backend = "redis" /\ UNCHANGED lost
  /\ \/ kept' = Stored(k, v) /\ Expires(k, e) /\ Promise(k, v)
     \/ UNCHANGED <<kept, expiring>> /\ Promise(k, RedisGet(k))

(* The error of the transaction is dropped: Set returns nil.               *)
BadgerSet(k, v, e) ==
  /\ backend = "badger" /\ Promise(k, v)
  /\ \/ kept' = Stored(k, v) /\ Expires(k, e) /\ lost' = lost \ {k}
     \/ UNCHANGED <<kept, expiring>> /\ lost' = lost \cup {k}

Set(k) ==
  /\ sets < MaxSets /\ sets' = sets + 1
  /\ \E e \in BOOLEAN : RedisSet(k, sets', e) \/ BadgerSet(k, sets', e)
  /\ emptying' = [c \in Cacher |-> [emptying[c] EXCEPT !.older = @ \ {k}]]
  /\ UNCHANGED backend

RemoveKeys(ks) ==
  kept' = Restrict(kept, DOMAIN kept \ ks) /\ expiring' = expiring \ ks

Gone(k) ==
  /\ RemoveKeys({k}) /\ Promise(k, 0) /\ UNCHANGED <<backend, sets, emptying>>

(* An error is returned, and nothing deleted as far as anybody can see.    *)
Forget(k) == Gone(k) /\ lost' = lost \ {k}
Expire(k) == k \in expiring /\ Gone(k) /\ UNCHANGED lost

(* What a pattern matches: the glob of redis, or path.Match.               *)
Matched(p) == IF backend = "redis" THEN Matching[p] ELSE Matching[p] \ Slashed

(* Mutant: the pattern is given to redis without the prefix.               *)
RedisKeysUnprefixed(p) ==
  IF p = "*" THEN {DOMAIN kept} ELSE {DOMAIN kept \cap Matching[p]}

RedisKeys(p) == {DOMAIN kept \cap Matching[p]}

(* The iterator may use the memory of a key again once it has moved on, so *)
(* that what was collected may by now be a later key, or the beginning of  *)
(* one.                                                                    *)
BadgerKeys(p) ==
  LET found == DOMAIN kept \cap Matched(p)
  IN  {ks \in SUBSET DOMAIN kept :
         /\ Cardinality(ks) <= Cardinality(found)
         /\ \A k \in ks : \E f \in found : f <= k}

EmptyByMatch(c, p) ==
  /\ emptying[c].pattern = ""
  /\ \E ks \in IF backend = "redis" THEN RedisKeys(p) ELSE BadgerKeys(p) :
       emptying' = [emptying EXCEPT ![c] =
         [pattern |-> p, todo |-> ks, older |-> DOMAIN kept \cap Matching[p]]]
  /\ UNCHANGED <<backend, kept, expiring, sets, promised, lost>>

(* What matches the pattern is no longer promised; all else still is, and  *)
(* badger has lost what it deletes of it.                                  *)
DeleteKeys(c, ks) ==
  LET meant == ks \cap Matched(emptying[c].pattern)
  IN  /\ RemoveKeys(ks)
      /\ promised' = [k \in AnyKey |-> IF k \in meant THEN 0 ELSE promised[k]]
      /\ lost' = IF backend = "redis" THEN lost
                  ELSE (lost \ meant) \cup ((ks \ meant) \cap DOMAIN kept)
      /\ UNCHANGED <<backend, sets>>

RedisDelete(c) ==
  /\ backend = "redis"
  /\ \E k \in emptying[c].todo :
       /\ DeleteKeys(c, {k})
       /\ emptying' = [emptying EXCEPT ![c] =
            [pattern |-> @.pattern, todo |-> @.todo \ {k}, older |-> @.older \ {k}]]

BadgerDelete(c) ==
  /\ backend = "badger" /\ emptying[c].pattern # ""
  /\ DeleteKeys(c, emptying[c].todo)
  /\ emptying' = [emptying EXCEPT ![c] = NotEmptying]

(* All are deleted, or an error ends the loop.                             *)
Emptied(c) ==
  /\ emptying[c].pattern # ""
  /\ emptying' = [emptying EXCEPT ![c] = NotEmptying]
  /\ UNCHANGED <<backend, kept, expiring, sets, promised, lost>>

CacheNext ==
  \/ \E k \in CacheKey : Set(k) \/ Forget(k) \/ Expire(k)
  \/ \E c \in Cacher :
       \/ \E p \in DOMAIN Matching : EmptyByMatch(c, p)
       \/ RedisDelete(c) \/ BadgerDelete(c) \/ Emptied(c)

CacheSpec == CacheInit /\ [][CacheNext]_cacheVars
-----------------------------------------------------------------------------
(* What is read is what was set last, by whomever, unless it has expired,  *)
(* was forgotten or emptied away; nothing that is gone comes back; and     *)
(* nobody's values are lost but those a pattern matches.  Of badger this   *)
(* is not said of the keys whose value it lost itself, by a Set that it    *)
(* did not keep or by emptying a pattern that does not match them, until   *)
(* they are set or forgotten again; of redis it is said of every key.  A   *)
(* call that empties redis still has to delete, or has deleted, all that   *)
(* it should: what was there at its start and was not set again.  Badger   *)
(* may leave some of that, having deleted other keys instead.              *)
CacheKeeps ==
  /\ \A k \in AnyKey \ lost :
       IF backend = "redis"
       THEN RedisGet(k) = promised[k] /\ (RedisHas(k) <=> promised[k] # 0)
       ELSE BadgerGet(k) = promised[k] /\ (BadgerHas(k) <=> promised[k] # 0)
  /\ backend = "redis" =>
       /\ lost = {}
       /\ \A c \in Cacher :
            emptying[c].older \cap DOMAIN kept \subseteq emptying[c].todo
=============================================================================
