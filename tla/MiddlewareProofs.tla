--------------------------- MODULE MiddlewareProofs ----------------------------
(***************************************************************************)
(* Theorems about what an application puts before its routes and what      *)
(* stands behind them: the sessions of session/session.go, the cache,      *)
(* the metrics of logging/middleware.go, and the statements, chunks and    *)
(* transactions of database/query_builder.go, for any requests, keys,      *)
(* patterns, rows and chains.  The limiters and the throttle have modules  *)
(* of their own; the last part puts them all together.                     *)
(***************************************************************************)
EXTENDS Middleware, LimiterProofs, ThrottleProofs, SequenceTheorems, FiniteSetTheorems,
        WellFoundedInduction, TLAPS


-----------------------------------------------------------------------------
(* Part 1: the sessions.                                                   *)
HIDE DEF LimiterBaseAssumption, TokenBucketAssumption, SlidingWindowAssumption,
         MonitorAssumption, ThrottleAssumption

USE SessionAssumption DEF SessionAssumption

TokenOf(x) == exchange[x].token
UserOf(x) == exchange[x].data.user

(* All copies of the session of a token agree on whether there is a user,  *)
(* as does the store: a login takes a token that nobody has.               *)
CopiesAgree ==
  /\ \A x, y \in Exchange :
       TokenOf(x) = TokenOf(y) /\ TokenOf(x) # NoToken => UserOf(x) = UserOf(y)
  /\ \A x \in Exchange :
       TokenOf(x) \in DOMAIN stored => UserOf(x) = stored[TokenOf(x)].user

(* Nor is a user's copy under a token that was a stranger's.               *)
UsersAreKnown ==
  /\ \A x \in Exchange : UserOf(x) /\ TokenOf(x) # NoToken => TokenOf(x) \notin strangers
  /\ \A t \in DOMAIN stored : stored[t].user => t \notin strangers

(* Who still holds a token that was revoked held it at that moment.        *)
RevokedIsHeld ==
  /\ \A x \in Exchange : TokenOf(x) \in revoked => TokenOf(x) \in outlived
  /\ revoked \cap DOMAIN stored \subseteq outlived

SInv == SessionTypeOK /\ CopiesAgree /\ UsersAreKnown /\ RevokedIsHeld

Request ==
  [at : {"idle", "rotate", "handle", "commit"}, token : 0..made, data : Session,
   status : {"unmodified", "modified", "destroyed"}]

(* The store is a function from some tokens to sessions.                   *)
LEMMA StoreTyped ==
  ASSUME SessionTypeOK
  PROVE  /\ made \in Nat /\ DOMAIN stored \subseteq 1..made
         /\ \A t \in DOMAIN stored : stored[t] \in Session
         /\ exchange \in [Exchange -> Request]
         /\ strangers \subseteq 1..made /\ revoked \subseteq 1..made /\ outlived \subseteq 1..made
  BY DEF SessionTypeOK, Request, Range

(* And the other way round.                                                *)
LEMMA StoreTypes ==
  ASSUME made' \in 0..MaxTokens, DOMAIN stored' \subseteq 1..made',
         \A t \in DOMAIN stored' : stored'[t] \in Session,
         exchange' \in [Exchange -> Request'],
         strangers' \subseteq 1..made', revoked' \subseteq 1..made', outlived' \subseteq 1..made'
  PROVE  SessionTypeOK'
  BY DEF SessionTypeOK, Request, Range

LEMMA SessionInitInv == SessionInit => SInv
  BY DEF SessionInit, SInv, SessionTypeOK, CopiesAgree, UsersAreKnown, RevokedIsHeld,
       TokenOf, UserOf, NoExchange, NoToken, Empty, Session, Range

(* A request that takes a token nobody has, or gives its own back; the     *)
(* session of its old token is gone from the store.                        *)
LEMMA RevokeKeeps ==
  ASSUME SInv, NEW x \in Exchange, Revoke(x), NEW r \in Request',
         exchange' = [exchange EXCEPT ![x] = r],
         \/ made' = made /\ r.token = NoToken
         \/ made' = made + 1 /\ made < MaxTokens /\ r.token = made'
  PROVE  SInv'
<1> USE StoreTyped DEF SInv
<1>1. /\ stored' = [t \in DOMAIN stored \ ({exchange[x].token} \ {NoToken}) |-> stored[t]]
      /\ revoked' = revoked \cup ({exchange[x].token} \ {NoToken})
      /\ strangers' = strangers
  BY DEF Revoke, Restrict
<1>2. outlived' = outlived \cup
        {t \in {exchange[x].token} \ {NoToken} : \E y \in Exchange \ {x} : exchange[y].token = t}
  BY DEF Revoke
<1>3. made' \in 0..MaxTokens /\ made \in 0..MaxTokens /\ made <= made'
  BY DEF SessionTypeOK
<1>4. SessionTypeOK'
  <2>1. DOMAIN stored' \subseteq 1..made' /\ \A t \in DOMAIN stored' : stored'[t] \in Session
    BY <1>1, <1>3
  <2>2. exchange' \in [Exchange -> Request']
    BY <1>3 DEF Request
  <2>3. exchange[x].token \in 0..made
    BY DEF Request
  <2>4. /\ strangers' \subseteq 1..made' /\ revoked' \subseteq 1..made'
        /\ outlived' \subseteq 1..made'
    BY <1>1, <1>2, <1>3, <2>3 DEF NoToken
  <2> QED BY <1>3, <2>1, <2>2, <2>4, StoreTypes
<1>5. /\ \A y \in Exchange \ {x} : exchange'[y] = exchange[y] /\ exchange[y].token \in 0..made
      /\ exchange'[x] = r
  BY DEF Request
<1>6. \A y \in Exchange \ {x} : r.token # NoToken => r.token # exchange[y].token
  BY <1>3, <1>5 DEF NoToken
<1>7. r.token \notin DOMAIN stored /\ r.token \notin strangers /\ r.token \notin revoked'
  <2>1. exchange[x].token \in 0..made
    BY DEF Request
  <2> QED BY <1>1, <1>3, <2>1 DEF NoToken
<1>8. CopiesAgree'
  BY <1>1, <1>5, <1>6, <1>7 DEF CopiesAgree, TokenOf, UserOf
<1>9. UsersAreKnown'
  BY <1>1, <1>5, <1>7 DEF UsersAreKnown, TokenOf, UserOf
<1>10. RevokedIsHeld'
  BY <1>1, <1>2, <1>5, <1>7 DEF RevokedIsHeld, TokenOf
<1> QED
  BY <1>4, <1>8, <1>9, <1>10

(* A request goes on with the token and the user that it has.              *)
LEMMA KeepKeeps ==
  ASSUME SInv, NEW x \in Exchange, NEW r \in Request,
         exchange' = [exchange EXCEPT ![x] = r],
         r.token = exchange[x].token, r.data.user = exchange[x].data.user,
         UNCHANGED <<stored, made, history>>
  PROVE  SInv'
<1> USE StoreTyped DEF SInv, history
<1>1. SessionTypeOK'
  BY StoreTypes DEF Request, SessionTypeOK
<1>2. \A y \in Exchange : TokenOf(y)' = TokenOf(y) /\ UserOf(y)' = UserOf(y)
  BY DEF TokenOf, UserOf
<1>3. CopiesAgree' /\ UsersAreKnown' /\ RevokedIsHeld'
  BY <1>2 DEF CopiesAgree, UsersAreKnown, RevokedIsHeld
<1> QED
  BY <1>1, <1>3

(* A renewal makes the next token; a session that is destroyed has none.   *)
LEMMA RenewKeeps ==
  ASSUME SInv, NEW x \in Exchange, NEW at \in {"handle", "commit"}, NEW data \in Session,
         RenewToken(x, at, data)
  PROVE  SInv'
<1> DEFINE r == [at |-> at, token |-> made', data |-> data, status |-> "modified"]
<1>1. made' = made + 1 /\ made < MaxTokens /\ Revoke(x) /\ made \in Nat
  BY StoreTyped DEF RenewToken, SInv
<1>2. exchange' = [exchange EXCEPT ![x] = r] /\ r.token = made' /\ r \in Request'
  BY <1>1 DEF RenewToken, Modify, Request
<1> QED
  BY <1>1, <1>2, RevokeKeeps

LEMMA DestroyKeeps ==
  ASSUME SInv, NEW x \in Exchange, Destroy(x)
  PROVE  SInv'
<1> DEFINE r == [at |-> "commit", token |-> NoToken, data |-> Empty, status |-> "destroyed"]
<1>1. /\ exchange' = [exchange EXCEPT ![x] = r] /\ made' = made /\ Revoke(x)
      /\ made \in Nat
  BY StoreTyped DEF Destroy, SInv
<1>2. r.token = NoToken /\ r \in Request'
  BY <1>1 DEF NoToken, Empty, Session, Request
<1> QED
  BY <1>1, <1>2, RevokeKeeps

LEMMA PutKeeps ==
  ASSUME SInv, NEW x \in Exchange, NEW at \in {"handle", "commit"}, NEW data \in Session,
         data.user = exchange[x].data.user, Put(x, at, data)
  PROVE  SInv'
<1> DEFINE r == [at |-> at, token |-> exchange[x].token, data |-> data, status |-> "modified"]
<1>1. r \in Request /\ exchange' = [exchange EXCEPT ![x] = r] /\ UNCHANGED <<stored, made, history>>
  BY StoreTyped DEF Put, Modify, Request, SInv
<1> QED
  BY <1>1, KeepKeeps

LEMMA RotateKeeps ==
  ASSUME SInv, NEW x \in Exchange, Rotate(x)
  PROVE  SInv'
<1> DEFINE data == [exchange[x].data EXCEPT !.created = TRUE]
<1>1. data \in Session /\ data.user = exchange[x].data.user
  BY StoreTyped DEF SInv, Request, Session
<1>2. RenewToken(x, "handle", data) \/ Put(x, "handle", data)
  BY DEF Rotate
<1> QED
  BY <1>1, <1>2, RenewKeeps, PutKeeps

(* What is loaded is what is stored: it agrees with all other copies.      *)
LEMMA LoadKeeps ==
  ASSUME SInv, NEW x \in Exchange, LoadSession(x)
  PROVE  SInv'
<1> USE StoreTyped DEF SInv
<1>1. CASE exchange' = [exchange EXCEPT ![x].at = "rotate"]
  <2> DEFINE r == [exchange[x] EXCEPT !.at = "rotate"]
  <2>1. /\ r \in Request /\ exchange' = [exchange EXCEPT ![x] = r]
        /\ r.token = exchange[x].token /\ r.data.user = exchange[x].data.user
        /\ UNCHANGED <<stored, made, history>>
    BY <1>1 DEF LoadSession, Request
  <2> QED BY <2>1, KeepKeeps
<1>2. CASE \E t \in DOMAIN stored : exchange' = [exchange EXCEPT ![x] =
             [at |-> "rotate", token |-> t, data |-> stored[t], status |-> "modified"]]
  <2>1. PICK t \in DOMAIN stored : exchange' = [exchange EXCEPT ![x] =
               [at |-> "rotate", token |-> t, data |-> stored[t], status |-> "modified"]]
    BY <1>2
  <2>2. UNCHANGED <<stored, made, strangers, revoked, outlived>> /\ t \in 1..made
    BY DEF LoadSession, history
  <2>3. SessionTypeOK'
    BY <2>1, <2>2, StoreTypes DEF Request, SessionTypeOK
  <2>4. /\ \A y \in Exchange \ {x} : exchange'[y] = exchange[y]
        /\ TokenOf(x)' = t /\ UserOf(x)' = stored[t].user
    BY <2>1 DEF TokenOf, UserOf
  <2>5. CopiesAgree' /\ UsersAreKnown' /\ RevokedIsHeld'
    BY <2>2, <2>4 DEF CopiesAgree, UsersAreKnown, RevokedIsHeld, TokenOf, UserOf
  <2> QED BY <2>3, <2>5
<1> QED
  BY <1>1, <1>2 DEF LoadSession

(* The commit writes a copy to its token, or to a new one.                 *)
LEMMA CommitKeeps ==
  ASSUME SInv, NEW x \in Exchange, CommitSession(x)
  PROVE  SInv'
<1> USE StoreTyped DEF SInv
<1> DEFINE data == exchange[x].data
           fresh == exchange[x].token = NoToken
           t == IF fresh THEN made + 1 ELSE exchange[x].token
<1>1. /\ exchange' = [exchange EXCEPT ![x] = NoExchange]
      /\ UNCHANGED <<revoked, outlived>>
  BY DEF CommitSession
<1>2. /\ \A y \in Exchange \ {x} : exchange'[y] = exchange[y]
      /\ TokenOf(x)' = NoToken /\ ~UserOf(x)'
  BY <1>1 DEF TokenOf, UserOf, NoExchange, Empty
<1>3. CASE UNCHANGED <<stored, made, strangers>>
  <2>1. SessionTypeOK'
    BY <1>1, <1>3, StoreTypes DEF Request, SessionTypeOK, NoExchange, Empty, Session, NoToken
  <2>2. NoToken \notin DOMAIN stored /\ NoToken \notin revoked
    BY DEF NoToken
  <2>3. CopiesAgree' /\ UsersAreKnown' /\ RevokedIsHeld'
    BY <1>1, <1>2, <1>3, <2>2 DEF CopiesAgree, UsersAreKnown, RevokedIsHeld, TokenOf, UserOf
  <2> QED BY <2>1, <2>3
<1>4. CASE /\ t <= MaxTokens /\ made' = IF fresh THEN t ELSE made
           /\ stored' = [u \in DOMAIN stored \cup {t} |-> IF u = t THEN data ELSE stored[u]]
           /\ strangers' = strangers \cup {u \in {t} : ~data.user}
  <2>1. /\ data \in Session /\ t \in 1..made' /\ made <= made' /\ made' \in 0..MaxTokens
        /\ NoToken \notin DOMAIN stored' /\ NoToken \notin revoked
    BY <1>4 DEF Request, NoToken, SessionTypeOK
  <2>2. SessionTypeOK'
    <3>1. exchange' \in [Exchange -> Request']
      BY <1>1, <2>1 DEF Request, NoExchange, Empty, Session, NoToken
    <3>2. DOMAIN stored' \subseteq 1..made' /\ \A u \in DOMAIN stored' : stored'[u] \in Session
      BY <1>4, <2>1
    <3>3. strangers' \subseteq 1..made' /\ revoked' \subseteq 1..made' /\ outlived' \subseteq 1..made'
      BY <1>1, <1>4, <2>1
    <3> QED BY <2>1, <3>1, <3>2, <3>3, StoreTypes
  <2>3. \A y \in Exchange : exchange[y].token = t => UserOf(y) = data.user
    BY DEF CopiesAgree, TokenOf, UserOf, Request, NoToken
  <2>4. data.user => t \notin strangers
    BY DEF UsersAreKnown, TokenOf, UserOf, NoToken
  <2>5. t \in revoked => t \in outlived
    BY DEF RevokedIsHeld, TokenOf, NoToken
  <2>6. CopiesAgree'
    BY <1>2, <1>4, <2>1, <2>3 DEF CopiesAgree, TokenOf, UserOf
  <2>7. UsersAreKnown'
    BY <1>2, <1>4, <2>3, <2>4 DEF UsersAreKnown, TokenOf, UserOf
  <2>8. RevokedIsHeld'
    BY <1>1, <1>2, <1>4, <2>1, <2>5 DEF RevokedIsHeld, TokenOf
  <2> QED BY <2>2, <2>6, <2>7, <2>8
<1> QED
  BY <1>3, <1>4 DEF CommitSession

LEMMA ExpireKeeps ==
  ASSUME SInv, NEW t \in DOMAIN stored, ExpireSession(t)
  PROVE  SInv'
<1> USE StoreTyped DEF SInv
<1>1. /\ stored' = [u \in DOMAIN stored \ {t} |-> stored[u]]
      /\ UNCHANGED <<exchange, made, strangers, revoked, outlived>>
  BY DEF ExpireSession, Restrict, history
<1>2. SessionTypeOK'
  BY <1>1, StoreTypes DEF Request, SessionTypeOK
<1>3. CopiesAgree' /\ UsersAreKnown' /\ RevokedIsHeld'
  BY <1>1 DEF CopiesAgree, UsersAreKnown, RevokedIsHeld, TokenOf, UserOf
<1> QED
  BY <1>2, <1>3

LEMMA SessionNextKeeps ==
  ASSUME SInv, SessionNext
  PROVE  SInv'
<1>1. ASSUME NEW x \in Exchange, LoadSession(x) PROVE SInv'
  BY <1>1, LoadKeeps
<1>2. ASSUME NEW x \in Exchange, Rotate(x) PROVE SInv'
  BY <1>2, RotateKeeps
<1>3. ASSUME NEW x \in Exchange, LoginUser(x) PROVE SInv'
  <2> DEFINE data == [user |-> TRUE, created |-> TRUE]
  <2>1. data \in Session /\ RenewToken(x, "commit", data)
    BY <1>3 DEF LoginUser, Session
  <2> QED BY <2>1, RenewKeeps
<1>4. ASSUME NEW x \in Exchange, Destroy(x) PROVE SInv'
  BY <1>4, DestroyKeeps
<1>5. ASSUME NEW x \in Exchange, Handled(x) PROVE SInv'
  <2> DEFINE r == [exchange[x] EXCEPT !.at = "commit"]
  <2>1. /\ r \in Request /\ exchange' = [exchange EXCEPT ![x] = r]
        /\ r.token = exchange[x].token /\ r.data.user = exchange[x].data.user
        /\ UNCHANGED <<stored, made, history>>
    BY <1>5, StoreTyped DEF Handled, Request, SInv
  <2> QED BY <2>1, KeepKeeps
<1>6. ASSUME NEW x \in Exchange, CommitSession(x) PROVE SInv'
  BY <1>6, CommitKeeps
<1>7. ASSUME NEW t \in DOMAIN stored, ExpireSession(t) PROVE SInv'
  BY <1>7, ExpireKeeps
<1> QED
  BY <1>1, <1>2, <1>3, <1>4, <1>5, <1>6, <1>7 DEF SessionNext, LogoutUser, ValidateSession

THEOREM SessionInvariant == SessionSpec => []SInv
<1>1. SInv /\ [SessionNext]_sessionVars => SInv'
  <2>1. SInv /\ UNCHANGED sessionVars => SInv'
    BY DEF SInv, SessionTypeOK, CopiesAgree, UsersAreKnown, RevokedIsHeld, sessionVars,
           history, TokenOf, UserOf
  <2> QED BY <2>1, SessionNextKeeps
<1> QED
  BY <1>1, SessionInitInv, PTL DEF SessionSpec

(* Every field keeps its type, and no token is used that was not made.     *)
THEOREM SessionTypesCorrect == SessionSpec => []SessionTypeOK
<1>1. SInv => SessionTypeOK
  BY DEF SInv
<1> QED
  BY <1>1, SessionInvariant, PTL

(* For any number of requests that overlap: a login never lives under a    *)
(* token that a stranger had, and a token that was renewed or logged out   *)
(* comes back only by a request that had loaded its session before.        *)
THEOREM LoginsRenew == SessionSpec => []LoginRenews
<1>1. SInv => LoginRenews
  BY DEF SInv, UsersAreKnown, RevokedIsHeld, LoginRenews
<1> QED
  BY <1>1, SessionInvariant, PTL

-----------------------------------------------------------------------------
(* Part 2: the cache.                                                      *)
HIDE SessionAssumption
    DEF SessionAssumption

(* In redis a request only ever deletes what its pattern matches.          *)
DeletesMatching ==
  backend = "redis" =>
    \A c \in Cacher : \A k \in emptying[c].todo : k \in Matching[emptying[c].pattern]

CInv == CacheTypeOK /\ CacheKeeps /\ DeletesMatching

LEMMA MaxSetsIsNat == MaxSets \in Nat
  BY CacheAssumption DEF CacheAssumption

LEMMA Bounds == 0 \in 0..MaxSets + 1 /\ 1..MaxSets \subseteq 1..MaxSets + 1
  BY MaxSetsIsNat

LEMMA MatchesOwn == \A p \in DOMAIN Matching : Matching[p] \subseteq CacheKey
  BY CacheAssumption DEF CacheAssumption

(* The values, one by one; and the two ways to look at a key agree.        *)
LEMMA Values ==
  ASSUME CacheTypeOK
  PROVE  \A k : RedisGet(k) \in 0..MaxSets + 1 /\ (RedisGet(k) # 0 <=> k \in DOMAIN kept)
<1>1. \A k \in DOMAIN kept : kept[k] \in Range(kept)
  BY DEF Range
<1>2. \A k \in DOMAIN kept : kept[k] \in 1..MaxSets + 1
  BY <1>1 DEF CacheTypeOK
<1> QED
  BY <1>2, MaxSetsIsNat DEF RedisGet

(* CacheKeeps says the same of both backends.                              *)
Kept == \A k \in AnyKey \ lost : RedisGet(k) = promised[k]
DeletesAll ==
  backend = "redis" =>
    /\ lost = {}
    /\ \A c \in Cacher : \A k \in emptying[c].older : k \in DOMAIN kept => k \in emptying[c].todo

LEMMA KeepsIs ==
  ASSUME CacheTypeOK
  PROVE  CacheKeeps <=> Kept /\ DeletesAll
<1>1. \A k : RedisGet(k) = BadgerGet(k) /\ (RedisGet(k) # 0 <=> k \in DOMAIN kept)
  BY Values DEF BadgerGet
<1>2. (\A k \in AnyKey \ lost :
        IF backend = "redis"
        THEN RedisGet(k) = promised[k] /\ (RedisHas(k) <=> promised[k] # 0)
        ELSE BadgerGet(k) = promised[k] /\ (BadgerHas(k) <=> promised[k] # 0)) <=> Kept
  BY <1>1 DEF Kept, RedisHas, BadgerHas
<1>3. (backend = "redis" =>
        /\ lost = {}
        /\ \A c \in Cacher : emptying[c].older \cap DOMAIN kept \subseteq emptying[c].todo)
      <=> DeletesAll
  BY DEF DeletesAll
<1> QED
  BY <1>2, <1>3 DEF CacheKeeps

LEMMA CacheInitInv == CacheInit => CInv
<1> SUFFICES ASSUME CacheInit PROVE CInv
  OBVIOUS
<1>1. CacheTypeOK
  <2>1. DOMAIN kept \subseteq AnyKey /\ Range(kept) \subseteq 1..MaxSets + 1
    BY MaxSetsIsNat DEF CacheInit, AnyKey, Range
  <2>2. emptying \in [Cacher -> [pattern : {""} \cup DOMAIN Matching,
                                 todo : SUBSET AnyKey, older : SUBSET CacheKey]]
    BY DEF CacheInit, NotEmptying
  <2>3. promised \in [AnyKey -> 0..MaxSets + 1]
    BY MaxSetsIsNat DEF CacheInit
  <2>4. /\ backend \in {"redis", "badger"} /\ sets \in 0..MaxSets
        /\ expiring \subseteq DOMAIN kept /\ lost \subseteq CacheKey
    BY MaxSetsIsNat DEF CacheInit
  <2> QED BY <2>1, <2>2, <2>3, <2>4 DEF CacheTypeOK
<1>2. Kept
  <2>1. \A k \in AnyKey : RedisGet(k) = IF k \in CacheKey THEN 0 ELSE 1
    BY DEF CacheInit, RedisGet
  <2> QED BY <2>1 DEF CacheInit, Kept
<1>3. DeletesAll /\ DeletesMatching
  BY DEF CacheInit, DeletesAll, DeletesMatching, NotEmptying
<1> QED
  BY <1>1, <1>2, <1>3, KeepsIs DEF CInv

(* What every step that stores or removes values has to show.              *)
LEMMA StepKeeps ==
  ASSUME CacheTypeOK, CacheTypeOK', Kept', DeletesAll', DeletesMatching'
  PROVE  CInv'
<1>1. CacheTypeOK' => (CacheKeeps' <=> Kept' /\ DeletesAll')
  BY KeepsIs, PTL
<1> QED
  BY <1>1 DEF CInv

(* Steps of one key: Kept is the same of every other key.                  *)
LEMMA OthersKept ==
  ASSUME Kept, NEW k, AnyKey' = AnyKey,
         \A j \in AnyKey \ {k} : /\ RedisGet(j)' = RedisGet(j) /\ promised'[j] = promised[j]
                                 /\ j \in lost => j \in lost',
         k \in AnyKey \ lost' => RedisGet(k)' = promised'[k]
  PROVE  Kept'
  BY DEF Kept

LEMMA SetKeeps ==
  ASSUME CInv, NEW k \in CacheKey, Set(k)
  PROVE  CInv'
<1>1. /\ sets' \in 1..MaxSets /\ backend' = backend /\ k \in AnyKey /\ AnyKey' = AnyKey
      /\ backend' \in {"redis", "badger"}
  <2>1. backend' = backend /\ sets' = sets + 1 /\ sets < MaxSets
    BY DEF Set
  <2>2. sets \in 0..MaxSets /\ backend \in {"redis", "badger"}
    BY DEF CInv, CacheTypeOK
  <2> QED BY <2>1, <2>2, MaxSetsIsNat DEF AnyKey
<1>2. emptying' = [c \in Cacher |-> [emptying[c] EXCEPT !.older = @ \ {k}]]
  BY DEF Set
<1>3. PICK e \in BOOLEAN : RedisSet(k, sets', e) \/ BadgerSet(k, sets', e)
  BY DEF Set
<1> DEFINE inCache == kept' = Stored(k, sets') /\ Expires(k, e)
           same == kept' = kept /\ expiring' = expiring
<1>4. inCache \/ same
  BY <1>3 DEF RedisSet, BadgerSet
<1>5. /\ DOMAIN kept' \subseteq AnyKey' /\ Range(kept') \subseteq 1..MaxSets + 1
      /\ expiring' \subseteq DOMAIN kept' /\ DOMAIN kept' \subseteq DOMAIN kept \cup {k}
  <2>1. CASE same
    BY <1>1, <2>1 DEF CInv, CacheTypeOK
  <2>2. CASE inCache
    <3>1. DOMAIN kept' = DOMAIN kept \cup {k}
      BY <2>2 DEF Stored
    <3>2. \A j \in DOMAIN kept' : kept'[j] \in Range(kept) \cup {sets'}
      BY <2>2 DEF Stored, Range
    <3>3. Range(kept') \subseteq 1..MaxSets + 1
      <4>1. Range(kept) \subseteq 1..MaxSets + 1 /\ sets' \in 1..MaxSets + 1
        BY <1>1, Bounds DEF CInv, CacheTypeOK
      <4> QED BY <3>2, <4>1 DEF Range
    <3>4. expiring' \subseteq expiring \cup {k}
      BY <2>2 DEF Expires
    <3> QED BY <1>1, <3>1, <3>3, <3>4 DEF CInv, CacheTypeOK
  <2> QED BY <1>4, <2>1, <2>2
<1>6. \A j : j # k => RedisGet(j)' = RedisGet(j)
  BY <1>4 DEF Stored, RedisGet
<1>7. \/ inCache /\ promised' = [promised EXCEPT ![k] = sets'] /\ lost' \subseteq lost
                /\ lost \subseteq lost' \cup {k}
      \/ same /\ promised' = [promised EXCEPT ![k] = RedisGet(k)] /\ lost' = lost
      \/ /\ same /\ promised' = [promised EXCEPT ![k] = sets'] /\ lost' = lost \cup {k}
         /\ backend # "redis"
  <2>1. CASE RedisSet(k, sets', e)
    BY <2>1 DEF RedisSet, Promise
  <2>2. CASE BadgerSet(k, sets', e)
    BY <2>2 DEF BadgerSet, Promise
  <2> QED BY <1>3, <2>1, <2>2
<1>8. CacheTypeOK'
  <2>1. promised' \in [AnyKey' -> 0..MaxSets + 1]
    <3>1. sets' \in 0..MaxSets + 1 /\ RedisGet(k) \in 0..MaxSets + 1
      BY <1>1, Values, MaxSetsIsNat DEF CInv
    <3>2. promised \in [AnyKey -> 0..MaxSets + 1]
      BY DEF CInv, CacheTypeOK
    <3> QED BY <1>1, <1>7, <3>1, <3>2
  <2>2. emptying' \in [Cacher -> [pattern : {""} \cup DOMAIN Matching,
                                  todo : SUBSET AnyKey', older : SUBSET CacheKey]]
    BY <1>1, <1>2, ZenonT(60) DEF CInv, CacheTypeOK
  <2>3. lost' \subseteq CacheKey
    BY <1>7 DEF CInv, CacheTypeOK
  <2>4. sets' \in 0..MaxSets
    BY <1>1, MaxSetsIsNat
  <2> QED BY <1>1, <1>5, <2>1, <2>2, <2>3, <2>4 DEF CacheTypeOK
<1>9. Kept'
  <2>1. Kept
    BY KeepsIs DEF CInv
  <2>2. DOMAIN promised = AnyKey
    BY DEF CInv, CacheTypeOK
  <2>3. \A j \in AnyKey \ {k} : promised'[j] = promised[j] /\ (j \in lost => j \in lost')
    BY <1>1, <1>7, <2>2
  <2>4. ASSUME k \notin lost' PROVE RedisGet(k)' = promised'[k]
    <3>1. CASE inCache /\ promised' = [promised EXCEPT ![k] = sets']
      BY <1>1, <2>2, <3>1 DEF Stored, RedisGet
    <3>2. CASE same /\ promised' = [promised EXCEPT ![k] = RedisGet(k)]
      BY <1>1, <2>2, <3>2 DEF RedisGet
    <3> QED BY <1>7, <2>4, <3>1, <3>2
  <2> QED BY <1>1, <1>6, <2>1, <2>3, <2>4, OthersKept
<1>10. \A c \in Cacher : /\ emptying'[c].older = emptying[c].older \ {k}
                         /\ emptying'[c].todo = emptying[c].todo
                         /\ emptying'[c].pattern = emptying[c].pattern
  BY <1>2 DEF CInv, CacheTypeOK
<1>11. DeletesAll' /\ DeletesMatching'
  BY <1>1, <1>5, <1>7, <1>10, KeepsIs DEF CInv, DeletesAll, DeletesMatching
<1> QED
  BY <1>8, <1>9, <1>11, StepKeeps DEF CInv

LEMMA GoneKeeps ==
  ASSUME CInv, NEW k \in CacheKey, Gone(k), lost' \in {lost, lost \ {k}}
  PROVE  CInv'
<1>1. /\ kept' = [j \in DOMAIN kept \cap (DOMAIN kept \ {k}) |-> kept[j]]
      /\ expiring' = expiring \ {k} /\ lost' \in {lost, lost \ {k}}
      /\ promised' = [promised EXCEPT ![k] = 0]
      /\ UNCHANGED <<backend, sets, emptying>>
  BY DEF Gone, RemoveKeys, Promise, Restrict
<1>2. AnyKey' = AnyKey /\ k \in AnyKey /\ DOMAIN kept' = DOMAIN kept \ {k}
  BY <1>1 DEF AnyKey
<1>3. CacheTypeOK'
  <2>1. Range(kept') \subseteq 1..MaxSets + 1
    BY <1>1 DEF CInv, CacheTypeOK, Range
  <2>2. promised' \in [AnyKey' -> 0..MaxSets + 1]
    <3>1. promised \in [AnyKey -> 0..MaxSets + 1]
      BY DEF CInv, CacheTypeOK
    <3>2. 0 \in 0..MaxSets + 1
      BY Bounds
    <3> QED BY <1>1, <1>2, <3>1, <3>2
  <2>3. DOMAIN kept' \subseteq AnyKey' /\ expiring' \subseteq DOMAIN kept' /\ lost' \subseteq CacheKey
    BY <1>1, <1>2 DEF CInv, CacheTypeOK
  <2> QED BY <1>1, <1>2, <2>1, <2>2, <2>3 DEF CInv, CacheTypeOK
<1>4. Kept'
  <2>1. Kept /\ DOMAIN promised = AnyKey
    BY KeepsIs DEF CInv, CacheTypeOK
  <2>2. \A j \in AnyKey \ {k} : RedisGet(j)' = RedisGet(j) /\ promised'[j] = promised[j]
                              /\ (j \in lost => j \in lost')
    BY <1>1, <1>2, <2>1 DEF RedisGet
  <2>3. RedisGet(k)' = 0 /\ promised'[k] = 0
    BY <1>1, <1>2, <2>1 DEF RedisGet
  <2> QED BY <1>2, <2>1, <2>2, <2>3, OthersKept
<1>5. DeletesAll' /\ DeletesMatching'
  BY <1>1, <1>2, KeepsIs DEF CInv, DeletesAll, DeletesMatching
<1> QED
  BY <1>3, <1>4, <1>5, StepKeeps DEF CInv

(* Deleting what the request may delete, whatever is left to delete.       *)
LEMMA DeleteKeeps ==
  ASSUME CInv, NEW c \in Cacher, NEW ks \in SUBSET AnyKey, DeleteKeys(c, ks),
         backend = "redis" => ks \subseteq Matching[emptying[c].pattern],
         emptying' \in [Cacher -> [pattern : {""} \cup DOMAIN Matching,
                                   todo : SUBSET AnyKey, older : SUBSET CacheKey]]
  PROVE  /\ CacheTypeOK' /\ Kept' /\ (backend = "redis" => lost' = lost)
         /\ backend' = backend /\ DOMAIN kept' = DOMAIN kept \ ks
<1> DEFINE meant == ks \cap Matched(emptying[c].pattern)
<1>1. /\ kept' = [j \in DOMAIN kept \cap (DOMAIN kept \ ks) |-> kept[j]]
      /\ expiring' = expiring \ ks
      /\ promised' = [k \in AnyKey |-> IF k \in meant THEN 0 ELSE promised[k]]
      /\ lost' = IF backend = "redis" THEN lost
                  ELSE (lost \ meant) \cup ((ks \ meant) \cap DOMAIN kept)
      /\ UNCHANGED <<backend, sets>>
  BY DEF DeleteKeys, RemoveKeys, Restrict
<1>5. meant \subseteq ks /\ (backend = "redis" => meant = ks)
  BY DEF Matched
<1> HIDE DEF meant
<1>2. AnyKey' = AnyKey /\ DOMAIN kept' = DOMAIN kept \ ks
  BY <1>1 DEF AnyKey
<1>3. CacheTypeOK'
  <2>1. Range(kept') \subseteq 1..MaxSets + 1
    BY <1>1 DEF CInv, CacheTypeOK, Range
  <2>2. promised' \in [AnyKey' -> 0..MaxSets + 1]
    <3>1. promised \in [AnyKey -> 0..MaxSets + 1]
      BY DEF CInv, CacheTypeOK
    <3>2. 0 \in 0..MaxSets + 1
      BY Bounds
    <3> QED BY <1>1, <1>2, <3>1, <3>2
  <2>3. DOMAIN kept' \subseteq AnyKey' /\ expiring' \subseteq DOMAIN kept' /\ lost' \subseteq CacheKey
    <3>1. backend # "redis" => DOMAIN kept \subseteq CacheKey
      BY DEF CInv, CacheTypeOK, AnyKey
    <3> QED BY <1>1, <1>2, <3>1 DEF CInv, CacheTypeOK
  <2>4. backend' \in {"redis", "badger"} /\ sets' \in 0..MaxSets
    BY <1>1 DEF CInv, CacheTypeOK
  <2> QED BY <1>2, <2>1, <2>2, <2>3, <2>4 DEF CacheTypeOK
<1>4. Kept'
  <2>1. Kept
    BY KeepsIs DEF CInv
  <2> SUFFICES ASSUME NEW j \in AnyKey \ lost' PROVE RedisGet(j)' = promised'[j]
    BY <1>2 DEF Kept
  <2>2. CASE j \in meant
    BY <1>1, <1>2, <1>5, <2>2 DEF RedisGet
  <2>3. CASE j \notin meant
    <3>1. j \notin lost /\ (j \in ks => j \notin DOMAIN kept)
      BY <1>1, <1>5, <2>3
    <3> QED BY <1>1, <1>2, <2>1, <2>3, <3>1 DEF RedisGet, Kept
  <2> QED BY <2>2, <2>3
<1> QED
  BY <1>1, <1>2, <1>3, <1>4, <1>5

LEMMA RedisDeleteKeeps ==
  ASSUME CInv, NEW c \in Cacher, RedisDelete(c)
  PROVE  CInv'
<1> DEFINE r == emptying[c]
<1>1. PICK k \in r.todo :
        /\ DeleteKeys(c, {k})
        /\ emptying' = [emptying EXCEPT ![c] =
             [pattern |-> r.pattern, todo |-> r.todo \ {k}, older |-> r.older \ {k}]]
  BY DEF RedisDelete
<1>2. emptying \in [Cacher -> [pattern : {""} \cup DOMAIN Matching,
                               todo : SUBSET AnyKey, older : SUBSET CacheKey]]
  BY DEF CInv, CacheTypeOK
<1>3. emptying' \in [Cacher -> [pattern : {""} \cup DOMAIN Matching,
                                todo : SUBSET AnyKey, older : SUBSET CacheKey]]
  BY <1>1, <1>2
<1>4. backend = "redis" /\ k \in Matching[r.pattern] /\ {k} \in SUBSET AnyKey
  BY <1>1, <1>2 DEF RedisDelete, CInv, DeletesMatching
<1>5. /\ CacheTypeOK' /\ Kept' /\ lost' = lost
      /\ backend' = backend /\ DOMAIN kept' = DOMAIN kept \ {k}
  BY <1>1, <1>3, <1>4, DeleteKeeps, ZenonT(60)
<1>6. \A d \in Cacher : /\ emptying'[d].pattern = emptying[d].pattern
                        /\ emptying'[d].todo \subseteq emptying[d].todo
                        /\ emptying[d].todo \subseteq emptying'[d].todo \cup {k}
                        /\ emptying'[d].older \subseteq emptying[d].older
  BY <1>1, <1>2
<1>7. DeletesAll' /\ DeletesMatching'
  BY <1>5, <1>6, KeepsIs DEF CInv, DeletesAll, DeletesMatching
<1> QED
  BY <1>5, <1>7, StepKeeps DEF CInv

LEMMA BadgerDeleteKeeps ==
  ASSUME CInv, NEW c \in Cacher, BadgerDelete(c)
  PROVE  CInv'
<1>1. /\ backend = "badger" /\ DeleteKeys(c, emptying[c].todo)
      /\ emptying' = [emptying EXCEPT ![c] = NotEmptying]
  BY DEF BadgerDelete
<1>2. emptying \in [Cacher -> [pattern : {""} \cup DOMAIN Matching,
                               todo : SUBSET AnyKey, older : SUBSET CacheKey]]
  BY DEF CInv, CacheTypeOK
<1>3. emptying' \in [Cacher -> [pattern : {""} \cup DOMAIN Matching,
                                todo : SUBSET AnyKey, older : SUBSET CacheKey]]
  BY <1>1, <1>2 DEF NotEmptying
<1>4. emptying[c].todo \in SUBSET AnyKey
  BY <1>2
<1>5. CacheTypeOK' /\ Kept' /\ backend' = backend
  BY <1>1, <1>3, <1>4, DeleteKeeps
<1>6. DeletesAll' /\ DeletesMatching'
  BY <1>1, <1>5 DEF DeletesAll, DeletesMatching
<1> QED
  BY <1>5, <1>6, StepKeeps DEF CInv

LEMMA EmptyingKeeps ==
  ASSUME CInv, NEW c \in Cacher,
         NEW r \in [pattern : {""} \cup DOMAIN Matching,
                    todo : SUBSET AnyKey, older : SUBSET CacheKey],
         backend = "redis" => r.older \cap DOMAIN kept \subseteq r.todo,
         backend = "redis" /\ r.todo # {} => r.todo \subseteq Matching[r.pattern],
         emptying' = [emptying EXCEPT ![c] = r],
         UNCHANGED <<backend, kept, expiring, sets, promised, lost>>
  PROVE  CInv'
<1>1. emptying \in [Cacher -> [pattern : {""} \cup DOMAIN Matching,
                               todo : SUBSET AnyKey, older : SUBSET CacheKey]]
  BY DEF CInv, CacheTypeOK
<1>2. \A d \in Cacher : emptying'[d] = IF d = c THEN r ELSE emptying[d]
  BY <1>1
<1>3. AnyKey' = AnyKey /\ \A k : RedisGet(k)' = RedisGet(k)
  BY DEF AnyKey, RedisGet
<1>4. CacheTypeOK'
  BY <1>1, <1>3 DEF CInv, CacheTypeOK
<1>5. Kept'
  BY <1>3, KeepsIs DEF CInv, Kept
<1>6. DeletesAll'
  BY <1>2, KeepsIs DEF CInv, DeletesAll
<1>7. DeletesMatching'
  BY <1>2 DEF CInv, DeletesMatching
<1> QED
  BY <1>4, <1>5, <1>6, <1>7, StepKeeps DEF CInv

LEMMA EmptyByMatchKeeps ==
  ASSUME CInv, NEW c \in Cacher, NEW p \in DOMAIN Matching, EmptyByMatch(c, p)
  PROVE  CInv'
<1>1. PICK ks \in IF backend = "redis" THEN RedisKeys(p) ELSE BadgerKeys(p) :
        emptying' = [emptying EXCEPT ![c] =
          [pattern |-> p, todo |-> ks, older |-> DOMAIN kept \cap Matching[p]]]
  BY DEF EmptyByMatch
<1>2. ks \subseteq DOMAIN kept /\ (backend = "redis" => ks = DOMAIN kept \cap Matching[p])
  BY <1>1 DEF RedisKeys, BadgerKeys
<1>3. DOMAIN kept \subseteq AnyKey
  BY DEF CInv, CacheTypeOK
<1>4. DOMAIN kept \cap Matching[p] \subseteq CacheKey
  BY MatchesOwn
<1>5. UNCHANGED <<backend, kept, expiring, sets, promised, lost>>
  BY DEF EmptyByMatch
<1> DEFINE r == [pattern |-> p, todo |-> ks, older |-> DOMAIN kept \cap Matching[p]]
<1>6. r \in [pattern : {""} \cup DOMAIN Matching, todo : SUBSET AnyKey, older : SUBSET CacheKey]
  BY <1>2, <1>3, <1>4
<1>7. /\ backend = "redis" => r.older \cap DOMAIN kept \subseteq r.todo
      /\ backend = "redis" /\ r.todo # {} => r.todo \subseteq Matching[r.pattern]
  BY <1>2
<1>8. emptying' = [emptying EXCEPT ![c] = r]
  BY <1>1
<1> HIDE DEF r
<1> QED
  BY <1>5, <1>6, <1>7, <1>8, EmptyingKeeps

LEMMA EmptiedKeeps ==
  ASSUME CInv, NEW c \in Cacher, Emptied(c)
  PROVE  CInv'
<1>1. NotEmptying \in [pattern : {""} \cup DOMAIN Matching,
                       todo : SUBSET AnyKey, older : SUBSET CacheKey]
      /\ NotEmptying.older = {} /\ NotEmptying.todo = {}
  BY DEF NotEmptying
<1>2. /\ emptying' = [emptying EXCEPT ![c] = NotEmptying]
      /\ UNCHANGED <<backend, kept, expiring, sets, promised, lost>>
  BY DEF Emptied
<1> QED
  BY <1>1, <1>2, EmptyingKeeps

LEMMA CacheNextKeeps ==
  ASSUME CInv, [CacheNext]_cacheVars
  PROVE  CInv'
<1>1. ASSUME NEW k \in CacheKey, Set(k) \/ Forget(k) \/ Expire(k) PROVE CInv'
  BY <1>1, SetKeeps, GoneKeeps DEF Forget, Expire
<1>2. ASSUME NEW c \in Cacher, NEW p \in DOMAIN Matching, EmptyByMatch(c, p) PROVE CInv'
  BY <1>2, EmptyByMatchKeeps
<1>3. ASSUME NEW c \in Cacher, RedisDelete(c) \/ BadgerDelete(c) \/ Emptied(c) PROVE CInv'
  BY <1>3, RedisDeleteKeeps, BadgerDeleteKeeps, EmptiedKeeps
<1>4. CASE UNCHANGED cacheVars
  <2>1. UNCHANGED <<backend, kept, expiring, sets, emptying, promised, lost>>
    BY <1>4 DEF cacheVars
  <2>2. CacheTypeOK'
    BY <2>1 DEF CInv, CacheTypeOK, AnyKey
  <2>3. CacheKeeps'
    BY <2>1 DEF CInv, CacheKeeps, AnyKey, RedisGet, BadgerGet, RedisHas, BadgerHas
  <2> QED BY <2>1, <2>2, <2>3 DEF CInv, DeletesMatching
<1> QED
  BY <1>1, <1>2, <1>3, <1>4 DEF CacheNext

THEOREM CacheInvariant == CacheSpec => []CInv
<1>1. CInv /\ [CacheNext]_cacheVars => CInv'
  BY CacheNextKeeps
<1> QED
  BY <1>1, CacheInitInv, PTL DEF CacheSpec

(* What the variables range over, for any keys, patterns and requests.     *)
THEOREM CacheTypesCorrect == CacheSpec => []CacheTypeOK
<1>1. CInv => CacheTypeOK
  BY DEF CInv
<1> QED
  BY <1>1, CacheInvariant, PTL

(* What is read is what was set last, and EmptyByMatch of redis takes what *)
(* matches and nothing else, whatever overlaps it.  Badger's may take      *)
(* other keys, and leave those: only of these nothing is said.             *)
THEOREM CacheKept == CacheSpec => []CacheKeeps
<1>1. CInv => CacheKeeps
  BY DEF CInv
<1> QED
  BY <1>1, CacheInvariant, PTL

-----------------------------------------------------------------------------
(* Part 3: transactions.                                                   *)
USE TransactionAssumption DEF TransactionAssumption

(* What a caller is in has not returned yet, nor what it asks to begin.     *)
CallerIs(c) ==
  /\ \A n \in {1, 2} : n <= tx[c].depth => result[<<c, n>>] = "none"
  /\ tx[c].at = "idle" =>
       tx[c].depth = 0 /\ result[<<c, 1>>] = "none" /\ result[<<c, 2>>] = "none"
  /\ tx[c].at = "begin" => tx[c].depth \in {0, 1} /\ result[<<c, tx[c].depth + 1>>] = "none"
  /\ tx[c].at = "run" => tx[c].depth \in {1, 2}

WritesAre(l) ==
  /\ result[l] = "ok" => (l \in wrote => l \in durable)
  /\ result[l] \in {"none", "error", "panic"} => l \notin durable

TxInv ==
  /\ TxTypeOK
  /\ \A c \in TxCaller : CallerIs(c)
  /\ \A l \in Level : WritesAre(l)
  /\ free = MaxConns - Cardinality(InUse)

LEMMA LevelFinite == IsFiniteSet(Level) /\ IsFiniteSet(InUse)
<1>1. IsFiniteSet({1, 2})
  <2>1. IsFiniteSet({1}) /\ {1, 2} = {1} \cup {2}
    BY FS_Singleton
  <2> QED BY <2>1, FS_AddElement
<1>2. IsFiniteSet(Level)
  BY <1>1, FS_Product DEF Level
<1>3. InUse \in SUBSET Level
  BY DEF InUse
<1> QED
  BY <1>2, <1>3, FS_Subset

LEMMA LevelIs ==
  /\ \A c \in TxCaller, n \in {1, 2} : <<c, n>> \in Level
  /\ \A l \in Level : l[1] \in TxCaller /\ l[2] \in {1, 2} /\ l = <<l[1], l[2]>>
  BY DEF Level

(* What a caller's step does to its own place and results.                  *)
LEMMA OwnStep ==
  ASSUME TxInv, NEW c \in TxCaller, NEW at \in {"idle", "begin", "run", "done"},
         NEW d \in 0 .. 2, Become(c, at, d)
  PROVE  /\ tx' \in [TxCaller -> [at : {"idle", "begin", "run", "done"}, depth : 0..2]]
         /\ tx'[c].at = at /\ tx'[c].depth = d
         /\ \A e \in TxCaller \ {c} : tx'[e] = tx[e]
<1>1. tx' = [tx EXCEPT ![c] = [at |-> at, depth |-> d]]
  BY DEF Become
<1>2. tx \in [TxCaller -> [at : {"idle", "begin", "run", "done"}, depth : 0..2]]
  BY DEF TxInv, TxTypeOK
<1> QED
  BY <1>1, <1>2

(* The results of the others, and so what holds of them, are untouched.     *)
LEMMA OthersStay ==
  ASSUME TxInv, NEW c \in TxCaller, NEW e \in TxCaller \ {c}, tx'[e] = tx[e],
         \A n \in {1, 2} : result'[<<e, n>>] = result[<<e, n>>]
  PROVE  CallerIs(e)'
<1>1. CallerIs(e) /\ tx[e].depth \in 0 .. 2
  BY DEF TxInv, TxTypeOK
<1>2. tx[e].depth \in {0, 1} => tx[e].depth + 1 \in {1, 2}
  OBVIOUS
<1> QED
  BY <1>1, <1>2 DEF CallerIs

LEMMA CardinalityIs ==
  ASSUME TxInv
  PROVE  Cardinality(InUse) \in Nat /\ free \in Nat /\ free + Cardinality(InUse) = MaxConns
<1>1. Cardinality(InUse) \in Nat
  BY LevelFinite, FS_CardinalityType
<1>2. free \in 0 .. MaxConns /\ free = MaxConns - Cardinality(InUse)
  BY DEF TxInv, TxTypeOK
<1> QED
  BY <1>1, <1>2

(* The transaction that ends is the innermost one of its caller.            *)
LEMMA EndsOne ==
  ASSUME TxInv, NEW c \in TxCaller, tx[c].at = "run",
         NEW r \in {"ok", "error", "unknown"}, EndTx(c, tx[c].depth, r)
  PROVE  LET l == <<c, tx[c].depth>>
         IN  /\ tx[c].depth \in {1, 2} /\ l \in Level /\ result[l] = "none" /\ l \notin durable
             /\ tx' \in [TxCaller -> [at : {"idle", "begin", "run", "done"}, depth : 0..2]]
             /\ result' \in [Level -> {"none", "ok", "error", "unknown", "panic"}]
             /\ result'[l] = r /\ \A k \in Level \ {l} : result'[k] = result[k]
             /\ InUse' = InUse \ {l} /\ l \in InUse
             /\ \A e \in TxCaller : CallerIs(e)'
<1> DEFINE d == tx[c].depth
           l == <<c, d>>
           at == IF d = 1 THEN "done" ELSE "run"
<1>1. CallerIs(c) /\ d \in {1, 2}
  BY DEF TxInv, CallerIs
<1>2. l \in Level /\ result[l] = "none"
  BY <1>1, LevelIs DEF CallerIs
<1>3. l \notin durable
  BY <1>2 DEF TxInv, WritesAre
<1>4. Become(c, at, d - 1) /\ result' = [result EXCEPT ![l] = r]
  BY DEF EndTx
<1>5. at \in {"idle", "begin", "run", "done"} /\ d - 1 \in 0 .. 2
  BY <1>1
<1>6. /\ tx' \in [TxCaller -> [at : {"idle", "begin", "run", "done"}, depth : 0..2]]
      /\ tx'[c].at = at /\ tx'[c].depth = d - 1
      /\ \A e \in TxCaller \ {c} : tx'[e] = tx[e]
  <2> HIDE DEF at, d
  <2> QED BY <1>4, <1>5, OwnStep
<1>7. /\ result' \in [Level -> {"none", "ok", "error", "unknown", "panic"}]
      /\ result'[l] = r /\ \A k \in Level \ {l} : result'[k] = result[k]
  BY <1>2, <1>4 DEF TxInv, TxTypeOK
<1>8. l \in InUse
  <2>1. l[1] = c /\ l[2] = d /\ d <= d
    BY <1>1
  <2> QED BY <1>2, <2>1 DEF InUse
<1>9. ASSUME NEW k \in Level PROVE k \in InUse' <=> k \in InUse /\ k # l
  <2>1. k[1] \in TxCaller /\ k[2] \in {1, 2} /\ k = <<k[1], k[2]>>
    BY LevelIs
  <2>2. k \in InUse' <=> k[2] <= tx'[k[1]].depth \/ result'[k] = "panic"
    BY DEF InUse
  <2>3. k \in InUse <=> k[2] <= tx[k[1]].depth \/ result[k] = "panic"
    BY DEF InUse
  <2>4. CASE k = l
    <3>1. k[1] = c /\ k[2] = d /\ ~(d <= d - 1) /\ r # "panic"
      BY <1>1, <2>4
    <3> QED BY <1>6, <1>7, <2>2, <2>4, <3>1
  <2>5. CASE k # l /\ k[1] = c
    <3>1. k[2] # d
      BY <2>1, <2>5
    <3>2. k[2] <= d - 1 <=> k[2] <= d
      BY <1>1, <2>1, <3>1
    <3> QED BY <1>6, <1>7, <2>2, <2>3, <2>5, <3>2
  <2>6. CASE k # l /\ k[1] # c
    BY <1>6, <1>7, <2>1, <2>2, <2>3, <2>6
  <2> QED BY <2>4, <2>5, <2>6
<1>10. InUse' = InUse \ {l}
  <2>1. InUse' \subseteq Level /\ InUse \subseteq Level
    BY DEF InUse
  <2> HIDE DEF l
  <2> QED BY <1>9, <2>1
<1>11. ASSUME NEW e \in TxCaller PROVE CallerIs(e)'
  <2>1. CASE e # c
    <3>1. \A n \in {1, 2} : result'[<<e, n>>] = result[<<e, n>>]
      BY <1>7, <2>1, LevelIs
    <3> QED BY <1>6, <2>1, <3>1, OthersStay
  <2>2. CASE e = c
    <3>1. ASSUME NEW n \in {1, 2}, n <= d - 1 PROVE result'[<<c, n>>] = "none"
      <4>1. n # d /\ n <= d
        BY <1>1, <3>1
      <4>2. <<c, n>> \in Level /\ <<c, n>> # l /\ result[<<c, n>>] = "none"
        BY <1>1, <4>1, LevelIs DEF CallerIs
      <4> QED BY <1>7, <4>2
    <3>2. at = "run" => d - 1 \in {1, 2}
      BY <1>1
    <3>3. at # "idle" /\ at # "begin"
      OBVIOUS
    <3> HIDE DEF at, d
    <3> QED BY <1>6, <2>2, <3>1, <3>2, <3>3 DEF CallerIs
  <2> QED BY <2>1, <2>2
<1> QED
  BY <1>1, <1>2, <1>3, <1>6, <1>7, <1>8, <1>10, <1>11

(* The innermost one ends and gives its connection back.                    *)
LEMMA EndKeeps ==
  ASSUME TxInv, NEW c \in TxCaller, tx[c].at = "run",
         NEW r \in {"ok", "error", "unknown"}, EndTx(c, tx[c].depth, r),
         free' = free + 1, UNCHANGED <<wrote, open, health>>,
         \/ r = "ok" /\ durable' = durable \cup Own(c)
         \/ r = "unknown" /\ durable' \in {durable, durable \cup Own(c)}
         \/ r = "error" /\ durable' = durable
  PROVE  TxInv'
<1> DEFINE l == <<c, tx[c].depth>>
<1>1. /\ l \in Level /\ result[l] = "none" /\ l \notin durable
      /\ tx' \in [TxCaller -> [at : {"idle", "begin", "run", "done"}, depth : 0..2]]
      /\ result' \in [Level -> {"none", "ok", "error", "unknown", "panic"}]
      /\ result'[l] = r /\ \A k \in Level \ {l} : result'[k] = result[k]
      /\ InUse' = InUse \ {l} /\ l \in InUse
      /\ \A e \in TxCaller : CallerIs(e)'
  BY EndsOne
<1>2. Own(c) = {l} \cap wrote
  BY DEF Own
<1> HIDE DEF l
<1>3. free' = MaxConns - Cardinality(InUse') /\ free' \in 0 .. MaxConns
  <2>1. Cardinality(InUse') = Cardinality(InUse) - 1 /\ IsFiniteSet(InUse')
    BY <1>1, LevelFinite, FS_RemoveElement
  <2>2. Cardinality(InUse') \in Nat
    BY <2>1, FS_CardinalityType
  <2>3. Cardinality(InUse) \in Nat /\ free \in Nat /\ free + Cardinality(InUse) = MaxConns
    BY CardinalityIs
  <2> QED BY <2>1, <2>2, <2>3
<1>4. ASSUME NEW k \in Level PROVE WritesAre(k)'
  <2>1. CASE k # l
    <3>1. k \in durable' <=> k \in durable
      BY <1>2, <2>1
    <3> QED BY <1>1, <2>1, <3>1 DEF TxInv, WritesAre
  <2>2. CASE k = l
    BY <1>1, <1>2, <2>2 DEF WritesAre
  <2> QED BY <2>1, <2>2
<1>5. TxTypeOK'
  <2>1. wrote \subseteq Level /\ durable \subseteq wrote /\ open \in 0 .. MaxConns
        /\ health \in {"none", "healthy", "degraded", "unhealthy"}
    BY DEF TxInv, TxTypeOK
  <2>2. durable' \subseteq wrote
    BY <1>2, <2>1
  <2>3. Level' = Level
    BY DEF Level
  <2> QED BY <1>1, <1>3, <2>1, <2>2, <2>3 DEF TxTypeOK
<1>6. Level' = Level
  BY DEF Level
<1> QED
  BY <1>1, <1>3, <1>4, <1>5, <1>6 DEF TxInv

LEMMA BeginKeeps == ASSUME TxInv, NEW c \in TxCaller, Begin(c) PROVE TxInv'
<1> DEFINE d == tx[c].depth
<1>1. /\ \/ tx[c].at = "idle"
         \/ tx[c].at = "run" /\ d = 1 /\ result[<<c, 2>>] = "none"
      /\ Become(c, "begin", d)
      /\ UNCHANGED <<result, wrote, durable, free, open, health>>
  BY DEF Begin
<1>2. CallerIs(c) /\ d \in 0 .. 2 /\ TxTypeOK
  BY DEF TxInv, TxTypeOK
<1>3. d \in {0, 1} /\ result[<<c, d + 1>>] = "none"
  BY <1>1, <1>2 DEF CallerIs
<1>4. /\ tx' \in [TxCaller -> [at : {"idle", "begin", "run", "done"}, depth : 0..2]]
      /\ tx'[c].at = "begin" /\ tx'[c].depth = d
      /\ \A e \in TxCaller \ {c} : tx'[e] = tx[e]
  <2> HIDE DEF d
  <2> QED BY <1>1, <1>2, OwnStep
<1>5. ASSUME NEW e \in TxCaller PROVE CallerIs(e)'
  <2>1. CASE e # c
    BY <1>1, <1>4, <2>1, OthersStay
  <2>2. CASE e = c
    BY <1>1, <1>2, <1>3, <1>4, <2>2 DEF CallerIs
  <2> QED BY <2>1, <2>2
<1>6. InUse' = InUse
  <2>1. \A e \in TxCaller : tx'[e].depth = tx[e].depth
    BY <1>4
  <2>2. Level' = Level
    BY DEF Level
  <2> QED BY <1>1, <2>1, <2>2, LevelIs DEF InUse
<1>7. TxTypeOK'
  BY <1>1, <1>2, <1>4 DEF TxTypeOK, Level
<1>8. \A l \in Level' : WritesAre(l)'
  BY <1>1 DEF TxInv, WritesAre, Level
<1> QED
  BY <1>1, <1>5, <1>6, <1>7, <1>8 DEF TxInv

LEMMA BegunKeeps == ASSUME TxInv, NEW c \in TxCaller, Begun(c) PROVE TxInv'
<1> DEFINE d == tx[c].depth
           l == <<c, d + 1>>
<1>1. /\ tx[c].at = "begin" /\ free > 0 /\ Become(c, "run", d + 1) /\ free' = free - 1
      /\ open' = IF Took > open THEN Took ELSE open
      /\ UNCHANGED <<result, wrote, durable, health>>
  BY DEF Begun
<1>2. CallerIs(c) /\ TxTypeOK
  BY DEF TxInv
<1>3. d \in {0, 1} /\ result[l] = "none"
  BY <1>1, <1>2 DEF CallerIs
<1>4. l \in Level /\ d + 1 \in {1, 2} /\ d + 1 \in 0 .. 2
  <2>1. d + 1 \in {1, 2} /\ d + 1 \in 0 .. 2
    <3>1. d \in {0, 1}
      BY <1>3
    <3> HIDE DEF d
    <3> QED BY <3>1
  <2>2. l \in Level
    BY <2>1, LevelIs
  <2> QED BY <2>1, <2>2
<1>5. /\ tx' \in [TxCaller -> [at : {"idle", "begin", "run", "done"}, depth : 0..2]]
      /\ tx'[c].at = "run" /\ tx'[c].depth = d + 1
      /\ \A e \in TxCaller \ {c} : tx'[e] = tx[e]
  <2> HIDE DEF d
  <2> QED BY <1>1, <1>4, OwnStep
<1>6. ASSUME NEW e \in TxCaller PROVE CallerIs(e)'
  <2>1. CASE e # c
    BY <1>1, <1>5, <2>1, OthersStay
  <2>2. CASE e = c
    <3>1. ASSUME NEW n \in {1, 2}, n <= d + 1 PROVE result'[<<c, n>>] = "none"
      <4>1. n <= d \/ n = d + 1
        BY <1>3, <3>1
      <4> QED BY <1>1, <1>2, <1>3, <4>1 DEF CallerIs
    <3> HIDE DEF d
    <3> QED BY <1>4, <1>5, <2>2, <3>1 DEF CallerIs
  <2> QED BY <2>1, <2>2
<1>7. Level' = Level
  BY DEF Level
<1>8. l \notin InUse /\ InUse' = InUse \cup {l}
  <2>1. l[1] = c /\ l[2] = d + 1 /\ ~(d + 1 <= d)
    BY <1>3
  <2>2. l \notin InUse
    BY <1>3, <2>1 DEF InUse
  <2>3. ASSUME NEW k \in Level PROVE k \in InUse' <=> k \in InUse \/ k = l
    <3>1. k[1] \in TxCaller /\ k[2] \in {1, 2} /\ k = <<k[1], k[2]>>
      BY LevelIs
    <3>2. k \in InUse' <=> k[2] <= tx'[k[1]].depth \/ result[k] = "panic"
      BY <1>1, <1>7 DEF InUse
    <3>3. k \in InUse <=> k[2] <= tx[k[1]].depth \/ result[k] = "panic"
      BY DEF InUse
    <3>4. CASE k[1] # c
      BY <1>5, <2>1, <3>1, <3>2, <3>3, <3>4
    <3>5. CASE k[1] = c
      <4>1. k = l <=> k[2] = d + 1
        BY <3>1, <3>5
      <4>2. k[2] <= d + 1 <=> k[2] <= d \/ k[2] = d + 1
        BY <1>3, <3>1
      <4> QED BY <1>5, <3>2, <3>3, <3>5, <4>1, <4>2
    <3> QED BY <3>4, <3>5
  <2>4. InUse' \subseteq Level /\ InUse \subseteq Level
    BY <1>7 DEF InUse
  <2> HIDE DEF l
  <2> QED BY <1>4, <2>2, <2>3, <2>4
<1>9. free' = MaxConns - Cardinality(InUse') /\ free' \in 0 .. MaxConns
  <2>1. Cardinality(InUse') = Cardinality(InUse) + 1
    BY <1>8, LevelFinite, FS_AddElement
  <2>2. Cardinality(InUse) \in Nat /\ free \in Nat /\ free + Cardinality(InUse) = MaxConns
    BY CardinalityIs
  <2> QED BY <1>1, <2>1, <2>2
<1>10. open' \in 0 .. MaxConns
  <2>1. free \in 0 .. MaxConns /\ open \in 0 .. MaxConns
    BY <1>2 DEF TxTypeOK
  <2> QED BY <1>1, <2>1 DEF Took
<1>11. TxTypeOK'
  BY <1>1, <1>2, <1>5, <1>7, <1>9, <1>10 DEF TxTypeOK
<1>12. \A k \in Level' : WritesAre(k)'
  BY <1>1, <1>7 DEF TxInv, WritesAre
<1> QED
  BY <1>6, <1>9, <1>11, <1>12 DEF TxInv

LEMMA BeginFailsKeeps == ASSUME TxInv, NEW c \in TxCaller, BeginFails(c) PROVE TxInv'
<1> DEFINE d == tx[c].depth
           l == <<c, d + 1>>
           at == IF d + 1 = 1 THEN "done" ELSE "run"
<1>1. /\ tx[c].at = "begin" /\ Become(c, at, (d + 1) - 1)
      /\ result' = [result EXCEPT ![l] = "error"]
      /\ UNCHANGED <<wrote, durable, free, open, health>>
  BY DEF BeginFails, EndTx
<1>2. CallerIs(c) /\ TxTypeOK
  BY DEF TxInv
<1>3. d \in {0, 1} /\ result[l] = "none"
  BY <1>1, <1>2 DEF CallerIs
<1>4. l \in Level /\ (d + 1) - 1 = d /\ d \in 0 .. 2 /\ at \in {"idle", "begin", "run", "done"}
  <2>1. d + 1 \in {1, 2} /\ (d + 1) - 1 = d /\ d \in 0 .. 2
    <3>1. d \in {0, 1}
      BY <1>3
    <3> HIDE DEF d
    <3> QED BY <3>1
  <2>2. l \in Level
    BY <2>1, LevelIs
  <2>3. at \in {"done", "run"}
    BY Z3
  <2> QED BY <2>1, <2>2, <2>3
<1>5. /\ tx' \in [TxCaller -> [at : {"idle", "begin", "run", "done"}, depth : 0..2]]
      /\ tx'[c].at = at /\ tx'[c].depth = d
      /\ \A e \in TxCaller \ {c} : tx'[e] = tx[e]
  <2>1. Become(c, at, d)
    BY <1>1, <1>4
  <2> HIDE DEF d, at
  <2> QED BY <1>4, <2>1, OwnStep
<1>6. /\ result' \in [Level -> {"none", "ok", "error", "unknown", "panic"}]
      /\ result'[l] = "error" /\ \A k \in Level \ {l} : result'[k] = result[k]
  BY <1>1, <1>2, <1>4 DEF TxTypeOK
<1>7. Level' = Level
  BY DEF Level
<1>8. l \notin durable
  BY <1>3, <1>4 DEF TxInv, WritesAre
<1>9. ASSUME NEW e \in TxCaller PROVE CallerIs(e)'
  <2>1. CASE e # c
    <3>1. \A n \in {1, 2} : result'[<<e, n>>] = result[<<e, n>>]
      BY <1>6, <2>1, LevelIs
    <3> QED BY <1>5, <2>1, <3>1, OthersStay
  <2>2. CASE e = c
    <3>1. ASSUME NEW n \in {1, 2}, n <= d PROVE result'[<<c, n>>] = "none"
      <4>1. n # d + 1
        BY <1>3, <3>1
      <4>2. <<c, n>> \in Level /\ <<c, n>> # l /\ result[<<c, n>>] = "none"
        BY <1>2, <3>1, <4>1, LevelIs DEF CallerIs
      <4> QED BY <1>6, <4>2
    <3>2. at = "run" => d \in {1, 2}
      BY <1>3
    <3>3. at # "idle" /\ at # "begin"
      OBVIOUS
    <3> HIDE DEF at, d
    <3> QED BY <1>5, <2>2, <3>1, <3>2, <3>3 DEF CallerIs
  <2> QED BY <2>1, <2>2
<1>10. InUse' = InUse
  <2>1. \A e \in TxCaller : tx'[e].depth = tx[e].depth
    BY <1>5
  <2>2. \A k \in Level : result'[k] = "panic" <=> result[k] = "panic"
    BY <1>3, <1>6
  <2> QED BY <1>7, <2>1, <2>2, LevelIs DEF InUse
<1>11. TxTypeOK'
  BY <1>1, <1>2, <1>5, <1>6, <1>7 DEF TxTypeOK
<1>12. ASSUME NEW k \in Level PROVE WritesAre(k)'
  <2>1. CASE k = l
    BY <1>1, <1>6, <1>8, <2>1 DEF WritesAre
  <2>2. CASE k # l
    BY <1>1, <1>6, <2>2 DEF TxInv, WritesAre
  <2> QED BY <2>1, <2>2
<1> QED
  BY <1>1, <1>7, <1>9, <1>10, <1>11, <1>12 DEF TxInv

LEMMA PanicKeeps == ASSUME TxInv, NEW c \in TxCaller, Panic(c) PROVE TxInv'
<1> DEFINE d == tx[c].depth
<1>1. /\ tx[c].at = "run" /\ Become(c, "done", 0)
      /\ result' = [l \in Level |-> IF l[1] = c /\ l[2] <= d THEN "panic" ELSE result[l]]
      /\ UNCHANGED <<wrote, durable, free, open, health>>
  BY DEF Panic
<1>2. CallerIs(c) /\ TxTypeOK
  BY DEF TxInv
<1>3. /\ tx' \in [TxCaller -> [at : {"idle", "begin", "run", "done"}, depth : 0..2]]
      /\ tx'[c].at = "done" /\ tx'[c].depth = 0
      /\ \A e \in TxCaller \ {c} : tx'[e] = tx[e]
  BY <1>1, OwnStep
<1>4. Level' = Level
  BY DEF Level
<1>5. result' \in [Level -> {"none", "ok", "error", "unknown", "panic"}]
  BY <1>1, <1>2 DEF TxTypeOK
<1>6. \A l \in Level : result'[l] = IF l[1] = c /\ l[2] <= d THEN "panic" ELSE result[l]
  BY <1>1
<1>7. ASSUME NEW e \in TxCaller PROVE CallerIs(e)'
  <2>1. CASE e # c
    <3>1. \A n \in {1, 2} : result'[<<e, n>>] = result[<<e, n>>]
      BY <1>6, <2>1, LevelIs
    <3> QED BY <1>3, <2>1, <3>1, OthersStay
  <2>2. CASE e = c
    BY <1>3, <2>2 DEF CallerIs
  <2> QED BY <2>1, <2>2
<1>8. InUse' = InUse
  <2>1. ASSUME NEW k \in Level PROVE k \in InUse' <=> k \in InUse
    <3>1. k[1] \in TxCaller /\ k[2] \in {1, 2}
      BY LevelIs
    <3>2. k \in InUse' <=> k[2] <= tx'[k[1]].depth \/ result'[k] = "panic"
      BY <1>4 DEF InUse
    <3>3. k \in InUse <=> k[2] <= tx[k[1]].depth \/ result[k] = "panic"
      BY DEF InUse
    <3>4. CASE k[1] # c
      BY <1>3, <1>6, <3>1, <3>2, <3>3, <3>4
    <3>5. CASE k[1] = c
      <4>1. ~(k[2] <= 0)
        BY <3>1
      <4> QED BY <1>3, <1>6, <3>2, <3>3, <3>5, <4>1
    <3> QED BY <3>4, <3>5
  <2>2. InUse' \subseteq Level /\ InUse \subseteq Level
    BY <1>4 DEF InUse
  <2> QED BY <2>1, <2>2
<1>9. TxTypeOK'
  BY <1>1, <1>2, <1>3, <1>4, <1>5 DEF TxTypeOK
<1>10. ASSUME NEW k \in Level PROVE WritesAre(k)'
  <2>1. CASE k[1] = c /\ k[2] <= d
    <3>1. k[2] \in {1, 2} /\ k = <<c, k[2]>>
      BY <2>1, LevelIs
    <3>2. result[k] = "none"
      BY <1>2, <2>1, <3>1 DEF CallerIs
    <3>3. k \notin durable
      BY <3>2 DEF TxInv, WritesAre
    <3> QED BY <1>1, <1>6, <2>1, <3>3 DEF WritesAre
  <2>2. CASE ~(k[1] = c /\ k[2] <= d)
    <3>1. result'[k] = result[k]
      BY <1>6, <2>2
    <3> QED BY <1>1, <3>1 DEF TxInv, WritesAre
  <2> QED BY <2>1, <2>2
<1> QED
  BY <1>1, <1>4, <1>7, <1>8, <1>9, <1>10 DEF TxInv

LEMMA WriteInTxKeeps == ASSUME TxInv, NEW c \in TxCaller, WriteInTx(c) PROVE TxInv'
<1> DEFINE l == <<c, tx[c].depth>>
<1>1. /\ tx[c].at = "run" /\ wrote' = wrote \cup {l}
      /\ UNCHANGED <<tx, result, durable, free, open, health>>
  BY DEF WriteInTx
<1>2. CallerIs(c) /\ TxTypeOK
  BY DEF TxInv
<1>3. tx[c].depth \in {1, 2} /\ tx[c].depth <= tx[c].depth
  BY <1>1, <1>2 DEF CallerIs
<1>4. l \in Level /\ result[l] = "none"
  BY <1>2, <1>3, LevelIs DEF CallerIs
<1>5. Level' = Level
  BY DEF Level
<1>6. InUse' = InUse
  BY <1>1, <1>5 DEF InUse
<1>7. ASSUME NEW k \in Level PROVE WritesAre(k)'
  <2>1. WritesAre(k)
    BY DEF TxInv
  <2> HIDE DEF l
  <2> QED BY <1>1, <1>4, <2>1 DEF WritesAre
<1>8. \A e \in TxCaller : CallerIs(e)'
  BY <1>1 DEF TxInv, CallerIs
<1>9. TxTypeOK'
  <2> HIDE DEF l
  <2> QED BY <1>1, <1>2, <1>4, <1>5 DEF TxTypeOK
<1> QED
  BY <1>1, <1>5, <1>6, <1>7, <1>8, <1>9 DEF TxInv

LEMMA CheckHealthKeeps ==
  ASSUME TxInv, UNCHANGED <<tx, result, wrote, durable, free>>, open' \in 0 .. MaxConns,
         health' \in {"none", "healthy", "degraded", "unhealthy"}
  PROVE  TxInv'
<1>1. Level' = Level
  BY DEF Level
<1>2. InUse' = InUse
  BY <1>1 DEF InUse
<1>3. TxTypeOK'
  BY <1>1 DEF TxInv, TxTypeOK
<1>4. \A c \in TxCaller : CallerIs(c)'
  BY DEF TxInv, CallerIs
<1>5. \A l \in Level' : WritesAre(l)'
  BY <1>1 DEF TxInv, WritesAre
<1> QED
  BY <1>2, <1>3, <1>4, <1>5 DEF TxInv

LEMMA TxInitInv == TxInit => TxInv
<1> SUFFICES ASSUME TxInit PROVE TxInv
  OBVIOUS
<1>1. /\ \A c \in TxCaller : tx[c].at = "idle" /\ tx[c].depth = 0
      /\ \A l \in Level : result[l] = "none"
  BY DEF TxInit
<1>2. TxTypeOK
  BY DEF TxInit, TxTypeOK
<1>3. \A c \in TxCaller : CallerIs(c)
  BY <1>1, LevelIs DEF CallerIs
<1>4. \A l \in Level : WritesAre(l)
  BY <1>1 DEF TxInit, WritesAre
<1>5. InUse = {}
  <2>1. \A l \in Level : ~(l[2] <= tx[l[1]].depth) /\ result[l] # "panic"
    BY <1>1, LevelIs
  <2> QED BY <2>1 DEF InUse
<1>6. free = MaxConns - Cardinality(InUse)
  BY <1>5, FS_EmptySet DEF TxInit
<1> QED
  BY <1>2, <1>3, <1>4, <1>6 DEF TxInv

LEMMA TxInvariance == TxSpec => []TxInv
<1>1. TxInit => TxInv
  BY TxInitInv
<1>2. TxInv /\ [TxNext]_txVars => TxInv'
  <2> SUFFICES ASSUME TxInv, [TxNext]_txVars PROVE TxInv'
    OBVIOUS
  <2>1. ASSUME NEW c \in TxCaller, Begin(c) PROVE TxInv'
    BY <2>1, BeginKeeps
  <2>2. ASSUME NEW c \in TxCaller, Begun(c) PROVE TxInv'
    BY <2>2, BegunKeeps
  <2>3. ASSUME NEW c \in TxCaller, BeginFails(c) PROVE TxInv'
    BY <2>3, BeginFailsKeeps
  <2>4. ASSUME NEW c \in TxCaller, WriteInTx(c) PROVE TxInv'
    BY <2>4, WriteInTxKeeps
  <2>5. ASSUME NEW c \in TxCaller, Commit(c) PROVE TxInv'
    <3>1. /\ tx[c].at = "run" /\ free' = free + 1 /\ UNCHANGED <<wrote, open, health>>
          /\ \/ EndTx(c, tx[c].depth, "ok") /\ durable' = durable \cup Own(c)
             \/ EndTx(c, tx[c].depth, "unknown") /\ durable' \in {durable, durable \cup Own(c)}
      BY <2>5 DEF Commit
    <3> QED BY <3>1, EndKeeps
  <2>6. ASSUME NEW c \in TxCaller, Rollback(c) PROVE TxInv'
    BY <2>6, EndKeeps DEF Rollback
  <2>7. ASSUME NEW c \in TxCaller, Panic(c) PROVE TxInv'
    BY <2>7, PanicKeeps
  <2>8. CASE CheckHealth
    <3> DEFINE grown == IF free > 0 /\ Took > open THEN Took ELSE open
    <3>1. PICK ping \in BOOLEAN, query \in BOOLEAN :
            /\ open' = (IF ping \/ query THEN grown ELSE open)
            /\ health' \in {"none", "healthy", "degraded", "unhealthy"}
      BY <2>8 DEF CheckHealth
    <3>2. free \in 0 .. MaxConns /\ open \in 0 .. MaxConns
      BY DEF TxInv, TxTypeOK
    <3>3. grown \in 0 .. MaxConns
      BY <3>2 DEF Took
    <3>4. open' \in 0 .. MaxConns
      <4> HIDE DEF grown
      <4> QED BY <3>1, <3>2, <3>3
    <3>5. UNCHANGED <<tx, result, wrote, durable, free>>
      BY <2>8 DEF CheckHealth
    <3> QED BY <3>1, <3>4, <3>5, CheckHealthKeeps
  <2>9. CASE UNCHANGED txVars
    <3>1. open' \in 0 .. MaxConns /\ health' \in {"none", "healthy", "degraded", "unhealthy"}
      BY <2>9 DEF txVars, TxInv, TxTypeOK
    <3> QED BY <2>9, <3>1, CheckHealthKeeps DEF txVars
  <2> QED BY <2>1, <2>2, <2>3, <2>4, <2>5, <2>6, <2>7, <2>8, <2>9 DEF TxNext
<1> QED
  BY <1>1, <1>2, PTL DEF TxSpec

(* Only what was written is ever committed, at most two transactions of a  *)
(* caller are nested, and what is free and what is open never pass the     *)
(* size of the pool.                                                       *)
THEOREM TxTypesCorrect == TxSpec => []TxTypeOK
<1>1. TxInv => TxTypeOK
  BY DEF TxInv
<1> QED
  BY <1>1, TxInvariance, PTL

(* Transaction of database/query_builder.go: what it returns is what       *)
(* happened to the writes, for nested transactions too, and every          *)
(* connection comes back to the pool unless the function panicked.         *)
THEOREM TransactionsSettle == TxSpec => []TransactionSettles
<1>1. TxInv => TransactionSettles
  BY DEF TxInv, WritesAre, TransactionSettles
<1> QED
  BY <1>1, TxInvariance, PTL

-----------------------------------------------------------------------------
(* Part 4: chunks of a query.                                              *)
HIDE TransactionAssumption
    DEF TransactionAssumption

USE ChunkAssumption DEF ChunkAssumption

Below(s, r) == {q \in s : q < r}

LEMMA BelowIs ==
  ASSUME NEW s \in SUBSET Row, NEW r
  PROVE  /\ IsFiniteSet(s) /\ Cardinality(s) \in Nat
         /\ IsFiniteSet(Below(s, r)) /\ Cardinality(Below(s, r)) \in Nat
         /\ Below(s, r) \subseteq s
<1>1. IsFiniteSet(s)
  BY FS_Subset
<1>2. Below(s, r) \in SUBSET s
  BY DEF Below
<1>3. IsFiniteSet(Below(s, r))
  BY <1>1, <1>2, FS_Subset
<1> QED
  BY <1>1, <1>2, <1>3, FS_CardinalityType

LEMMA BelowGrows ==
  ASSUME NEW s \in SUBSET Row, NEW q \in s, NEW r \in s, q < r
  PROVE  Cardinality(Below(s, q)) < Cardinality(Below(s, r))
<1>1. Below(s, q) \in SUBSET Below(s, r) /\ q \in Below(s, r) /\ q \notin Below(s, q)
  <2>1. q \in Nat /\ r \in Nat /\ \A p \in s : p \in Nat
    OBVIOUS
  <2>2. ~(q < q) /\ \A p \in s : p < q => p < r
    BY <2>1
  <2> QED BY <2>2 DEF Below
<1>2. /\ Cardinality(Below(s, q)) <= Cardinality(Below(s, r))
      /\ Cardinality(Below(s, q)) # Cardinality(Below(s, r))
  BY <1>1, BelowIs, FS_Subset
<1> QED
  BY <1>2, BelowIs

LEMMA LeastIs ==
  ASSUME NEW s \in SUBSET Row, NEW n \in Nat
  PROVE  /\ \A r : r \in Least(s, n) <=> r \in s /\ Cardinality(Below(s, r)) < n
         /\ Least(s, n) \subseteq s /\ IsFiniteSet(Least(s, n))
         /\ Cardinality(Least(s, n)) \in Nat
         /\ Cardinality(Least(s, n)) <= Cardinality(s)
<1>1. \A r : r \in Least(s, n) <=> r \in s /\ Cardinality(Below(s, r)) < n
  BY DEF Least, Below
<1>2. Least(s, n) \in SUBSET s
  BY <1>1
<1> QED
  BY <1>1, <1>2, BelowIs, FS_Subset, FS_CardinalityType

(* What is left out of the n least is above them all, and they are n.       *)
LEMMA LeastAreBelow ==
  ASSUME NEW s \in SUBSET Row, NEW n \in Nat, NEW q \in Least(s, n), NEW r \in s \ Least(s, n)
  PROVE  q < r
<1>1. q \in s /\ r \in s /\ Cardinality(Below(s, q)) < n /\ ~(Cardinality(Below(s, r)) < n)
  BY LeastIs
<1>2. q # r /\ q \in Nat /\ r \in Nat
  BY <1>1
<1>3. CASE r < q
  <2>1. Cardinality(Below(s, r)) < Cardinality(Below(s, q))
    BY <1>1, <1>3, BelowGrows
  <2> QED BY <1>1, <2>1, BelowIs
<1> QED
  BY <1>2, <1>3

LEMMA LeastAreSome ==
  ASSUME NEW s \in SUBSET Row, s # {}, NEW k \in Nat \ {0}
  PROVE  Least(s, k) # {}
<1>1. PICK r \in s : \A q \in s : r <= q
  BY LeastNat
<1>2. Below(s, r) = {}
  <2>1. \A q \in s : q \in Nat
    OBVIOUS
  <2>2. \A q \in s : ~(q < r)
    BY <1>1, <2>1
  <2> QED BY <2>2 DEF Below
<1>3. Cardinality(Below(s, r)) = 0
  BY <1>2, FS_EmptySet
<1> QED
  BY <1>3, LeastIs

LEMMA LeastAreMany ==
  ASSUME NEW s \in SUBSET Row, NEW n \in Nat, s \ Least(s, n) # {}
  PROVE  Cardinality(Least(s, n)) = n
<1> DEFINE A == Least(s, n)
<1>1. A \subseteq s /\ A \subseteq Nat /\ Cardinality(A) \in Nat
  BY LeastIs
<1>2. PICK r \in s \ A : \A q \in s \ A : r <= q
  <2>1. s \ A \subseteq Nat
    OBVIOUS
  <2> QED BY <2>1, LeastNat
<1>3. Below(s, r) = A
  <2>1. \A q \in A : q < r
    BY <1>2, LeastAreBelow
  <2>2. \A q \in s : q < r => q \in A
    BY <1>2
  <2> QED BY <1>1, <2>1, <2>2 DEF Below
<1>4. ~(Cardinality(A) < n)
  BY <1>2, <1>3, LeastIs
<1>5. Cardinality(A) <= n
  <2>1. CASE A = {}
    BY <2>1, FS_EmptySet
  <2>2. CASE A # {}
    <3> DEFINE T == {n - Cardinality(Below(s, q)) : q \in A}
    <3>1. \A q \in A : /\ Cardinality(Below(s, q)) \in Nat
                       /\ Cardinality(Below(s, q)) < n
      BY <1>1, BelowIs, LeastIs
    <3>2. T \subseteq Nat /\ T # {}
      BY <2>2, <3>1
    <3>3. PICK t \in T : \A u \in T : t <= u
      BY <3>2, LeastNat
    <3>4. PICK m \in A : t = n - Cardinality(Below(s, m))
      OBVIOUS
    <3>5. \A q \in A : Cardinality(Below(s, q)) <= Cardinality(Below(s, m))
      <4> SUFFICES ASSUME NEW q \in A
                   PROVE  Cardinality(Below(s, q)) <= Cardinality(Below(s, m))
        OBVIOUS
      <4>1. n - Cardinality(Below(s, m)) <= n - Cardinality(Below(s, q))
        BY <3>3, <3>4
      <4> QED BY <3>1, <4>1
    <3>6. \A q \in A : ~(m < q)
      <4> SUFFICES ASSUME NEW q \in A, m < q PROVE FALSE
        OBVIOUS
      <4>1. Cardinality(Below(s, m)) < Cardinality(Below(s, q))
        BY <1>1, BelowGrows
      <4> QED BY <3>1, <3>5, <4>1
    <3>7. A \subseteq Below(s, m) \cup {m}
      BY <1>1, <3>6 DEF Below
    <3>8. /\ IsFiniteSet(Below(s, m) \cup {m}) /\ m \notin Below(s, m)
          /\ Cardinality(Below(s, m) \cup {m}) = Cardinality(Below(s, m)) + 1
      <4>1. m \notin Below(s, m)
        BY <1>1 DEF Below
      <4> QED BY <4>1, BelowIs, FS_AddElement
    <3>9. Cardinality(A) <= Cardinality(Below(s, m) \cup {m})
      BY <3>7, <3>8, FS_Subset
    <3> QED BY <1>1, <3>1, <3>8, <3>9
  <2> QED BY <2>1, <2>2
<1> QED
  BY <1>1, <1>4, <1>5

(* The n least and the k least of the others are the n + k least.           *)
LEMMA LeastAdd ==
  ASSUME NEW s \in SUBSET Row, NEW n \in Nat, NEW k \in Nat
  PROVE  Least(s, n) \cup Least(s \ Least(s, n), k) = Least(s, n + k)
<1> DEFINE A == Least(s, n)
           B == s \ A
<1> n + k \in Nat
  OBVIOUS
<1>1. A \subseteq s /\ B \in SUBSET Row /\ IsFiniteSet(A) /\ Cardinality(A) \in Nat
  BY LeastIs
<1>2. ASSUME NEW r \in A PROVE r \in Least(s, n + k)
  <2>1. Cardinality(Below(s, r)) < n /\ Cardinality(Below(s, r)) \in Nat
    BY LeastIs, BelowIs
  <2>2. Cardinality(Below(s, r)) < n + k
    BY <2>1
  <2> QED BY <1>1, <2>2, LeastIs
<1>3. ASSUME NEW r \in B PROVE r \in Least(B, k) <=> r \in Least(s, n + k)
  <2>1. Cardinality(A) = n
    BY LeastAreMany
  <2>2. Below(s, r) = A \cup Below(B, r) /\ A \cap Below(B, r) = {}
    <3>1. \A q \in A : q < r
      BY LeastAreBelow
    <3> QED BY <1>1, <3>1 DEF Below
  <2>3. IsFiniteSet(Below(B, r)) /\ Cardinality(Below(B, r)) \in Nat
    BY <1>1, BelowIs
  <2>4. Cardinality(Below(s, r)) = n + Cardinality(Below(B, r))
    <3>1. Cardinality(Below(s, r))
            = Cardinality(A) + Cardinality(Below(B, r)) - Cardinality(A \cap Below(B, r))
      BY <1>1, <2>2, <2>3, FS_Union
    <3>2. Cardinality(A \cap Below(B, r)) = 0
      BY <2>2, FS_EmptySet
    <3> QED BY <2>1, <2>3, <3>1, <3>2
  <2>5. Cardinality(Below(B, r)) < k <=> Cardinality(Below(s, r)) < n + k
    BY <2>3, <2>4
  <2>6. r \in Least(B, k) <=> Cardinality(Below(B, r)) < k
    BY <1>1, LeastIs
  <2>7. r \in Least(s, n + k) <=> Cardinality(Below(s, r)) < n + k
    BY LeastIs
  <2> QED BY <2>5, <2>6, <2>7
<1>4. Least(B, k) \subseteq B /\ Least(s, n + k) \subseteq s
  <2> HIDE DEF B
  <2> QED BY <1>1, LeastIs
<1> HIDE DEF A, B
<1>5. \A r \in s : r \in A \/ r \in B
  BY DEF A, B
<1>6. A \cup Least(B, k) = Least(s, n + k)
  BY <1>1, <1>2, <1>3, <1>4, <1>5
<1> QED
  BY <1>6 DEF A, B

(* What the loop has given to the callback lies before its offset, and the *)
(* page that it holds comes next: all of both, if no reading has failed.   *)
Selected == rows \cap builder.selects
Visited == {r \in Row : visits[r] > 0}

Before == Least(Selected, chunk.offset)
Following == Least(Selected \ Before, ChunkSize)

ChunkRunning == chunk.at \in {"peek", "fetch", "call"}

Paged ==
  /\ \A r \in Row : visits[r] <= 1
  /\ ChunkRunning => /\ Visited \subseteq Before
                     /\ ~broken => Visited = Before
  /\ chunk.at = "call" => /\ page \subseteq Following
                          /\ ~broken => page = Following
  /\ Visited \subseteq Selected
  /\ chunk.at = "done" /\ ~broken => Visited = Selected

ChunkTyped ==
  /\ method \in {"Chunk", "ChunkByID"}
  /\ builder \in [selects : SUBSET Row, total : BOOLEAN, err : BOOLEAN]
  /\ rows \subseteq Row /\ page \subseteq Row
  /\ chunk \in [at : {"peek", "fetch", "call", "done", "stopped", "failed"}, offset : Nat]
  /\ visits \in [Row -> 0 .. MaxVisits] /\ changes \in 0 .. MaxChanges + 1
  /\ broken \in BOOLEAN

(* A page is looked for when the one before was full or not the last.       *)
OffsetBounded ==
  /\ chunk.offset <= Cardinality(Row) + ChunkSize
  /\ chunk.at \in {"fetch", "call"} => chunk.offset <= Cardinality(Row)
  /\ method = "ChunkByID" => chunk.offset = 0

ChunkInv ==
  /\ ChunkTyped
  /\ OffsetBounded
  /\ method = "Chunk" /\ Quiet => Paged

LEMMA ChunkTypes == ChunkInv => ChunkTypeOK
  BY FS_CardinalityType DEF ChunkInv, ChunkTyped, OffsetBounded, ChunkTypeOK

LEMMA PagedIs == ChunkInv => ChunkVisitsOnce
<1> SUFFICES ASSUME ChunkInv, method = "Chunk", Quiet PROVE ChunkVisitsOnce
  BY DEF ChunkVisitsOnce
<1>1. Paged
  BY DEF ChunkInv
<1>2. CASE ChunkRunning
  BY <1>1, <1>2 DEF Paged, ChunkVisitsOnce, Selected, Visited, ChunkRunning, Before
<1>3. CASE ~ChunkRunning
  BY <1>1, <1>3 DEF Paged, ChunkVisitsOnce, Selected, Visited, ChunkRunning
<1> QED
  BY <1>2, <1>3

LEMMA ChunkInitInv == ChunkInit => ChunkInv
<1> SUFFICES ASSUME ChunkInit PROVE ChunkInv
  OBVIOUS
<1>1. ChunkTyped /\ chunk = [at |-> "peek", offset |-> 0] /\ \A r \in Row : visits[r] = 0
  <2>1. /\ method \in {"Chunk", "ChunkByID"} /\ rows \subseteq Row /\ page \subseteq Row
        /\ builder \in [selects : SUBSET Row, total : BOOLEAN, err : BOOLEAN]
    BY DEF ChunkInit
  <2>2. /\ visits \in [Row -> 0 .. MaxVisits] /\ changes \in 0 .. MaxChanges + 1
        /\ chunk = [at |-> "peek", offset |-> 0] /\ \A r \in Row : visits[r] = 0
    BY DEF ChunkInit
  <2>3. broken \in BOOLEAN
    BY DEF ChunkInit
  <2> QED BY <2>1, <2>2, <2>3 DEF ChunkTyped
<1>2. OffsetBounded
  BY <1>1, FS_CardinalityType DEF OffsetBounded
<1>3. Selected \in SUBSET Row /\ Visited = {}
  <2>1. \A r \in Row : ~(visits[r] > 0)
    BY <1>1
  <2>2. rows \subseteq Row
    BY <1>1 DEF ChunkTyped
  <2> QED BY <2>1, <2>2 DEF Selected, Visited
<1>4. Least(Selected, 0) = {}
  <2>1. \A r : r \notin Least(Selected, 0)
    <3>1. \A r : /\ Cardinality(Below(Selected, r)) \in Nat
                 /\ r \in Least(Selected, 0) <=> r \in Selected /\ Cardinality(Below(Selected, r)) < 0
      BY <1>3, BelowIs, LeastIs
    <3> QED BY <3>1
  <2> QED BY <2>1
<1>5. Paged
  BY <1>1, <1>3, <1>4 DEF Paged, Before
<1> QED
  BY <1>1, <1>2, <1>5 DEF ChunkInv

(* What the result of a query in a total order is.                          *)
LEMMA PageIs ==
  ASSUME ChunkInv, method = "Chunk", builder.total, NEW p \in Pages
  PROVE  p = Following
  BY DEF Pages, Selected, Following, Before

LEMMA PagesAre ==
  ASSUME ChunkInv, NEW p \in Pages
  PROVE  /\ p \in SUBSET Row
         /\ method = "Chunk" /\ p # {} => chunk.offset <= Cardinality(Row)
<1>1. Selected \in SUBSET Row /\ chunk.offset \in Nat
  BY DEF ChunkInv, ChunkTyped, Selected
<1> DEFINE skipped == IF method = "Chunk" THEN chunk.offset ELSE 0
           rest == Selected \ Least(Selected, skipped)
           size(s) == IF Cardinality(s) < ChunkSize THEN Cardinality(s) ELSE ChunkSize
<1>2. skipped \in Nat
  BY <1>1
<1>3. rest \in SUBSET Row
  BY <1>1
<1>4. \/ p = Least(rest, ChunkSize)
      \/ p \in SUBSET Selected /\ Cardinality(p) = size(rest)
  BY DEF Pages, Selected
<1>5. p \in SUBSET Row
  <2> HIDE DEF rest
  <2> QED BY <1>1, <1>3, <1>4, LeastIs, ZenonT(60)
<1>6. ASSUME method = "Chunk", p # {} PROVE chunk.offset <= Cardinality(Row)
  <2>1. rest # {}
    <3> SUFFICES ASSUME rest = {} PROVE FALSE
      OBVIOUS
    <3>1. CASE p = Least(rest, ChunkSize)
      <4> HIDE DEF rest
      <4> QED BY <1>3, <1>6, <3>1, LeastIs
    <3>2. CASE p \in SUBSET Selected /\ Cardinality(p) = size(rest)
      <4>1. Cardinality(rest) = 0
        BY FS_EmptySet
      <4>2. Cardinality(p) = 0
        <5> HIDE DEF rest
        <5> QED BY <3>2, <4>1
      <4>3. IsFiniteSet(p)
        BY <1>5, FS_Subset
      <4> QED BY <1>6, <4>2, <4>3, FS_EmptySet
    <3> QED BY <1>4, <3>1, <3>2
  <2>2. Cardinality(Least(Selected, skipped)) = skipped
    BY <1>1, <1>2, <2>1, LeastAreMany
  <2>3. Cardinality(Least(Selected, skipped)) <= Cardinality(Selected)
    BY <1>1, <1>2, LeastIs
  <2>4. Cardinality(Selected) <= Cardinality(Row) /\ Cardinality(Selected) \in Nat /\ Cardinality(Row) \in Nat
    BY <1>1, BelowIs, FS_Subset, FS_CardinalityType
  <2>5. skipped = chunk.offset
    BY <1>6
  <2> HIDE DEF skipped
  <2> QED BY <1>1, <2>2, <2>3, <2>4, <2>5
<1> QED
  BY <1>5, <1>6

LEMMA CardinalityOfRow == Cardinality(Row) \in Nat
  BY FS_CardinalityType

LEMMA QueryKeeps ==
  ASSUME ChunkInv, NEW at \in {"peek", "fetch"}, NEW empty, NEW some, Query(at, empty, some),
         \/ at = "peek" /\ empty = "done" /\ some = "fetch"
         \/ at = "fetch" /\ empty = "call" /\ some = "call"
  PROVE  ChunkInv'
<1>1. ChunkTyped /\ OffsetBounded /\ UNCHANGED <<method, builder, rows, visits, changes>> /\ chunk.at = at
  BY DEF ChunkInv, Query
<1>2. CASE chunk' = [chunk EXCEPT !.at = "failed"] /\ page' = {} /\ UNCHANGED broken
  <2>1. chunk'.at = "failed" /\ chunk'.offset = chunk.offset
    BY <1>1, <1>2 DEF ChunkTyped
  <2>2. ChunkTyped'
    BY <1>1, <1>2 DEF ChunkTyped
  <2>3. OffsetBounded'
    BY <1>1, <2>1 DEF OffsetBounded
  <2>4. ASSUME method = "Chunk", Quiet PROVE Paged'
    <3>1. Paged
      BY <2>4 DEF ChunkInv
    <3> QED BY <1>1, <1>2, <2>1, <3>1 DEF Paged, ChunkRunning, Selected, Visited
  <2> QED BY <1>1, <2>2, <2>3, <2>4 DEF ChunkInv, Quiet
<1>3. ASSUME NEW p \in Pages, NEW got \in SUBSET p, page' = got,
             broken' = (broken \/ got # p),
             chunk' = [chunk EXCEPT !.at = IF got = {} THEN empty ELSE some]
      PROVE  ChunkInv'
  <2>1. /\ chunk'.at = (IF got = {} THEN empty ELSE some) /\ chunk'.offset = chunk.offset
        /\ chunk'.at \in {"done", "fetch", "call"}
    BY <1>1, <1>3 DEF ChunkTyped
  <2>2. got \in SUBSET Row /\ (method = "Chunk" /\ got # {} => chunk.offset <= Cardinality(Row))
    BY PagesAre
  <2>3. ChunkTyped'
    <3>1. chunk' \in [at : {"peek", "fetch", "call", "done", "stopped", "failed"}, offset : Nat]
      BY <1>1, <1>3 DEF ChunkTyped
    <3>2. broken' \in BOOLEAN
      BY <1>3
    <3> QED BY <1>1, <1>3, <2>2, <3>1, <3>2 DEF ChunkTyped
  <2>4. OffsetBounded'
    <3>1. method = "ChunkByID" => chunk.offset <= Cardinality(Row)
      BY <1>1, CardinalityOfRow DEF OffsetBounded
    <3>2. at = "fetch" => chunk.offset <= Cardinality(Row)
      BY <1>1 DEF OffsetBounded
    <3>3. chunk'.at \in {"fetch", "call"} => chunk.offset <= Cardinality(Row)
      BY <1>1, <2>1, <2>2, <3>1, <3>2 DEF ChunkTyped
    <3> QED BY <1>1, <2>1, <3>3 DEF OffsetBounded
  <2>5. ASSUME method = "Chunk", Quiet PROVE Paged'
    <3>1. Paged /\ builder.total
      BY <2>5 DEF ChunkInv, Quiet
    <3>2. p = Following
      BY <2>5, <3>1, PageIs
    <3>3. Selected' = Selected /\ Visited' = Visited /\ Before' = Before /\ Following' = Following
      BY <1>1, <2>1 DEF Selected, Visited, Before, Following
    <3>4. Visited \subseteq Before /\ (~broken => Visited = Before)
      BY <1>1, <3>1 DEF Paged, ChunkRunning
    <3>5. Selected \in SUBSET Row /\ chunk.offset \in Nat
      BY <1>1 DEF ChunkTyped, Selected
    <3>6. got \subseteq Following /\ (~broken' => ~broken /\ got = Following)
      BY <1>3, <3>2
    <3>7. chunk'.at = "done" /\ ~broken' => Visited = Selected
      <4> SUFFICES ASSUME chunk'.at = "done", ~broken' PROVE Visited = Selected
        OBVIOUS
      <4>1. Following = {}
        BY <2>1, <3>6
      <4>2. Selected \ Before = {}
        BY <3>5, <4>1, LeastAreSome DEF Following
      <4>3. Before \subseteq Selected
        BY <3>5, LeastIs DEF Before
      <4> QED BY <3>4, <3>6, <4>2, <4>3
    <3>8. Visited' \subseteq Before' /\ (~broken' => Visited' = Before')
      BY <3>3, <3>4, <3>6
    <3>9. page' \subseteq Following' /\ (~broken' => page' = Following')
      BY <1>3, <3>3, <3>6
    <3>10. chunk'.at = "done" /\ ~broken' => Visited' = Selected'
      BY <3>3, <3>7
    <3>11. Visited' \subseteq Selected' /\ \A r \in Row : visits'[r] <= 1
      BY <1>1, <3>1, <3>3 DEF Paged
    <3> HIDE DEF Before, Following, Selected, Visited
    <3> QED BY <3>8, <3>9, <3>10, <3>11 DEF Paged
  <2> QED BY <1>1, <2>3, <2>4, <2>5 DEF ChunkInv, Quiet
<1> QED
  BY <1>2, <1>3 DEF Query

LEMMA CallbackKeeps == ASSUME ChunkInv, Callback PROVE ChunkInv'
<1>1. ChunkTyped /\ OffsetBounded /\ chunk.at = "call" /\ page' = {} /\ UNCHANGED <<method, builder, broken>>
  BY DEF ChunkInv, Callback
<1>2. visits' = [r \in Row |-> IF r \in page /\ visits[r] < MaxVisits
                              THEN visits[r] + 1 ELSE visits[r]]
  BY DEF Callback
<1>3. \/ UNCHANGED <<rows, changes>>
      \/ rows' = rows \ page /\ changes' = MaxChanges + 1
  BY DEF Callback
<1>4. \/ chunk' = [at |-> "peek",
                   offset |-> IF method = "Chunk" THEN chunk.offset + ChunkSize ELSE 0]
      \/ chunk' = [chunk EXCEPT !.at = "stopped"]
  BY DEF Callback
<1>5. visits' \in [Row -> 0 .. MaxVisits]
  <2>1. \A r \in Row : visits[r] \in 0 .. MaxVisits
    BY <1>1 DEF ChunkTyped
  <2>2. \A r \in Row : (IF r \in page /\ visits[r] < MaxVisits
                        THEN visits[r] + 1 ELSE visits[r]) \in 0 .. MaxVisits
    BY <2>1
  <2> QED BY <1>2, <2>2
<1>6. /\ chunk' \in [at : {"peek", "fetch", "call", "done", "stopped", "failed"}, offset : Nat]
      /\ \/ /\ chunk'.at = "peek"
            /\ chunk'.offset = IF method = "Chunk" THEN chunk.offset + ChunkSize ELSE 0
         \/ chunk'.at = "stopped" /\ chunk'.offset = chunk.offset
  BY <1>1, <1>4 DEF ChunkTyped
<1>7. ChunkTyped'
  <2>1. rows' \subseteq Row /\ changes' \in 0 .. MaxChanges + 1
    <3>1. rows \subseteq Row /\ changes \in 0 .. MaxChanges + 1
      BY <1>1 DEF ChunkTyped
    <3>2. MaxChanges + 1 \in 0 .. MaxChanges + 1
      OBVIOUS
    <3> QED BY <1>3, <3>1, <3>2
  <2>2. page' \subseteq Row
    BY <1>1
  <2> QED BY <1>1, <1>5, <1>6, <2>1, <2>2 DEF ChunkTyped
<1>8. OffsetBounded'
  <2>1. chunk.offset <= Cardinality(Row) /\ chunk.offset \in Nat
    BY <1>1 DEF OffsetBounded, ChunkTyped
  <2>2. chunk'.at \notin {"fetch", "call"}
    BY <1>6
  <2>3. chunk'.offset <= Cardinality(Row) + ChunkSize
    BY <1>6, <2>1, CardinalityOfRow
  <2>4. method' = "ChunkByID" => chunk'.offset = 0
    BY <1>1, <1>6 DEF OffsetBounded
  <2> QED BY <2>2, <2>3, <2>4 DEF OffsetBounded
<1>9. ASSUME method' = "Chunk", Quiet' PROVE Paged'
  <2>1. UNCHANGED <<rows, changes>> /\ Quiet /\ method = "Chunk"
    BY <1>1, <1>3, <1>9 DEF Quiet
  <2>2. Paged
    BY <2>1 DEF ChunkInv
  <2> DEFINE n == chunk.offset
  <2>3. /\ Visited \subseteq Before /\ page \subseteq Following
        /\ ~broken => Visited = Before /\ page = Following
        /\ Selected' = Selected /\ Selected \in SUBSET Row /\ n \in Nat
    BY <1>1, <2>1, <2>2 DEF Paged, ChunkRunning, Selected, ChunkTyped
  <2>4. page \subseteq Selected \ Visited
    <3>1. Following \subseteq Selected \ Before
      BY <2>3, LeastIs DEF Following
    <3> QED BY <2>3, <3>1
  <2>5. \A r \in Row : visits[r] \in {0, 1} /\ (r \in Visited <=> visits[r] = 1)
    <3>1. \A r \in Row : visits[r] \in 0 .. MaxVisits /\ visits[r] <= 1
      BY <1>1, <2>2 DEF ChunkTyped, Paged
    <3>2. \A r \in Row : visits[r] \in {0, 1} /\ (visits[r] > 0 <=> visits[r] = 1)
      BY <3>1
    <3> QED BY <3>2 DEF Visited
  <2>6. ASSUME NEW r \in Row
        PROVE  visits'[r] = IF r \in page THEN 1 ELSE visits[r]
    <3>1. CASE r \in page
      <4>1. visits[r] = 0
        BY <2>4, <2>5, <3>1
      <4>2. visits'[r] = IF visits[r] < MaxVisits THEN visits[r] + 1 ELSE visits[r]
        BY <1>2, <3>1
      <4> QED BY <3>1, <4>1, <4>2
    <3>2. CASE r \notin page
      BY <1>2, <3>2
    <3> QED BY <3>1, <3>2
  <2>7. Visited' = Visited \cup page /\ \A r \in Row : visits'[r] <= 1
    <3>1. \A r \in Row : visits'[r] <= 1 /\ (visits'[r] > 0 <=> r \in Visited \/ r \in page)
      BY <2>5, <2>6
    <3>2. page \subseteq Row
      BY <1>1 DEF ChunkTyped
    <3> QED BY <3>1, <3>2 DEF Visited
  <2>8. Visited' \subseteq Selected
    BY <2>2, <2>4, <2>7 DEF Paged
  <2>9. chunk'.at = "peek" => /\ Visited' \subseteq Before'
                              /\ ~broken => Visited' = Before'
    <3>1. SUFFICES ASSUME chunk'.at = "peek"
                   PROVE  Visited' \subseteq Before' /\ (~broken => Visited' = Before')
      OBVIOUS
    <3>2. Before \cup Following = Least(Selected, n + ChunkSize)
      <4>1. Least(Selected, n) \cup Least(Selected \ Least(Selected, n), ChunkSize)
              = Least(Selected, n + ChunkSize)
        BY <2>3, LeastAdd
      <4> QED BY <4>1 DEF Before, Following
    <3>3. Before' = Least(Selected, n + ChunkSize)
      BY <1>6, <2>1, <2>3, <3>1 DEF Before
    <3> QED BY <2>3, <2>7, <3>2, <3>3
  <2>10. chunk'.at \in {"peek", "stopped"} /\ broken' = broken
    BY <1>1, <1>6
  <2> QED BY <2>3, <2>7, <2>8, <2>9, <2>10 DEF Paged, ChunkRunning
<1> QED
  BY <1>7, <1>8, <1>9 DEF ChunkInv

LEMMA ChangeKeeps == ASSUME ChunkInv, Change PROVE ChunkInv'
<1>1. /\ ChunkTyped /\ OffsetBounded /\ changes < MaxChanges /\ changes' = changes + 1
      /\ UNCHANGED <<method, builder, chunk, page, visits, broken>>
  BY DEF ChunkInv, Change
<1>2. changes \in 0 .. MaxChanges + 1 /\ changes' \in 0 .. MaxChanges + 1 /\ changes' # 0
  BY <1>1 DEF ChunkTyped
<1>3. ~Quiet'
  BY <1>2 DEF Quiet
<1>4. rows' \subseteq Row
  BY DEF ChunkInv, ChunkTyped, Change
<1> QED
  BY <1>1, <1>2, <1>3, <1>4 DEF ChunkInv, ChunkTyped, OffsetBounded

LEMMA ChunkNextKeeps == ChunkInv /\ [ChunkNext]_chunkVars => ChunkInv'
<1> SUFFICES ASSUME ChunkInv, [ChunkNext]_chunkVars PROVE ChunkInv'
  OBVIOUS
<1>1. CASE Peek
  BY <1>1, QueryKeeps DEF Peek
<1>2. CASE Fetch
  BY <1>2, QueryKeeps DEF Fetch
<1>3. CASE Callback
  BY <1>3, CallbackKeeps
<1>4. CASE Change
  BY <1>4, ChangeKeeps
<1>5. CASE UNCHANGED chunkVars
  BY <1>5 DEF chunkVars, ChunkInv, ChunkTyped, OffsetBounded, Paged, Quiet, Selected, Visited,
              ChunkRunning, Before, Following
<1> QED
  BY <1>1, <1>2, <1>3, <1>4, <1>5 DEF ChunkNext

LEMMA ChunkInvariance == ChunkSpec => []ChunkInv
  BY ChunkInitInv, ChunkNextKeeps, PTL DEF ChunkSpec

(* A loop over a query never runs past its rows by more than one chunk,    *)
(* whatever is deleted or inserted under it, for any rows and chunk size.  *)
THEOREM ChunkTypesCorrect == ChunkSpec => []ChunkTypeOK
  BY ChunkInvariance, ChunkTypes, PTL

(* Chunk of database/query_builder.go gives no row of a query in a total   *)
(* order to its callback twice, as long as nobody changes the table, and   *)
(* every selected one by the time it ends with an empty page, unless the   *)
(* reading of a result failed: that ends the loop as well, without error.  *)
THEOREM ChunkOnce == ChunkSpec => []ChunkVisitsOnce
  BY ChunkInvariance, PagedIs, PTL

(* ChunkByID asks for ids above lastID, which stays 0: every round returns  *)
(* the same first page, or what could be read of it.                        *)
FirstPage == Least(Selected, ChunkSize)

ByIDRereads ==
  method = "ChunkByID" /\ Quiet =>
    /\ Visited \subseteq FirstPage
    /\ chunk.at = "call" => page \subseteq FirstPage
    /\ chunk.at = "done" => Selected = {} \/ broken

LEMMA LeastNone == ASSUME NEW s \in SUBSET Row PROVE Least(s, 0) = {}
<1>1. \A r : r \notin Least(s, 0)
  <2>1. \A r : /\ Cardinality(Below(s, r)) \in Nat
               /\ r \in Least(s, 0) <=> r \in s /\ Cardinality(Below(s, r)) < 0
    BY BelowIs, LeastIs
  <2> QED BY <2>1
<1> QED
  BY <1>1

LEMMA RereadStep ==
  ASSUME ChunkInv, ByIDRereads, [ChunkNext]_chunkVars
  PROVE  ByIDRereads'
<1>1. ChunkTyped /\ Selected \in SUBSET Row
  BY DEF ChunkInv, ChunkTyped, Selected
<1>2. ASSUME NEW at, NEW empty, NEW some, Query(at, empty, some),
             \/ at = "peek" /\ empty = "done" /\ some = "fetch"
             \/ at = "fetch" /\ empty = "call" /\ some = "call"
      PROVE  ByIDRereads'
  <2>1. SUFFICES ASSUME method' = "ChunkByID", Quiet' PROVE ByIDRereads'
    BY DEF ByIDRereads
  <2>2. UNCHANGED <<method, builder, rows, visits, changes>> /\ Quiet /\ method = "ChunkByID"
    BY <1>2, <2>1 DEF Query, Quiet
  <2>3. Selected' = Selected /\ Visited' = Visited /\ FirstPage' = FirstPage
    BY <2>2 DEF Selected, Visited, FirstPage
  <2>4. Visited \subseteq FirstPage
    BY <2>2 DEF ByIDRereads
  <2>5. CASE chunk' = [chunk EXCEPT !.at = "failed"]
    <3>1. chunk'.at = "failed"
      BY <1>1, <2>5 DEF ChunkTyped
    <3> QED BY <2>3, <2>4, <3>1 DEF ByIDRereads
  <2>6. ASSUME NEW p \in Pages, NEW got \in SUBSET p, page' = got,
               broken' = (broken \/ got # p),
               chunk' = [chunk EXCEPT !.at = IF got = {} THEN empty ELSE some]
        PROVE  ByIDRereads'
    <3>1. p = FirstPage
      <4>1. p = Least(Selected \ Least(Selected, 0), ChunkSize)
        BY <2>2 DEF Pages, Selected, Quiet
      <4>2. Selected \ Least(Selected, 0) = Selected
        BY <1>1, LeastNone
      <4> QED BY <4>1, <4>2 DEF FirstPage
    <3>2. chunk'.at = IF got = {} THEN empty ELSE some
      BY <1>1, <2>6 DEF ChunkTyped
    <3>3. chunk'.at = "done" => Selected = {} \/ broken'
      <4>1. SUFFICES ASSUME chunk'.at = "done", ~broken' PROVE Selected = {}
        OBVIOUS
      <4>2. p = {}
        BY <1>2, <2>6, <3>2, <4>1
      <4> QED BY <1>1, <3>1, <4>2, LeastAreSome DEF FirstPage
    <3> QED BY <2>3, <2>4, <2>6, <3>1, <3>3 DEF ByIDRereads
  <2> QED BY <1>2, <2>5, <2>6 DEF Query
<1>3. CASE Callback
  <2>1. SUFFICES ASSUME method' = "ChunkByID", Quiet' PROVE ByIDRereads'
    BY DEF ByIDRereads
  <2>2. changes \in 0 .. MaxChanges + 1 /\ MaxChanges + 1 # 0
    BY <1>1 DEF ChunkTyped
  <2>3. /\ UNCHANGED <<method, builder, rows, changes>> /\ Quiet /\ method = "ChunkByID"
        /\ chunk.at = "call"
    BY <1>3, <2>1, <2>2 DEF Callback, Quiet
  <2>4. Visited \subseteq FirstPage /\ page \subseteq FirstPage
    BY <2>3 DEF ByIDRereads
  <2>5. Selected' = Selected /\ FirstPage' = FirstPage
    BY <2>3 DEF Selected, FirstPage
  <2>6. \A r \in Row : visits'[r] > 0 => r \in page \/ visits[r] > 0
    BY <1>3 DEF Callback
  <2>7. Visited' \subseteq FirstPage
    BY <2>4, <2>6 DEF Visited
  <2>8. chunk'.at \in {"peek", "stopped"}
    BY <1>1, <1>3 DEF Callback, ChunkTyped
  <2> QED BY <2>5, <2>7, <2>8 DEF ByIDRereads
<1>4. CASE Change
  <2>1. changes \in Nat /\ changes' = changes + 1
    BY <1>1, <1>4 DEF Change, ChunkTyped
  <2> QED BY <2>1 DEF ByIDRereads, Quiet
<1>5. CASE UNCHANGED chunkVars
  BY <1>5 DEF chunkVars, ByIDRereads, Quiet, Selected, Visited, FirstPage
<1> QED
  BY <1>2, <1>3, <1>4, <1>5 DEF ChunkNext, Peek, Fetch

(* Over a table that stands still, by a column without ties, ChunkByID gives *)
(* the callback rows of the first page and no other, and ends by itself only *)
(* if no row is selected or the reading of a result failed: the code behind  *)
(* the run that finds a row visited twice, for any rows and any chunk size.  *)
THEOREM ByIDNeverAdvances == ChunkSpec => []ByIDRereads
<1>1. ChunkInit => ByIDRereads
  <2>1. ChunkInit => chunk.at = "peek" /\ \A r \in Row : ~(visits[r] > 0)
    BY DEF ChunkInit
  <2> QED BY <2>1 DEF ByIDRereads, Visited
<1> QED
  BY <1>1, RereadStep, ChunkInvariance, PTL DEF ChunkSpec

-----------------------------------------------------------------------------
(* Part 5: the metrics.                                                    *)
HIDE ChunkAssumption
    DEF ChunkAssumption

USE MetricsAssumption DEF MetricsAssumption

(* The requests that a place of the middleware counts, or is yet to count. *)
Active == Served \ In({"idle"})
Accepting == In({"handler", "total"})
Recorded == In({"observe", "buckets", "status"})
Uncounted == In({"total"})
Unobserved == In({"observe"})
Unanswered == In({"buckets"})
Expected(b) == {s \in In({"total", "observe", "buckets"}) : b \in handled[s].todo}
Filling(b) == {s \in In({"buckets"}) : b \in handled[s].todo}

Handling ==
  [at : {"idle", "handler", "total", "observe", "buckets", "status"},
   status : Statuses, duration : Duration, todo : SUBSET Bound]

MetricsTyped ==
  /\ {RequestsTotal, ResponseStatusCodes, ErrorsTotal, ActiveConnections, count} \subseteq Nat
  /\ inBucket \in [Bound -> Nat]
  /\ handled \in [Served -> Handling]
  /\ returned \in [Duration -> Nat]

(* Each counter and those that have still to count in it.                  *)
Sums ==
  /\ ActiveConnections = Cardinality(Active)
  /\ RequestsTotal + Cardinality(Accepting) <= MaxServed
  /\ Cardinality(Recorded) <= RequestsTotal
  /\ RequestsTotal + Cardinality(Uncounted) = returned[Longest]
  /\ count + Cardinality(Unobserved) = RequestsTotal
  /\ ResponseStatusCodes + ErrorsTotal + Cardinality(Unanswered) <= count

BucketSum(b) ==
  /\ inBucket[b] + Cardinality(Expected(b)) = returned[b]
  /\ inBucket[b] + Cardinality(Filling(b)) <= count
  /\ returned[b] <= returned[Longest]

(* What the reader has seen of a bucket is no more than what is there.     *)
EndpointIs ==
  /\ endpoint \in [at : {"idle", "buckets", "read"}, count : Nat, seen : {endpoint.seen}]
  /\ DOMAIN endpoint.seen \subseteq Bound
  /\ \A b \in DOMAIN endpoint.seen :
       endpoint.seen[b] \in Nat /\ endpoint.seen[b] <= inBucket[b]
  /\ endpoint.at = "read" => \A b \in Bound : endpoint.seen[b] <= endpoint.count

MetricsInv == MetricsTyped /\ Sums /\ (\A b \in Bound : BucketSum(b)) /\ EndpointIs

LEMMA DurationIs == /\ Duration \subseteq Nat /\ Longest \in Duration /\ Bound \subseteq Duration
                    /\ \A d \in Duration : d <= Longest
  BY DEF Duration

LEMMA ServedFinite == ASSUME NEW P, P \subseteq Served
                      PROVE  IsFiniteSet(P) /\ Cardinality(P) \in Nat
<1>1. IsFiniteSet(P)
  BY FS_Subset
<1> QED
  BY <1>1, FS_CardinalityType

(* A set of requests that changes by at most one.                          *)
LEMMA OneMoves ==
  ASSUME NEW P, NEW Q, P \subseteq Served, Q \subseteq Served, NEW s, P \ {s} = Q \ {s}
  PROVE  /\ Cardinality(P) \in Nat /\ Cardinality(Q) \in Nat
         /\ Cardinality(Q) = IF s \in P /\ s \notin Q THEN Cardinality(P) - 1
                             ELSE IF s \notin P /\ s \in Q THEN Cardinality(P) + 1
                             ELSE Cardinality(P)
<1>1. /\ IsFiniteSet(P) /\ Cardinality(P) \in Nat
      /\ IsFiniteSet(Q) /\ Cardinality(Q) \in Nat
  BY ServedFinite
<1>2. CASE s \in P /\ s \notin Q
  <2>1. Q = P \ {s}
    BY <1>2
  <2>2. Cardinality(P \ {s}) = Cardinality(P) - 1
    BY <1>1, <1>2, FS_RemoveElement
  <2> QED BY <1>1, <1>2, <2>1, <2>2
<1>3. CASE s \notin P /\ s \in Q
  <2>1. Q = P \cup {s}
    BY <1>3
  <2>2. Cardinality(P \cup {s}) = Cardinality(P) + 1
    BY <1>1, <1>3, FS_AddElement
  <2> QED BY <1>1, <1>3, <2>1, <2>2
<1>4. CASE s \in P <=> s \in Q
  <2>1. P = Q
    BY <1>4
  <2> QED BY <1>1, <1>4, <2>1
<1> QED
  BY <1>2, <1>3, <1>4

(* How a step of one request changes what is counted.                      *)
LEMMA RequestMoves ==
  ASSUME MetricsTyped, NEW s \in Served, NEW h \in Handling, handled' = [handled EXCEPT ![s] = h]
  PROVE  LET moved(n, m, before, after) ==
               /\ n \in Nat /\ m \in Nat
               /\ m = IF before /\ ~after THEN n - 1
                      ELSE IF ~before /\ after THEN n + 1 ELSE n
         IN  /\ handled' \in [Served -> Handling]
             /\ moved(Cardinality(Active), Cardinality(Active'),
                      handled[s].at # "idle", h.at # "idle")
             /\ moved(Cardinality(Accepting), Cardinality(Accepting'),
                      handled[s].at \in {"handler", "total"}, h.at \in {"handler", "total"})
             /\ moved(Cardinality(Recorded), Cardinality(Recorded'),
                      handled[s].at \in {"observe", "buckets", "status"},
                      h.at \in {"observe", "buckets", "status"})
             /\ moved(Cardinality(Uncounted), Cardinality(Uncounted'),
                      handled[s].at = "total", h.at = "total")
             /\ moved(Cardinality(Unobserved), Cardinality(Unobserved'),
                      handled[s].at = "observe", h.at = "observe")
             /\ moved(Cardinality(Unanswered), Cardinality(Unanswered'),
                      handled[s].at = "buckets", h.at = "buckets")
<1> USE DEF In
<1>1. /\ handled' \in [Served -> Handling] /\ handled'[s] = h
      /\ \A t \in Served : t # s => handled'[t] = handled[t]
  BY DEF MetricsTyped
<1>2. /\ Active \subseteq Served /\ Active' \subseteq Served /\ Active' \ {s} = Active \ {s}
      /\ s \in Active <=> handled[s].at # "idle"
      /\ s \in Active' <=> h.at # "idle"
  BY <1>1 DEF Active
<1>3. /\ Accepting \subseteq Served /\ Accepting' \subseteq Served
      /\ Accepting' \ {s} = Accepting \ {s}
      /\ s \in Accepting <=> handled[s].at \in {"handler", "total"}
      /\ s \in Accepting' <=> h.at \in {"handler", "total"}
  BY <1>1 DEF Accepting
<1>4. /\ Recorded \subseteq Served /\ Recorded' \subseteq Served /\ Recorded' \ {s} = Recorded \ {s}
      /\ s \in Recorded <=> handled[s].at \in {"observe", "buckets", "status"}
      /\ s \in Recorded' <=> h.at \in {"observe", "buckets", "status"}
  BY <1>1 DEF Recorded
<1>5. /\ Uncounted \subseteq Served /\ Uncounted' \subseteq Served
      /\ Uncounted' \ {s} = Uncounted \ {s}
      /\ s \in Uncounted <=> handled[s].at = "total"
      /\ s \in Uncounted' <=> h.at = "total"
  BY <1>1 DEF Uncounted
<1>6. /\ Unobserved \subseteq Served /\ Unobserved' \subseteq Served
      /\ Unobserved' \ {s} = Unobserved \ {s}
      /\ s \in Unobserved <=> handled[s].at = "observe"
      /\ s \in Unobserved' <=> h.at = "observe"
  BY <1>1 DEF Unobserved
<1>7. /\ Unanswered \subseteq Served /\ Unanswered' \subseteq Served
      /\ Unanswered' \ {s} = Unanswered \ {s}
      /\ s \in Unanswered <=> handled[s].at = "buckets"
      /\ s \in Unanswered' <=> h.at = "buckets"
  BY <1>1 DEF Unanswered
<1> QED
  BY <1>1, <1>2, <1>3, <1>4, <1>5, <1>6, <1>7, OneMoves

LEMMA BucketMoves ==
  ASSUME MetricsTyped, NEW s \in Served, NEW h \in Handling, handled' = [handled EXCEPT ![s] = h],
         NEW b \in Bound
  PROVE  LET moved(n, m, before, after) ==
               /\ n \in Nat /\ m \in Nat
               /\ m = IF before /\ ~after THEN n - 1
                      ELSE IF ~before /\ after THEN n + 1 ELSE n
         IN  /\ moved(Cardinality(Expected(b)), Cardinality(Expected(b)'),
                      /\ handled[s].at \in {"total", "observe", "buckets"}
                      /\ b \in handled[s].todo,
                      h.at \in {"total", "observe", "buckets"} /\ b \in h.todo)
             /\ moved(Cardinality(Filling(b)), Cardinality(Filling(b)'),
                      handled[s].at = "buckets" /\ b \in handled[s].todo,
                      h.at = "buckets" /\ b \in h.todo)
<1> USE DEF In
<1>1. /\ handled' \in [Served -> Handling] /\ handled'[s] = h
      /\ \A t \in Served : t # s => handled'[t] = handled[t]
  BY DEF MetricsTyped
<1>2. /\ Expected(b) \subseteq Served /\ Expected(b)' \subseteq Served
      /\ Expected(b)' \ {s} = Expected(b) \ {s}
      /\ s \in Expected(b) <=> /\ handled[s].at \in {"total", "observe", "buckets"}
                               /\ b \in handled[s].todo
      /\ s \in Expected(b)' <=> h.at \in {"total", "observe", "buckets"} /\ b \in h.todo
  BY <1>1 DEF Expected
<1>3. /\ Filling(b) \subseteq Served /\ Filling(b)' \subseteq Served
      /\ Filling(b)' \ {s} = Filling(b) \ {s}
      /\ s \in Filling(b) <=> handled[s].at = "buckets" /\ b \in handled[s].todo
      /\ s \in Filling(b)' <=> h.at = "buckets" /\ b \in h.todo
  BY <1>1 DEF Filling
<1> QED
  BY <1>1, <1>2, <1>3, OneMoves

(* The parts of the invariant that only the requests change.               *)
RequestsInv == MetricsTyped /\ Sums /\ (\A b \in Bound : BucketSum(b))

LEMMA CardinalitiesAre ==
  /\ Cardinality(Active) \in Nat /\ Cardinality(Accepting) \in Nat
  /\ Cardinality(Recorded) \in Nat /\ Cardinality(Uncounted) \in Nat
  /\ Cardinality(Unobserved) \in Nat /\ Cardinality(Unanswered) \in Nat
  /\ \A b \in Bound : Cardinality(Expected(b)) \in Nat /\ Cardinality(Filling(b)) \in Nat
<1>1. /\ Active \subseteq Served /\ Accepting \subseteq Served /\ Recorded \subseteq Served
      /\ Uncounted \subseteq Served /\ Unobserved \subseteq Served
      /\ Unanswered \subseteq Served
      /\ \A b \in Bound : Expected(b) \subseteq Served /\ Filling(b) \subseteq Served
  BY DEF Active, Accepting, Recorded, Uncounted, Unobserved, Unanswered, Expected, Filling, In
<1> QED
  BY <1>1, ServedFinite

(* Only what is counted has changed, or nothing.                           *)
LEMMA SameCounts ==
  ASSUME RequestsInv, UNCHANGED <<counters, histogram, handled, returned>>
  PROVE  RequestsInv'
<1>1. /\ Active' = Active /\ Accepting' = Accepting /\ Recorded' = Recorded
      /\ Uncounted' = Uncounted /\ Unobserved' = Unobserved /\ Unanswered' = Unanswered
      /\ \A b \in Bound : Expected(b)' = Expected(b) /\ Filling(b)' = Filling(b)
  BY DEF Active, Accepting, Recorded, Uncounted, Unobserved, Unanswered, Expected, Filling, In
<1> QED
  BY <1>1 DEF RequestsInv, MetricsTyped, Sums, BucketSum, counters, histogram

LEMMA EnterKeeps == ASSUME RequestsInv, NEW s \in Served, Enter(s) PROVE RequestsInv'
<1> DEFINE h == [handled[s] EXCEPT !.at = "handler"]
<1>1. handled[s] \in Handling /\ handled[s].at = "idle"
  BY DEF RequestsInv, MetricsTyped, Enter, Proceed
<1>2. h \in Handling /\ h.at = "handler" /\ h.todo = handled[s].todo
  BY <1>1 DEF Handling
<1>3. handled' = [handled EXCEPT ![s] = h]
  BY DEF Enter, Proceed
<1>4. /\ RequestsTotal + Cardinality(Accepting) < MaxServed
      /\ ActiveConnections' = ActiveConnections + 1
      /\ UNCHANGED <<RequestsTotal, ResponseStatusCodes, ErrorsTotal, histogram, returned>>
  BY DEF Enter, Accepted, Accepting, In
<1> HIDE DEF h
<1>5. MetricsTyped'
  BY <1>2, <1>3, <1>4 DEF RequestsInv, MetricsTyped, histogram
<1>6. /\ Cardinality(Active') = Cardinality(Active) + 1
      /\ Cardinality(Accepting') = Cardinality(Accepting) + 1
      /\ Cardinality(Recorded') = Cardinality(Recorded)
      /\ Cardinality(Uncounted') = Cardinality(Uncounted)
      /\ Cardinality(Unobserved') = Cardinality(Unobserved)
      /\ Cardinality(Unanswered') = Cardinality(Unanswered)
  BY <1>1, <1>2, <1>3, RequestMoves DEF RequestsInv
<1>10. \A b \in Bound : /\ Cardinality(Expected(b)') = Cardinality(Expected(b))
                        /\ Cardinality(Filling(b)') = Cardinality(Filling(b))
  BY <1>1, <1>2, <1>3, BucketMoves DEF RequestsInv
<1>7. Sums'
  BY <1>4, <1>6, CardinalitiesAre DEF RequestsInv, MetricsTyped, Sums, histogram
<1>8. \A b \in Bound : BucketSum(b)'
  BY <1>4, <1>10 DEF RequestsInv, BucketSum, histogram
<1> QED
  BY <1>5, <1>7, <1>8 DEF RequestsInv

LEMMA HandlerReturnsKeeps == ASSUME RequestsInv, NEW s \in Served, HandlerReturns(s) PROVE RequestsInv'
<1>0. PICK st \in Statuses, d \in Duration :
        /\ handled' = [handled EXCEPT ![s] =
             [at |-> "total", status |-> st, duration |-> d, todo |-> {b \in Bound : d <= b}]]
        /\ returned' = [e \in Duration |-> IF d <= e THEN returned[e] + 1 ELSE returned[e]]
  BY DEF HandlerReturns
<1> DEFINE h == [at |-> "total", status |-> st, duration |-> d, todo |-> {b \in Bound : d <= b}]
<1>1. handled[s] \in Handling /\ handled[s].at = "handler"
  BY DEF RequestsInv, MetricsTyped, HandlerReturns
<1>2. h \in Handling /\ h.at = "total" /\ h.todo = {b \in Bound : d <= b}
  BY <1>1, <1>0 DEF Handling
<1>3. handled' = [handled EXCEPT ![s] = h]
  BY <1>0 DEF HandlerReturns
<1>4. /\ returned' = [e \in Duration |-> IF d <= e THEN returned[e] + 1 ELSE returned[e]]
      /\ UNCHANGED <<counters, histogram>>
  BY <1>0 DEF HandlerReturns
<1> HIDE DEF h
<1>5. ASSUME NEW b \in Bound
      PROVE  /\ Cardinality(Expected(b)') = Cardinality(Expected(b)) + (IF d <= b THEN 1 ELSE 0)
             /\ Cardinality(Filling(b)') = Cardinality(Filling(b))
  <2>1. CASE d <= b
    <3>3. MetricsTyped
      BY DEF RequestsInv
    <3>1. /\ Cardinality(Expected(b)') = Cardinality(Expected(b)) + 1
          /\ Cardinality(Filling(b)') = Cardinality(Filling(b))
      BY <1>1, <1>2, <1>3, <1>0, <2>1, <3>3, BucketMoves
    <3>2. Cardinality(Expected(b)) \in Nat /\ Cardinality(Filling(b)) \in Nat
      BY CardinalitiesAre
    <3> QED BY <2>1, <3>1, <3>2
  <2>2. CASE ~(d <= b)
    <3>3. MetricsTyped
      BY DEF RequestsInv
    <3>1. /\ Cardinality(Expected(b)') = Cardinality(Expected(b))
          /\ Cardinality(Filling(b)') = Cardinality(Filling(b))
      BY <1>1, <1>2, <1>3, <1>0, <2>2, <3>3, BucketMoves
    <3>2. Cardinality(Expected(b)) \in Nat /\ Cardinality(Filling(b)) \in Nat
      BY CardinalitiesAre
    <3> QED BY <2>2, <3>1, <3>2
  <2> QED BY <2>1, <2>2
<1>6. /\ Cardinality(Active') = Cardinality(Active)
      /\ Cardinality(Accepting') = Cardinality(Accepting)
      /\ Cardinality(Recorded') = Cardinality(Recorded)
      /\ Cardinality(Uncounted') = Cardinality(Uncounted) + 1
      /\ Cardinality(Unobserved') = Cardinality(Unobserved)
      /\ Cardinality(Unanswered') = Cardinality(Unanswered)
      /\ Cardinality(Active') \in Nat
  BY <1>1, <1>2, <1>3, <1>0, RequestMoves DEF RequestsInv
<1>9. MetricsTyped'
  BY <1>1, <1>2, <1>3, <1>4, <1>6, <1>0 DEF RequestsInv, MetricsTyped, Sums, histogram, counters
<1>7. Sums'
  BY <1>4, <1>6, <1>0, CardinalitiesAre, DurationIs DEF RequestsInv, MetricsTyped, Sums, histogram, counters
<1>8. ASSUME NEW b \in Bound PROVE BucketSum(b)'
  BY <1>4, <1>5, <1>0, DurationIs, CardinalitiesAre DEF RequestsInv, BucketSum, histogram, counters, MetricsTyped
<1> QED
  BY <1>7, <1>8, <1>9 DEF RequestsInv

LEMMA HandlerPanicsKeeps == ASSUME RequestsInv, NEW s \in Served, HandlerPanics(s) PROVE RequestsInv'
<1> DEFINE h == NotServed
<1>1. handled[s] \in Handling /\ handled[s].at = "handler"
  BY DEF RequestsInv, MetricsTyped, HandlerPanics
<1>2. h \in Handling /\ h.at = "idle" /\ h.todo = {}
  BY <1>1 DEF Handling, NotServed, Statuses, Duration
<1>3. handled' = [handled EXCEPT ![s] = h]
  BY DEF HandlerPanics
<1>4. /\ ActiveConnections' = ActiveConnections - 1
      /\ UNCHANGED <<RequestsTotal, ResponseStatusCodes, ErrorsTotal, histogram, returned>>
  BY DEF HandlerPanics
<1> HIDE DEF h
<1>5. \A b \in Bound : /\ Cardinality(Expected(b)') = Cardinality(Expected(b))
                          /\ Cardinality(Filling(b)') = Cardinality(Filling(b))
  BY <1>1, <1>2, <1>3, BucketMoves DEF RequestsInv
<1>6. /\ Cardinality(Active') = Cardinality(Active) - 1
      /\ Cardinality(Accepting') = Cardinality(Accepting) - 1
      /\ Cardinality(Recorded') = Cardinality(Recorded)
      /\ Cardinality(Uncounted') = Cardinality(Uncounted)
      /\ Cardinality(Unobserved') = Cardinality(Unobserved)
      /\ Cardinality(Unanswered') = Cardinality(Unanswered)
      /\ Cardinality(Active') \in Nat
  BY <1>1, <1>2, <1>3, RequestMoves DEF RequestsInv
<1>9. MetricsTyped'
  BY <1>1, <1>2, <1>3, <1>4, <1>6 DEF RequestsInv, MetricsTyped, Sums, histogram, counters
<1>7. Sums'
  BY <1>4, <1>6, CardinalitiesAre DEF RequestsInv, MetricsTyped, Sums, histogram, counters
<1>8. ASSUME NEW b \in Bound PROVE BucketSum(b)'
  BY <1>4, <1>5 DEF RequestsInv, BucketSum, histogram, counters
<1> QED
  BY <1>7, <1>8, <1>9 DEF RequestsInv

LEMMA CountRequestKeeps == ASSUME RequestsInv, NEW s \in Served, CountRequest(s) PROVE RequestsInv'
<1> DEFINE h == [handled[s] EXCEPT !.at = "observe"]
<1>1. handled[s] \in Handling /\ handled[s].at = "total"
  BY DEF RequestsInv, MetricsTyped, CountRequest, Proceed
<1>2. h \in Handling /\ h.at = "observe" /\ h.todo = handled[s].todo
  BY <1>1 DEF Handling
<1>3. handled' = [handled EXCEPT ![s] = h]
  BY DEF CountRequest, Proceed
<1>4. /\ RequestsTotal' = RequestsTotal + 1
      /\ UNCHANGED <<ResponseStatusCodes, ErrorsTotal, ActiveConnections, histogram, returned>>
  BY DEF CountRequest
<1> HIDE DEF h
<1>5. \A b \in Bound : /\ Cardinality(Expected(b)') = Cardinality(Expected(b))
                          /\ Cardinality(Filling(b)') = Cardinality(Filling(b))
  BY <1>1, <1>2, <1>3, BucketMoves DEF RequestsInv
<1>6. /\ Cardinality(Active') = Cardinality(Active)
      /\ Cardinality(Accepting') = Cardinality(Accepting) - 1
      /\ Cardinality(Recorded') = Cardinality(Recorded) + 1
      /\ Cardinality(Uncounted') = Cardinality(Uncounted) - 1
      /\ Cardinality(Unobserved') = Cardinality(Unobserved) + 1
      /\ Cardinality(Unanswered') = Cardinality(Unanswered)
      /\ Cardinality(Active') \in Nat
  BY <1>1, <1>2, <1>3, RequestMoves DEF RequestsInv
<1>9. MetricsTyped'
  BY <1>1, <1>2, <1>3, <1>4, <1>6 DEF RequestsInv, MetricsTyped, Sums, histogram, counters
<1>7. Sums'
  BY <1>4, <1>6, CardinalitiesAre DEF RequestsInv, MetricsTyped, Sums, histogram, counters
<1>8. ASSUME NEW b \in Bound PROVE BucketSum(b)'
  BY <1>4, <1>5 DEF RequestsInv, BucketSum, histogram, counters
<1> QED
  BY <1>7, <1>8, <1>9 DEF RequestsInv

LEMMA ObserveCountKeeps == ASSUME RequestsInv, NEW s \in Served, ObserveCount(s) PROVE RequestsInv'
<1> DEFINE h == [handled[s] EXCEPT !.at = "buckets"]
<1>1. handled[s] \in Handling /\ handled[s].at = "observe"
  BY DEF RequestsInv, MetricsTyped, ObserveCount, Proceed
<1>2. h \in Handling /\ h.at = "buckets" /\ h.todo = handled[s].todo
  BY <1>1 DEF Handling
<1>3. handled' = [handled EXCEPT ![s] = h]
  BY DEF ObserveCount, Proceed
<1>4. /\ count' = count + 1
      /\ UNCHANGED <<counters, inBucket, returned>>
  BY DEF ObserveCount
<1> HIDE DEF h
<1>5. ASSUME NEW b \in Bound
      PROVE  /\ Cardinality(Expected(b)') = Cardinality(Expected(b))
             /\ Cardinality(Filling(b)') = Cardinality(Filling(b)) + (IF b \in handled[s].todo THEN 1 ELSE 0)
  <2>1. CASE b \in handled[s].todo
    <3>3. MetricsTyped
      BY DEF RequestsInv
    <3>4. /\ handled[s].at = "observe" /\ h.at = "buckets"
          /\ b \in handled[s].todo /\ b \in h.todo
      BY <1>1, <1>2, <2>1
    <3>1. /\ Cardinality(Expected(b)') = Cardinality(Expected(b))
          /\ Cardinality(Filling(b)') = Cardinality(Filling(b)) + 1
      BY <1>2, <1>3, <3>3, <3>4, BucketMoves, ZenonT(60)
    <3>2. Cardinality(Expected(b)) \in Nat /\ Cardinality(Filling(b)) \in Nat
      BY CardinalitiesAre
    <3> QED BY <2>1, <3>1, <3>2
  <2>2. CASE ~(b \in handled[s].todo)
    <3>3. MetricsTyped
      BY DEF RequestsInv
    <3>1. /\ Cardinality(Expected(b)') = Cardinality(Expected(b))
          /\ Cardinality(Filling(b)') = Cardinality(Filling(b))
      BY <1>1, <1>2, <1>3, <2>2, <3>3, BucketMoves
    <3>2. Cardinality(Expected(b)) \in Nat /\ Cardinality(Filling(b)) \in Nat
      BY CardinalitiesAre
    <3> QED BY <2>2, <3>1, <3>2
  <2> QED BY <2>1, <2>2
<1>6. /\ Cardinality(Active') = Cardinality(Active)
      /\ Cardinality(Accepting') = Cardinality(Accepting)
      /\ Cardinality(Recorded') = Cardinality(Recorded)
      /\ Cardinality(Uncounted') = Cardinality(Uncounted)
      /\ Cardinality(Unobserved') = Cardinality(Unobserved) - 1
      /\ Cardinality(Unanswered') = Cardinality(Unanswered) + 1
      /\ Cardinality(Active') \in Nat
  BY <1>1, <1>2, <1>3, RequestMoves DEF RequestsInv
<1>9. MetricsTyped'
  BY <1>1, <1>2, <1>3, <1>4, <1>6 DEF RequestsInv, MetricsTyped, Sums, histogram, counters
<1>7. Sums'
  BY <1>4, <1>6, CardinalitiesAre DEF RequestsInv, MetricsTyped, Sums, histogram, counters
<1>8. ASSUME NEW b \in Bound PROVE BucketSum(b)'
  BY <1>4, <1>5, CardinalitiesAre DEF RequestsInv, BucketSum, histogram, counters, MetricsTyped
<1> QED
  BY <1>7, <1>8, <1>9 DEF RequestsInv

LEMMA ObserveBucketKeeps == ASSUME RequestsInv, NEW s \in Served, ObserveBucket(s) PROVE RequestsInv'
<1>0. PICK k \in handled[s].todo :
        /\ inBucket' = [inBucket EXCEPT ![k] = @ + 1]
        /\ handled' = [handled EXCEPT ![s].todo = @ \ {k}]
  BY DEF ObserveBucket
<1>10. k \in Bound
  BY <1>0 DEF RequestsInv, MetricsTyped, Handling, ObserveBucket
<1> DEFINE h == [handled[s] EXCEPT !.todo = @ \ {k}]
<1>1. handled[s] \in Handling /\ handled[s].at = "buckets"
  BY DEF RequestsInv, MetricsTyped, ObserveBucket
<1>2. h \in Handling /\ h.at = "buckets" /\ h.todo = handled[s].todo \ {k}
  BY <1>1, <1>0, <1>10 DEF Handling
<1>3. handled' = [handled EXCEPT ![s] = h]
  BY <1>0, <1>10 DEF ObserveBucket
<1>4. /\ inBucket' = [inBucket EXCEPT ![k] = @ + 1]
      /\ UNCHANGED <<counters, count, returned>>
  BY <1>0, <1>10 DEF ObserveBucket
<1> HIDE DEF h
<1>5. ASSUME NEW b \in Bound
      PROVE  /\ Cardinality(Expected(b)') = Cardinality(Expected(b)) - (IF b = k THEN 1 ELSE 0)
             /\ Cardinality(Filling(b)') = Cardinality(Filling(b)) - (IF b = k THEN 1 ELSE 0)
  <2>1. CASE b = k
    <3>3. MetricsTyped
      BY DEF RequestsInv
    <3>1. /\ Cardinality(Expected(b)') = Cardinality(Expected(b)) - 1
          /\ Cardinality(Filling(b)') = Cardinality(Filling(b)) - 1
      BY <1>1, <1>2, <1>3, <1>0, <1>10, <2>1, <3>3, BucketMoves
    <3>2. Cardinality(Expected(b)) \in Nat /\ Cardinality(Filling(b)) \in Nat
      BY CardinalitiesAre
    <3> QED BY <2>1, <3>1, <3>2
  <2>2. CASE ~(b = k)
    <3>3. MetricsTyped
      BY DEF RequestsInv
    <3>1. /\ Cardinality(Expected(b)') = Cardinality(Expected(b))
          /\ Cardinality(Filling(b)') = Cardinality(Filling(b))
      BY <1>1, <1>2, <1>3, <1>0, <1>10, <2>2, <3>3, BucketMoves
    <3>2. Cardinality(Expected(b)) \in Nat /\ Cardinality(Filling(b)) \in Nat
      BY CardinalitiesAre
    <3> QED BY <2>2, <3>1, <3>2
  <2> QED BY <2>1, <2>2
<1>6. /\ Cardinality(Active') = Cardinality(Active)
      /\ Cardinality(Accepting') = Cardinality(Accepting)
      /\ Cardinality(Recorded') = Cardinality(Recorded)
      /\ Cardinality(Uncounted') = Cardinality(Uncounted)
      /\ Cardinality(Unobserved') = Cardinality(Unobserved)
      /\ Cardinality(Unanswered') = Cardinality(Unanswered)
      /\ Cardinality(Active') \in Nat
  BY <1>1, <1>2, <1>3, <1>0, <1>10, RequestMoves DEF RequestsInv
<1>9. MetricsTyped'
  BY <1>1, <1>2, <1>3, <1>4, <1>6, <1>0, <1>10 DEF RequestsInv, MetricsTyped, Sums, histogram, counters
<1>7. Sums'
  BY <1>4, <1>6, <1>0, <1>10, CardinalitiesAre DEF RequestsInv, MetricsTyped, Sums, histogram, counters
<1>8. ASSUME NEW b \in Bound PROVE BucketSum(b)'
  BY <1>4, <1>5, <1>0, <1>10, CardinalitiesAre DEF RequestsInv, BucketSum, histogram, counters, MetricsTyped
<1> QED
  BY <1>7, <1>8, <1>9 DEF RequestsInv

LEMMA CountStatusKeeps == ASSUME RequestsInv, NEW s \in Served, CountStatus(s) PROVE RequestsInv'
<1> DEFINE h == [handled[s] EXCEPT !.at = "status"]
<1>1. handled[s] \in Handling /\ handled[s].at = "buckets"
  BY DEF RequestsInv, MetricsTyped, CountStatus, Proceed
<1>2. h \in Handling /\ h.at = "status" /\ h.todo = handled[s].todo
  BY <1>1 DEF Handling
<1>3. handled' = [handled EXCEPT ![s] = h]
  BY DEF CountStatus, Proceed
<1>4. /\ ResponseStatusCodes' = ResponseStatusCodes + (IF handled[s].status = "ok" THEN 1 ELSE 0)
      /\ ErrorsTotal' = ErrorsTotal + (IF handled[s].status = "error" THEN 1 ELSE 0)
      /\ handled[s].todo = {}
      /\ UNCHANGED <<RequestsTotal, ActiveConnections, histogram, returned>>
  BY DEF CountStatus
<1> HIDE DEF h
<1>5. \A b \in Bound : /\ Cardinality(Expected(b)') = Cardinality(Expected(b))
                          /\ Cardinality(Filling(b)') = Cardinality(Filling(b))
  BY <1>1, <1>2, <1>3, <1>4, BucketMoves DEF RequestsInv
<1>6. /\ Cardinality(Active') = Cardinality(Active)
      /\ Cardinality(Accepting') = Cardinality(Accepting)
      /\ Cardinality(Recorded') = Cardinality(Recorded)
      /\ Cardinality(Uncounted') = Cardinality(Uncounted)
      /\ Cardinality(Unobserved') = Cardinality(Unobserved)
      /\ Cardinality(Unanswered') = Cardinality(Unanswered) - 1
      /\ Cardinality(Active') \in Nat
  BY <1>1, <1>2, <1>3, <1>4, RequestMoves DEF RequestsInv
<1>9. MetricsTyped'
  BY <1>1, <1>2, <1>3, <1>4, <1>6 DEF RequestsInv, MetricsTyped, Sums, histogram, counters
<1>7. Sums'
  BY <1>4, <1>6, CardinalitiesAre DEF RequestsInv, MetricsTyped, Sums, histogram, counters
<1>8. ASSUME NEW b \in Bound PROVE BucketSum(b)'
  BY <1>4, <1>5 DEF RequestsInv, BucketSum, histogram, counters
<1> QED
  BY <1>7, <1>8, <1>9 DEF RequestsInv

LEMMA LeaveKeeps == ASSUME RequestsInv, NEW s \in Served, Leave(s) PROVE RequestsInv'
<1> DEFINE h == NotServed
<1>1. handled[s] \in Handling /\ handled[s].at = "status"
  BY DEF RequestsInv, MetricsTyped, Leave
<1>2. h \in Handling /\ h.at = "idle" /\ h.todo = {}
  BY <1>1 DEF Handling, NotServed, Statuses, Duration
<1>3. handled' = [handled EXCEPT ![s] = h]
  BY DEF Leave
<1>4. /\ ActiveConnections' = ActiveConnections - 1
      /\ UNCHANGED <<RequestsTotal, ResponseStatusCodes, ErrorsTotal, histogram, returned>>
  BY DEF Leave
<1> HIDE DEF h
<1>5. \A b \in Bound : /\ Cardinality(Expected(b)') = Cardinality(Expected(b))
                          /\ Cardinality(Filling(b)') = Cardinality(Filling(b))
  BY <1>1, <1>2, <1>3, BucketMoves DEF RequestsInv
<1>6. /\ Cardinality(Active') = Cardinality(Active) - 1
      /\ Cardinality(Accepting') = Cardinality(Accepting)
      /\ Cardinality(Recorded') = Cardinality(Recorded) - 1
      /\ Cardinality(Uncounted') = Cardinality(Uncounted)
      /\ Cardinality(Unobserved') = Cardinality(Unobserved)
      /\ Cardinality(Unanswered') = Cardinality(Unanswered)
      /\ Cardinality(Active') \in Nat
  BY <1>1, <1>2, <1>3, RequestMoves DEF RequestsInv
<1>9. MetricsTyped'
  BY <1>1, <1>2, <1>3, <1>4, <1>6 DEF RequestsInv, MetricsTyped, Sums, histogram, counters
<1>7. Sums'
  BY <1>4, <1>6, CardinalitiesAre DEF RequestsInv, MetricsTyped, Sums, histogram, counters
<1>8. ASSUME NEW b \in Bound PROVE BucketSum(b)'
  BY <1>4, <1>5 DEF RequestsInv, BucketSum, histogram, counters
<1> QED
  BY <1>7, <1>8, <1>9 DEF RequestsInv

(* What a reader has seen stays below what is there: buckets only grow,    *)
(* and no bucket is ahead of the count.                                    *)
LEMMA BucketsGrow ==
  ASSUME MetricsTyped, NEW s \in Served,
         \/ UNCHANGED <<inBucket, endpoint>>
         \/ ObserveBucket(s),
         EndpointIs
  PROVE  EndpointIs'
<1>1. endpoint' = endpoint
  BY DEF ObserveBucket
<1>2. \A b \in Bound : inBucket[b] \in Nat /\ inBucket'[b] \in Nat /\ inBucket[b] <= inBucket'[b]
  <2>1. CASE UNCHANGED <<inBucket, endpoint>>
    <3>1. inBucket' = inBucket
      BY <2>1
    <3> QED BY <3>1 DEF MetricsTyped
  <2>2. CASE ObserveBucket(s)
    <3>1. PICK k \in handled[s].todo : inBucket' = [inBucket EXCEPT ![k] = @ + 1]
      BY <2>2 DEF ObserveBucket
    <3>2. inBucket \in [Bound -> Nat]
      BY DEF MetricsTyped
    <3>3. ASSUME NEW b \in Bound
          PROVE  inBucket[b] \in Nat /\ inBucket'[b] \in {inBucket[b], inBucket[b] + 1}
      <4>1. inBucket[b] \in Nat /\ b \in DOMAIN inBucket
        BY <3>2
      <4> QED BY <3>1, <4>1, Zenon
    <3>4. ASSUME NEW b \in Bound
          PROVE  /\ inBucket[b] \in Nat /\ inBucket'[b] \in Nat
                 /\ inBucket[b] <= inBucket'[b]
      <4> DEFINE x == inBucket[b]
                 y == inBucket'[b]
      <4>1. x \in Nat /\ y \in {x, x + 1}
        BY <3>3
      <4> HIDE DEF x, y
      <4>2. y \in Nat /\ x <= y
        BY <4>1
      <4> QED BY <4>1, <4>2 DEF x, y
    <3> QED BY <3>4
  <2> QED BY <2>1, <2>2
<1> QED
  BY <1>1, <1>2 DEF EndpointIs

LEMMA AskValueKeeps == ASSUME EndpointIs, AskValue PROVE EndpointIs'
<1>1. endpoint' = [at |-> "buckets", count |-> 0, seen |-> <<>>]
  BY DEF AskValue, Unread
<1>2. DOMAIN endpoint'.seen = {}
  BY <1>1
<1> QED
  BY <1>1, <1>2 DEF EndpointIs

LEMMA ReadBucketKeeps == ASSUME MetricsTyped, EndpointIs, ReadBucket PROVE EndpointIs'
<1>1. PICK b \in Bound :
        endpoint' = [endpoint EXCEPT !.seen = [c \in DOMAIN @ \cup {b} |->
                                                 IF c = b THEN inBucket[b] ELSE @[c]]]
  BY DEF ReadBucket
<1> DEFINE seen == [c \in DOMAIN endpoint.seen \cup {b} |->
                      IF c = b THEN inBucket[b] ELSE endpoint.seen[c]]
<1>2. endpoint' = [at |-> "buckets", count |-> endpoint.count, seen |-> seen]
  BY <1>1 DEF EndpointIs, ReadBucket
<1>3. inBucket' = inBucket /\ inBucket[b] \in Nat
  BY DEF ReadBucket, histogram, MetricsTyped
<1>4. \A c \in DOMAIN seen : c \in Bound /\ seen[c] \in Nat /\ seen[c] <= inBucket[c]
  BY <1>3 DEF EndpointIs
<1>5. DOMAIN seen \subseteq Bound /\ endpoint.count \in Nat
  BY DEF EndpointIs
<1> HIDE DEF seen
<1> QED
  BY <1>2, <1>3, <1>4, <1>5 DEF EndpointIs

LEMMA ReadCountKeeps ==
  ASSUME MetricsTyped, \A b \in Bound : BucketSum(b), EndpointIs, ReadCount
  PROVE  EndpointIs'
<1>1. endpoint' = [at |-> "read", count |-> count, seen |-> endpoint.seen]
  BY DEF ReadCount, EndpointIs
<1>2. /\ inBucket' = inBucket /\ DOMAIN endpoint.seen = Bound /\ count \in Nat
  BY DEF ReadCount, histogram, MetricsTyped
<1>3. \A b \in Bound : inBucket[b] <= count
  BY CardinalitiesAre DEF BucketSum, MetricsTyped
<1>4. \A b \in Bound : /\ endpoint.seen[b] \in Nat /\ endpoint.seen[b] <= inBucket[b]
                      /\ inBucket[b] \in Nat
  BY <1>2 DEF EndpointIs, MetricsTyped
<1> QED
  BY <1>1, <1>2, <1>3, <1>4 DEF EndpointIs

LEMMA MetricsInitInv == MetricsInit => MetricsInv
<1> SUFFICES ASSUME MetricsInit PROVE MetricsInv
  OBVIOUS
<1>1. MetricsTyped
  BY DurationIs
  DEF MetricsInit, MetricsTyped, Handling, NotServed, Statuses
<1>2. \A s \in Served : handled[s].at = "idle"
  BY DEF MetricsInit, NotServed
<1>3. /\ Active = {} /\ Accepting = {} /\ Recorded = {} /\ Uncounted = {}
      /\ Unobserved = {} /\ Unanswered = {}
      /\ \A b \in Bound : Expected(b) = {} /\ Filling(b) = {}
  BY <1>2 DEF Active, Accepting, Recorded, Uncounted, Unobserved, Unanswered, Expected,
              Filling, In
<1>4. Sums
  BY <1>3, FS_EmptySet, DurationIs DEF MetricsInit, Sums
<1>5. ASSUME NEW b \in Bound PROVE BucketSum(b)
  <2>1. inBucket[b] = 0 /\ returned[b] = 0 /\ returned[Longest] = 0 /\ count = 0
    BY DurationIs DEF MetricsInit
  <2>2. Cardinality(Expected(b)) = 0 /\ Cardinality(Filling(b)) = 0
    BY <1>3, FS_EmptySet
  <2> QED BY <2>1, <2>2 DEF BucketSum
<1>6. EndpointIs
  <2>1. endpoint = [at |-> "idle", count |-> 0, seen |-> <<>>] /\ DOMAIN endpoint.seen = {}
    BY DEF MetricsInit, Unread
  <2> QED BY <2>1 DEF EndpointIs
<1> QED
  BY <1>1, <1>4, <1>5, <1>6 DEF MetricsInv

LEMMA MetricsInvariance == MetricsSpec => []MetricsInv
<1>1. MetricsInit => MetricsInv
  BY MetricsInitInv
<1>2. MetricsInv /\ [MetricsNext]_metricsVars => MetricsInv'
  <2> SUFFICES ASSUME MetricsInv, [MetricsNext]_metricsVars PROVE MetricsInv'
    OBVIOUS
  <2>1. RequestsInv /\ EndpointIs /\ MetricsTyped /\ \A b \in Bound : BucketSum(b)
    BY DEF MetricsInv, RequestsInv
  <2>2. ASSUME NEW s \in Served,
               \/ Enter(s) \/ HandlerReturns(s) \/ HandlerPanics(s) \/ CountRequest(s)
               \/ ObserveCount(s) \/ ObserveBucket(s) \/ CountStatus(s) \/ Leave(s)
        PROVE  RequestsInv' /\ EndpointIs'
    <3>1. RequestsInv'
      BY <2>1, <2>2, EnterKeeps, HandlerReturnsKeeps, HandlerPanicsKeeps, CountRequestKeeps,
         ObserveCountKeeps, ObserveBucketKeeps, CountStatusKeeps, LeaveKeeps
    <3>2. UNCHANGED <<inBucket, endpoint>> \/ ObserveBucket(s)
      BY <2>2 DEF Enter, HandlerReturns, HandlerPanics, CountRequest, ObserveCount, CountStatus,
                  Leave, histogram
    <3> QED BY <2>1, <3>1, <3>2, BucketsGrow
  <2>3. ASSUME AskValue PROVE RequestsInv' /\ EndpointIs'
    BY <2>1, <2>3, AskValueKeeps, SameCounts DEF AskValue
  <2>4. ASSUME ReadBucket PROVE RequestsInv' /\ EndpointIs'
    BY <2>1, <2>4, ReadBucketKeeps, SameCounts DEF ReadBucket
  <2>5. ASSUME ReadCount PROVE RequestsInv' /\ EndpointIs'
    BY <2>1, <2>5, ReadCountKeeps, SameCounts DEF ReadCount
  <2>6. ASSUME UNCHANGED metricsVars PROVE RequestsInv' /\ EndpointIs'
    <3>1. RequestsInv'
      BY <2>1, <2>6, SameCounts DEF metricsVars
    <3> QED BY <2>1, <2>6, <3>1 DEF metricsVars, histogram, EndpointIs
  <2>7. RequestsInv' /\ EndpointIs'
    BY <2>2, <2>3, <2>4, <2>5, <2>6 DEF MetricsNext
  <2> QED BY <2>7 DEF MetricsInv, RequestsInv
<1> QED
  BY <1>1, <1>2, PTL DEF MetricsSpec

(* No counter of the metrics, and no bucket, passes the number of requests. *)
THEOREM MetricsTypesCorrect == MetricsSpec => []MetricsTypeOK
<1>1. ASSUME MetricsInv PROVE MetricsTypeOK
  <2>1. /\ MetricsTyped /\ Sums /\ EndpointIs /\ \A b \in Bound : BucketSum(b)
    BY <1>1 DEF MetricsInv
  <2>2. /\ Active \subseteq Served /\ Accepting \subseteq Served /\ Recorded \subseteq Served
        /\ Active = Accepting \cup Recorded /\ Uncounted \subseteq Accepting
        /\ Accepting \cap Recorded = {}
    BY <2>1 DEF MetricsTyped, Handling, Active, Accepting, Recorded, Uncounted, In
  <2>3. /\ IsFiniteSet(Accepting) /\ IsFiniteSet(Recorded)
    BY <2>2, ServedFinite
  <2>4. Cardinality(Active) = Cardinality(Accepting) + Cardinality(Recorded)
    <3>1. Cardinality(Active) = Cardinality(Accepting) + Cardinality(Recorded)
                                  - Cardinality(Accepting \cap Recorded)
      BY <2>2, <2>3, FS_Union
    <3>2. Cardinality(Accepting \cap Recorded) = 0
      BY <2>2, FS_EmptySet
    <3> QED BY <3>1, <3>2, CardinalitiesAre
  <2>5. Cardinality(Uncounted) <= Cardinality(Accepting)
    BY <2>2, <2>3, FS_Subset
  <2>6. /\ {RequestsTotal, ResponseStatusCodes, ErrorsTotal, ActiveConnections, count}
              \subseteq 0..MaxServed
        /\ returned[Longest] <= MaxServed
    BY <2>1, <2>4, <2>5, CardinalitiesAre DEF Sums, MetricsTyped
  <2>7. \A b \in Bound : inBucket[b] \in 0..MaxServed
    BY <2>1, <2>6, CardinalitiesAre DEF BucketSum, MetricsTyped
  <2>9. returned \in [Duration -> 0..MaxServed]
    <3>1. \A d \in Duration : returned[d] \in Nat /\ (d = Longest \/ d \in Bound)
      BY <2>1 DEF MetricsTyped, Duration
    <3>2. \A d \in Duration : returned[d] <= returned[Longest] \/ d = Longest
      BY <2>1, <3>1 DEF BucketSum
    <3>3. \A d \in Duration : returned[d] \in 0..MaxServed
      BY <2>6, <3>1, <3>2, DurationIs
    <3> QED BY <2>1, <3>3 DEF MetricsTyped
  <2>8. Range(inBucket) \subseteq 0..MaxServed
    BY <2>1, <2>7 DEF Range, MetricsTyped
  <2> QED
    BY <2>1, <2>6, <2>8, <2>9
    DEF MetricsTypeOK, MetricsTyped, Handling, EndpointIs
<1> QED
  BY <1>1, MetricsInvariance, PTL

(* Each counter of logging/middleware.go is an atomic of its own: between  *)
(* two of them other requests see sums that do not agree.  They are never  *)
(* ahead of each other the wrong way, and when no request is between them  *)
(* the total, the histogram with each of its buckets and what has returned *)
(* are the same; a panic of a handler leaves no connection counted.        *)
THEOREM MetricsSum == MetricsSpec => []MetricsAddUp
<1>1. ASSUME MetricsInv PROVE MetricsAddUp
  <2>1. /\ MetricsTyped /\ Sums /\ EndpointIs /\ \A b \in Bound : BucketSum(b)
    BY <1>1 DEF MetricsInv
  <2>2. ActiveConnections = Cardinality(Served \ In({"idle"}))
    BY <2>1 DEF Sums, Active
  <2>3. ResponseStatusCodes + ErrorsTotal <= count /\ count <= RequestsTotal
    BY <2>1, CardinalitiesAre DEF Sums, MetricsTyped
  <2>4. ASSUME In({"total", "observe", "buckets", "status"}) = {}
        PROVE  /\ count = RequestsTotal /\ RequestsTotal = returned[Longest]
               /\ \A b \in Bound : inBucket[b] = returned[b]
    <3>1. /\ Uncounted = {} /\ Unobserved = {} /\ \A b \in Bound : Expected(b) = {}
      BY <2>4 DEF Uncounted, Unobserved, Expected, In
    <3>2. /\ Cardinality(Uncounted) = 0 /\ Cardinality(Unobserved) = 0
          /\ \A b \in Bound : Cardinality(Expected(b)) = 0
      BY <3>1, FS_EmptySet
    <3>3. /\ RequestsTotal \in Nat /\ count \in Nat /\ returned[Longest] \in Nat
          /\ RequestsTotal + Cardinality(Uncounted) = returned[Longest]
          /\ count + Cardinality(Unobserved) = RequestsTotal
      BY <2>1, DurationIs DEF Sums, MetricsTyped
    <3>4. ASSUME NEW b \in Bound PROVE inBucket[b] = returned[b]
      <4>1. inBucket[b] \in Nat /\ inBucket[b] + Cardinality(Expected(b)) = returned[b]
        BY <2>1 DEF BucketSum, MetricsTyped
      <4> QED BY <3>2, <4>1
    <3> QED BY <3>2, <3>3, <3>4
  <2> QED
    BY <2>1, <2>2, <2>3, <2>4 DEF MetricsAddUp, EndpointIs
<1> QED
  BY <1>1, MetricsInvariance, PTL

-----------------------------------------------------------------------------
(* Part 6: the query builder.                                              *)
HIDE MetricsAssumption
    DEF MetricsAssumption

(* A set that holds zero and with a number the next one holds them all.    *)
LEMMA SetInduction ==
  ASSUME NEW S, 0 \in S, \A n \in Nat : n \in S => n + 1 \in S
  PROVE  Nat \subseteq S
<1> DEFINE T == Nat \ S
<1>1. SUFFICES ASSUME T # {} PROVE FALSE
  OBVIOUS
<1>2. PICK n \in T : \A k \in T : n <= k
  <2>1. T \subseteq Nat
    OBVIOUS
  <2> HIDE DEF T
  <2> QED BY <1>1, <2>1, LeastNat
<1>3. n # 0 /\ n \in Nat /\ n \notin S
  OBVIOUS
<1>4. n - 1 \in Nat /\ ~(n <= n - 1) /\ (n - 1) + 1 = n
  BY <1>3
<1>5. n - 1 \in S
  BY <1>2, <1>4
<1> QED
  BY <1>3, <1>4, <1>5


Arguments == Seq(Nat)

(* The equation that defines the function of Joined.                       *)
Joins(list, m, f) ==
  f = [n \in 0 .. m |-> IF n = 0 THEN <<>> ELSE f[n - 1] \o list[n]]

LEMMA JoinsExists ==
  ASSUME NEW list, NEW m \in Nat
  PROVE  \E f : Joins(list, m, f)
<1> DEFINE S == {n \in Nat : \E f : Joins(list, n, f)}
<1>1. 0 \in S
  <2> DEFINE f == [n \in 0 .. 0 |-> <<>>]
  <2>1. Joins(list, 0, f)
    <3>1. \A n \in 0 .. 0 : n = 0
      OBVIOUS
    <3> QED BY <3>1 DEF Joins
  <2> QED BY <2>1
<1>2. ASSUME NEW n \in Nat, n \in S PROVE n + 1 \in S
  <2>1. PICK g : Joins(list, n, g)
    BY <1>2
  <2> DEFINE f == [i \in 0 .. n + 1 |-> IF i = n + 1 THEN g[n] \o list[n + 1] ELSE g[i]]
             h == [i \in 0 .. n + 1 |-> IF i = 0 THEN <<>> ELSE f[i - 1] \o list[i]]
  <2>2. ASSUME NEW i \in 0 .. n + 1 PROVE f[i] = h[i]
    <3>1. CASE i = n + 1
      <4>1. i - 1 = n /\ n \in 0 .. n + 1 /\ n # n + 1 /\ i # 0
        BY <3>1
      <4>2. f[i] = g[n] \o list[n + 1] /\ f[n] = g[n]
        BY <3>1, <4>1
      <4>3. h[i] = f[n] \o list[n + 1]
        <5> HIDE DEF f
        <5> QED BY <3>1, <4>1
      <4> HIDE DEF f, h
      <4> QED BY <4>2, <4>3
    <3>2. CASE i # n + 1 /\ i = 0
      <4>1. f[i] = g[0] /\ 0 \in 0 .. n
        BY <3>2
      <4>2. h[i] = <<>>
        <5> HIDE DEF f
        <5> QED BY <3>2
      <4>3. g[0] = <<>>
        BY <2>1, <4>1 DEF Joins
      <4> HIDE DEF f, h
      <4> QED BY <4>1, <4>2, <4>3
    <3>3. CASE i # n + 1 /\ i # 0
      <4>1. i \in 0 .. n /\ i - 1 \in 0 .. n + 1 /\ i - 1 # n + 1
        BY <3>3
      <4>2. f[i] = g[i] /\ f[i - 1] = g[i - 1]
        BY <3>3, <4>1
      <4>3. h[i] = f[i - 1] \o list[i]
        <5> HIDE DEF f
        <5> QED BY <3>3
      <4>4. g[i] = g[i - 1] \o list[i]
        <5> DEFINE e == [k \in 0 .. n |-> IF k = 0 THEN <<>> ELSE g[k - 1] \o list[k]]
        <5>1. g = e
          BY <2>1 DEF Joins
        <5>2. e[i] = g[i - 1] \o list[i]
          BY <3>3, <4>1
        <5> HIDE DEF e
        <5> QED BY <5>1, <5>2
      <4> HIDE DEF f, h
      <4> QED BY <4>2, <4>3, <4>4
    <3> QED BY <3>1, <3>2, <3>3
  <2>3. f = h
    <3> HIDE DEF f
    <3>1. f = [i \in 0 .. n + 1 |-> f[i]]
      BY DEF f
    <3>2. h = [i \in 0 .. n + 1 |-> h[i]]
      OBVIOUS
    <3> HIDE DEF h
    <3> QED BY <2>2, <3>1, <3>2
  <2>4. Joins(list, n + 1, f)
    <3> HIDE DEF f
    <3> QED BY <2>3 DEF Joins
  <2> HIDE DEF f
  <2> QED BY <2>4
<1>3. Nat \subseteq S
  <2> HIDE DEF S
  <2> QED BY <1>1, <1>2, SetInduction
<1> QED
  BY <1>3

(* What Joined has put together after n of the sequences.                  *)
Upto(list, f) ==
  /\ f[0] = <<>>
  /\ \A n \in 1 .. Len(list) : f[n] = f[n - 1] \o list[n]

LEMMA JoinedUpto ==
  ASSUME NEW list \in Seq(Arguments)
  PROVE  \E f : Upto(list, f) /\ Joined(list) = f[Len(list)]
<1>1. Len(list) \in Nat
  BY LenProperties
<1> DEFINE f == CHOOSE f : Joins(list, Len(list), f)
<1>2. Joins(list, Len(list), f)
  BY <1>1, JoinsExists
<1>3. Joined(list) = f[Len(list)]
  BY DEF Joined, Joins
<1> HIDE DEF f
<1>4. Upto(list, f)
  <2> DEFINE e == [n \in 0 .. Len(list) |-> IF n = 0 THEN <<>> ELSE f[n - 1] \o list[n]]
  <2>1. f = e
    BY <1>2 DEF Joins
  <2>2. e[0] = <<>>
    BY <1>1
  <2>3. ASSUME NEW n \in 1 .. Len(list) PROVE e[n] = f[n - 1] \o list[n]
    <3>1. n \in 0 .. Len(list) /\ n # 0
      BY <1>1
    <3> QED BY <3>1
  <2> HIDE DEF e
  <2> QED BY <2>1, <2>2, <2>3 DEF Upto
<1> QED
  BY <1>3, <1>4

LEMMA UptoType ==
  ASSUME NEW list \in Seq(Arguments), NEW f, Upto(list, f), NEW m \in 0 .. Len(list)
  PROVE  f[m] \in Arguments
<1> DEFINE S == {n \in Nat : n <= Len(list) => f[n] \in Arguments}
<1>0. Len(list) \in Nat
  BY LenProperties
<1>1. 0 \in S
  <2>1. f[0] = <<>> /\ <<>> \in Arguments
    BY EmptySeq DEF Upto, Arguments
  <2> QED BY <2>1
<1>2. ASSUME NEW n \in Nat, n \in S PROVE n + 1 \in S
  <2>1. SUFFICES ASSUME n + 1 <= Len(list) PROVE f[n + 1] \in Arguments
    OBVIOUS
  <2>2. n <= Len(list) /\ n + 1 \in 1 .. Len(list) /\ (n + 1) - 1 = n
    BY <1>0, <2>1
  <2>3. f[n] \in Arguments /\ f[n + 1] = f[n] \o list[n + 1]
    BY <1>2, <2>2 DEF Upto
  <2>4. list[n + 1] \in Arguments
    BY <2>2, ElementOfSeq
  <2> QED BY <2>3, <2>4, ConcatProperties DEF Arguments
<1>3. Nat \subseteq S
  <2> HIDE DEF S
  <2> QED BY <1>1, <1>2, SetInduction
<1> QED
  BY <1>0, <1>3

LEMMA JoinedType ==
  ASSUME NEW list \in Seq(Arguments)
  PROVE  Joined(list) \in Arguments
<1>1. PICK f : Upto(list, f) /\ Joined(list) = f[Len(list)]
  BY JoinedUpto
<1>2. Len(list) \in 0 .. Len(list)
  BY LenProperties
<1> QED
  BY <1>1, <1>2, UptoType

LEMMA Associative ==
  ASSUME NEW u \in Seq(Nat), NEW v \in Seq(Nat), NEW w \in Seq(Nat)
  PROVE  (u \o v) \o w = u \o (v \o w)
  BY ConcatAssociative, SMTT(60)

(* Joining two lists is joining each, and one after the other.             *)
LEMMA JoinedConcat ==
  ASSUME NEW s \in Seq(Arguments), NEW t \in Seq(Arguments)
  PROVE  Joined(s \o t) = Joined(s) \o Joined(t)
<1> DEFINE st == s \o t
           a == Len(s)
           b == Len(t)
<1>1. /\ st \in Seq(Arguments) /\ a \in Nat /\ b \in Nat /\ Len(st) = a + b
      /\ \A i \in 1 .. a + b : st[i] = IF i <= a THEN s[i] ELSE t[i - a]
  BY ConcatProperties, LenProperties
<1> HIDE DEF st, a, b
<1>2. PICK f : Upto(s, f) /\ Joined(s) = f[a]
  BY JoinedUpto DEF a
<1>3. PICK g : Upto(t, g) /\ Joined(t) = g[b]
  BY JoinedUpto DEF b
<1>4. PICK h : Upto(st, h) /\ Joined(st) = h[a + b]
  BY <1>1, JoinedUpto
<1>5. h[a] = f[a]
  <2> DEFINE S == {n \in Nat : n <= a => h[n] = f[n]}
  <2>1. 0 \in S
    BY <1>2, <1>4 DEF Upto
  <2>2. ASSUME NEW n \in Nat, n \in S PROVE n + 1 \in S
    <3>1. SUFFICES ASSUME n + 1 <= a PROVE h[n + 1] = f[n + 1]
      OBVIOUS
    <3>2. /\ n <= a /\ n + 1 \in 1 .. a /\ (n + 1) - 1 = n
          /\ n + 1 \in 1 .. a + b
      BY <1>1, <3>1
    <3>3. f[n + 1] = f[n] \o s[n + 1]
      BY <1>2, <3>2 DEF Upto, a
    <3>4. h[n + 1] = h[n] \o st[n + 1]
      BY <1>1, <1>4, <3>2 DEF Upto
    <3>5. st[n + 1] = s[n + 1] /\ h[n] = f[n]
      BY <1>1, <2>2, <3>1, <3>2
    <3> QED BY <3>3, <3>4, <3>5
  <2>3. Nat \subseteq S
    <3> HIDE DEF S
    <3> QED BY <2>1, <2>2, SetInduction
  <2> QED BY <1>1, <2>3
<1>6. f[a] \in Arguments
  BY <1>1, <1>2, UptoType DEF a
<1>7. ASSUME NEW n \in 0 .. b PROVE g[n] \in Arguments
  BY <1>3, UptoType DEF b
<1>8. h[a + b] = f[a] \o g[b]
  <2> DEFINE Q(n) == h[a + n] = f[a] \o g[n]
             S == {n \in Nat : n <= b => Q(n)}
  <2>1. 0 \in S
    <3>1. g[0] = <<>> /\ a + 0 = a
      BY <1>1, <1>3 DEF Upto
    <3>2. f[a] \o <<>> = f[a]
      BY <1>6, ConcatEmptySeq DEF Arguments
    <3> QED BY <1>5, <3>1, <3>2
  <2>2. ASSUME NEW n \in Nat, n \in S PROVE n + 1 \in S
    <3>1. SUFFICES ASSUME n + 1 <= b PROVE h[a + (n + 1)] = f[a] \o g[n + 1]
      <4> HIDE DEF Q
      <4>1. SUFFICES ASSUME n + 1 <= b PROVE Q(n + 1)
        OBVIOUS
      <4> QED BY <4>1 DEF Q
    <3>2. /\ n <= b /\ n + 1 \in 1 .. b /\ (n + 1) - 1 = n /\ n \in 0 .. b
          /\ a + (n + 1) \in 1 .. a + b /\ (a + (n + 1)) - 1 = a + n
          /\ ~(a + (n + 1) <= a) /\ (a + (n + 1)) - a = n + 1
      BY <1>1, <3>1
    <3>3. g[n + 1] = g[n] \o t[n + 1]
      BY <1>3, <3>2 DEF Upto, b
    <3>4. h[a + (n + 1)] = h[a + n] \o st[a + (n + 1)]
      BY <1>1, <1>4, <3>2 DEF Upto
    <3>5. st[a + (n + 1)] = t[n + 1] /\ h[a + n] = f[a] \o g[n]
      BY <1>1, <2>2, <3>1, <3>2
    <3>6. t[n + 1] \in Arguments
      BY <3>2, ElementOfSeq DEF b
    <3>7. (f[a] \o g[n]) \o t[n + 1] = f[a] \o (g[n] \o t[n + 1])
      <4>1. f[a] \in Seq(Nat) /\ g[n] \in Seq(Nat) /\ t[n + 1] \in Seq(Nat)
        BY <1>6, <1>7, <3>2, <3>6 DEF Arguments
      <4> HIDE DEF S, Q
      <4> QED BY <4>1, Associative, Zenon
    <3> QED BY <3>3, <3>4, <3>5, <3>7
  <2>3. Nat \subseteq S
    <3> HIDE DEF S
    <3> QED BY <2>1, <2>2, SetInduction
  <2>4. Q(b)
    <3> HIDE DEF Q
    <3> QED BY <1>1, <2>3
  <2> QED BY <2>4
<1> QED
  BY <1>2, <1>3, <1>4, <1>8 DEF st

LEMMA JoinedNothing ==
  ASSUME NEW list \in Seq(Arguments), \A i \in 1 .. Len(list) : list[i] = <<>>
  PROVE  Joined(list) = <<>>
<1>1. PICK f : Upto(list, f) /\ Joined(list) = f[Len(list)]
  BY JoinedUpto
<1>2. Len(list) \in Nat
  BY LenProperties
<1> DEFINE S == {n \in Nat : n <= Len(list) => f[n] = <<>>}
<1>3. 0 \in S
  BY <1>1 DEF Upto
<1>4. ASSUME NEW n \in Nat, n \in S PROVE n + 1 \in S
  <2>1. SUFFICES ASSUME n + 1 <= Len(list) PROVE f[n + 1] = <<>>
    OBVIOUS
  <2>2. n <= Len(list) /\ n + 1 \in 1 .. Len(list) /\ (n + 1) - 1 = n
    BY <1>2, <2>1
  <2>3. f[n] = <<>> /\ f[n + 1] = f[n] \o list[n + 1] /\ list[n + 1] = <<>>
    BY <1>1, <1>4, <2>2 DEF Upto
  <2>4. <<>> \o <<>> = <<>>
    BY ConcatEmptySeq DEF Arguments
  <2> QED BY <2>3, <2>4
<1>5. Nat \subseteq S
  <2> HIDE DEF S
  <2> QED BY <1>3, <1>4, SetInduction
<1> QED
  BY <1>1, <1>2, <1>5

LEMMA JoinedOne ==
  ASSUME NEW v \in Arguments
  PROVE  Joined(<<v>>) = v
<1>1. <<v>> \in Seq(Arguments) /\ Len(<<v>>) = 1 /\ <<v>>[1] = v
  OBVIOUS
<1>2. PICK f : Upto(<<v>>, f) /\ Joined(<<v>>) = f[1]
  BY <1>1, JoinedUpto
<1>3. f[0] = <<>> /\ f[1] = f[0] \o v
  <2>1. 1 \in 1 .. Len(<<v>>) /\ 1 - 1 = 0
    BY <1>1
  <2>2. f[0] = <<>> /\ f[1] = f[1 - 1] \o <<v>>[1]
    BY <1>2, <2>1, Zenon DEF Upto
  <2> QED BY <1>1, <2>1, <2>2
<1> QED
  BY <1>2, <1>3, ConcatEmptySeq DEF Arguments

-----------------------------------------------------------------------------
(* Clauses, and what the placeholders of a text stand for.                 *)
Clauses == [word : Word, values : Arguments]
ValuesOf(text) == [i \in DOMAIN text |-> text[i].values]
Asked(text) == Joined(ValuesOf(text))

LEMMA ValuesType ==
  ASSUME NEW text \in Seq(Clauses)
  PROVE  /\ ValuesOf(text) \in Seq(Arguments) /\ Len(ValuesOf(text)) = Len(text)
         /\ \A i \in 1 .. Len(text) : ValuesOf(text)[i] = text[i].values
<1>1. Len(text) \in Nat /\ DOMAIN text = 1 .. Len(text)
  BY LenProperties
<1>2. ASSUME NEW i \in 1 .. Len(text) PROVE text[i].values \in Arguments
  <2>1. text[i] \in Clauses
    BY ElementOfSeq
  <2> QED BY <2>1 DEF Clauses
<1>3. ValuesOf(text) = [i \in 1 .. Len(text) |-> text[i].values]
  BY <1>1 DEF ValuesOf
<1> HIDE DEF Arguments
<1>4. ValuesOf(text) \in [1 .. Len(text) -> Arguments]
  BY <1>2, <1>3
<1> QED
  BY <1>1, <1>3, <1>4, SeqDef, LenProperties

LEMMA AskedConcat ==
  ASSUME NEW s \in Seq(Clauses), NEW t \in Seq(Clauses)
  PROVE  /\ s \o t \in Seq(Clauses)
         /\ Asked(s \o t) = Asked(s) \o Asked(t)
<1> DEFINE a == Len(s)
           b == Len(t)
           vs == ValuesOf(s)
           vt == ValuesOf(t)
           v == ValuesOf(s \o t)
<1>1. /\ s \o t \in Seq(Clauses) /\ a \in Nat /\ b \in Nat /\ Len(s \o t) = a + b
      /\ \A i \in 1 .. a + b : (s \o t)[i] = IF i <= a THEN s[i] ELSE t[i - a]
  BY ConcatProperties, LenProperties
<1>2. /\ vs \in Seq(Arguments) /\ Len(vs) = a
      /\ \A i \in 1 .. a : vs[i] = s[i].values
  BY ValuesType
<1>3. /\ vt \in Seq(Arguments) /\ Len(vt) = b
      /\ \A i \in 1 .. b : vt[i] = t[i].values
  BY ValuesType
<1>4. /\ v \in Seq(Arguments) /\ Len(v) = a + b
      /\ \A i \in 1 .. a + b : v[i] = (s \o t)[i].values
  BY <1>1, ValuesType
<1>5. /\ vs \o vt \in Seq(Arguments) /\ Len(vs \o vt) = a + b
      /\ \A i \in 1 .. a + b : (vs \o vt)[i] = IF i <= a THEN vs[i] ELSE vt[i - a]
  <2> HIDE DEF a, b, vs, vt, v
  <2>1. /\ vs \o vt \in Seq(Arguments) /\ Len(vs \o vt) = Len(vs) + Len(vt)
        /\ \A i \in 1 .. Len(vs) + Len(vt) :
             (vs \o vt)[i] = IF i <= Len(vs) THEN vs[i] ELSE vt[i - Len(vs)]
    BY <1>2, <1>3, ConcatProperties
  <2> QED BY <1>2, <1>3, <2>1
<1> HIDE DEF a, b, vs, vt, v
<1>6. ASSUME NEW i \in 1 .. a + b PROVE v[i] = (vs \o vt)[i]
  <2>1. CASE i <= a
    <3>1. i \in 1 .. a
      BY <1>1, <2>1
    <3> QED BY <1>1, <1>2, <1>4, <1>5, <2>1, <3>1
  <2>2. CASE ~(i <= a)
    <3>1. i - a \in 1 .. b
      BY <1>1, <2>2
    <3>2. v[i] = t[i - a].values
      BY <1>1, <1>4, <2>2
    <3>3. (vs \o vt)[i] = vt[i - a]
      BY <1>1, <1>5, <2>2
    <3> QED BY <1>3, <3>1, <3>2, <3>3
  <2> QED BY <2>1, <2>2
<1>7. v = vs \o vt
  BY <1>4, <1>5, <1>6, SeqEqual
<1>8. Joined(vs \o vt) = Joined(vs) \o Joined(vt)
  BY <1>2, <1>3, JoinedConcat
<1> QED
  BY <1>1, <1>7, <1>8 DEF Asked, v, vs, vt

LEMMA AskedType ==
  ASSUME NEW text \in Seq(Clauses)
  PROVE  Asked(text) \in Arguments
  BY ValuesType, JoinedType DEF Asked

(* A clause without values asks for nothing.                               *)
LEMMA AskedNothing ==
  ASSUME NEW text \in Seq(Clauses), \A i \in 1 .. Len(text) : text[i].values = <<>>
  PROVE  Asked(text) = <<>>
  BY ValuesType, JoinedNothing DEF Asked

LEMMA NoText == <<>> \in Seq(Clauses) /\ Asked(<<>>) = <<>>
<1> DEFINE none == <<>>
<1>1. none \in Seq(Clauses) /\ Len(none) = 0 /\ none = <<>>
  BY EmptySeq
<1> HIDE DEF none
<1>2. \A i \in 1 .. Len(none) : none[i].values = <<>>
  BY <1>1
<1>3. Asked(none) = <<>>
  BY <1>1, <1>2, AskedNothing
<1> QED
  BY <1>1, <1>3

LEMMA OneClause ==
  ASSUME NEW word \in Word, NEW values \in Arguments
  PROVE  /\ <<Clause(word, values)>> \in Seq(Clauses)
         /\ Asked(<<Clause(word, values)>>) = values
<1> DEFINE c == Clause(word, values)
<1>1. c \in Clauses /\ c.values = values
  BY DEF Clause, Clauses
<1> HIDE DEF c
<1> DEFINE cs == <<c>>
<1>2. cs \in Seq(Clauses) /\ Len(cs) = 1 /\ cs[1] = c /\ cs = <<c>>
  BY <1>1
<1> HIDE DEF cs
<1>3. ValuesOf(cs) = <<values>>
  <2>1. ValuesOf(cs) \in Seq(Arguments) /\ Len(ValuesOf(cs)) = 1 /\ ValuesOf(cs)[1] = values
    <3>1. 1 \in 1 .. Len(cs)
      BY <1>2
    <3>2. /\ ValuesOf(cs) \in Seq(Arguments) /\ Len(ValuesOf(cs)) = Len(cs)
          /\ ValuesOf(cs)[1] = cs[1].values
      BY <1>2, <3>1, ValuesType, Zenon
    <3> QED BY <1>1, <1>2, <3>2
  <2>2. <<values>> \in Seq(Arguments) /\ Len(<<values>>) = 1 /\ <<values>>[1] = values
    OBVIOUS
  <2> QED BY <2>1, <2>2, SeqEqual
<1> QED
  BY <1>2, <1>3, JoinedOne DEF Asked, c

LEMMA OptionalClause ==
  ASSUME NEW cond \in BOOLEAN, NEW word \in Word
  PROVE  ClauseIf(cond, word) \in Seq(Clauses) /\ Asked(ClauseIf(cond, word)) = <<>>
<1>1. <<>> \in Arguments
  BY EmptySeq DEF Arguments
<1>2. /\ <<Clause(word, <<>>)>> \in Seq(Clauses)
      /\ Asked(<<Clause(word, <<>>)>>) = <<>>
  BY <1>1, OneClause
<1>3. CASE cond
  BY <1>2, <1>3 DEF ClauseIf
<1>4. CASE ~cond
  BY <1>4, NoText DEF ClauseIf
<1> QED
  BY <1>3, <1>4

-----------------------------------------------------------------------------
(* Conditions, of which those on NULL have no value.                       *)
Logic == {"AND", "OR"}
Conds == {c \in [kind : Kind, logic : Logic, values : Arguments] :
            c.kind \in {"null", "not null"} => c.values = <<>>}

LEMMA ConditionsFit ==
  ASSUME NEW word \in Word, NEW conds \in Seq(Conds)
  PROVE  /\ Conditions(word, conds) \in Seq(Clauses)
         /\ ParamsOf(conds) \in Arguments
         /\ Asked(Conditions(word, conds)) = ParamsOf(conds)
<1> DEFINE n == Len(conds)
           text == Conditions(word, conds)
           list == [i \in DOMAIN conds |->
                      IF conds[i].kind \in {"null", "not null"} THEN <<>> ELSE conds[i].values]
<1>1. n \in Nat /\ DOMAIN conds = 1 .. n
  BY LenProperties
<1>2. ASSUME NEW i \in 1 .. n
      PROVE  /\ conds[i] \in Conds
             /\ conds[i].values \in Arguments /\ conds[i].logic \in Word
             /\ list[i] = conds[i].values
  <2>1. conds[i] \in Conds
    BY ElementOfSeq
  <2>2. conds[i].values \in Arguments /\ conds[i].logic \in Logic
    BY <2>1 DEF Conds
  <2>3. conds[i].logic \in Word
    BY <2>2 DEF Logic, Word
  <2>4. list[i] = conds[i].values
    BY <1>1, <2>1 DEF Conds
  <2> QED BY <2>1, <2>2, <2>3, <2>4
<1>3. text = [i \in 1 .. n |-> Clause(IF i = 1 THEN word ELSE conds[i].logic, conds[i].values)]
  BY <1>1 DEF Conditions
<1>4. list = [i \in 1 .. n |-> list[i]]
  BY <1>1
<1>5. ParamsOf(conds) = Joined(list)
  BY DEF ParamsOf
<1> HIDE DEF n, text, list
<1>6. ASSUME NEW i \in 1 .. n
      PROVE  text[i] \in Clauses /\ text[i].values = conds[i].values
  <2>1. text[i] = Clause(IF i = 1 THEN word ELSE conds[i].logic, conds[i].values)
    BY <1>3
  <2>2. (IF i = 1 THEN word ELSE conds[i].logic) \in Word
    BY <1>2
  <2> QED BY <1>2, <2>1, <2>2 DEF Clause, Clauses
<1>7. text \in Seq(Clauses) /\ Len(text) = n
  <2>1. text \in [1 .. n -> Clauses]
    <3> HIDE DEF Clauses
    <3>1. text = [i \in 1 .. n |-> text[i]]
      BY <1>3
    <3> QED BY <1>6, <3>1
  <2> QED BY <1>1, <2>1, SeqDef, LenProperties
<1>8. ValuesOf(text) = list
  <2>1. ValuesOf(text) = [i \in 1 .. n |-> text[i].values]
    BY <1>7, LenProperties DEF ValuesOf
  <2>2. ASSUME NEW i \in 1 .. n PROVE text[i].values = list[i]
    BY <1>2, <1>6
  <2> QED BY <1>4, <2>1, <2>2
<1>9. ValuesOf(text) \in Seq(Arguments)
  BY <1>7, ValuesType
<1> QED
  BY <1>5, <1>7, <1>8, <1>9, JoinedType DEF Asked, text

LEMMA JoinsAskNothing ==
  ASSUME NEW joins \in Seq(Word)
  PROVE  /\ [i \in DOMAIN joins |-> Clause(joins[i], <<>>)] \in Seq(Clauses)
         /\ Asked([i \in DOMAIN joins |-> Clause(joins[i], <<>>)]) = <<>>
<1> DEFINE n == Len(joins)
           text == [i \in DOMAIN joins |-> Clause(joins[i], <<>>)]
<1>1. n \in Nat /\ DOMAIN joins = 1 .. n
  BY LenProperties
<1>2. ASSUME NEW i \in 1 .. n PROVE joins[i] \in Word
  BY ElementOfSeq
<1>3. text = [i \in 1 .. n |-> Clause(joins[i], <<>>)]
  BY <1>1
<1>4. <<>> \in Arguments
  BY EmptySeq DEF Arguments
<1> HIDE DEF n, text
<1>5. ASSUME NEW i \in 1 .. n PROVE text[i] \in Clauses /\ text[i].values = <<>>
  BY <1>2, <1>3, <1>4 DEF Clause, Clauses
<1>6. text \in Seq(Clauses) /\ Len(text) = n
  <2>1. text \in [1 .. n -> Clauses]
    <3> HIDE DEF Clauses
    <3>1. text = [i \in 1 .. n |-> text[i]]
      BY <1>3
    <3> QED BY <1>5, <3>1
  <2> QED BY <1>1, <2>1, SeqDef, LenProperties
<1> QED
  BY <1>5, <1>6, AskedNothing DEF text

-----------------------------------------------------------------------------
Builders ==
  [err : BOOLEAN, table : BOOLEAN, count : BOOLEAN, where : Seq(Conds),
   having : Seq(Conds), joins : Seq(Word), group : BOOLEAN, order : BOOLEAN,
   limit : Nat, offset : Nat, union : Unions \cup {NoQuery}, all : BOOLEAN]

Answers(s) == Fits(s) /\ s.params \in Arguments

LEMMA EmptyConcat ==
  ASSUME NEW v \in Arguments
  PROVE  v \o <<>> = v /\ <<>> \o v = v
  BY ConcatEmptySeq DEF Arguments

LEMMA TwoValues ==
  ASSUME NEW v \in Arguments, NEW w \in Arguments
  PROVE  v \o w \in Arguments
  BY ConcatProperties DEF Arguments

(* What a union adds, and the values that it brings.                       *)
UnionText(b) ==
  IF b.union = NoQuery THEN <<>>
  ELSE <<Clause(IF b.all THEN "UNION ALL" ELSE "UNION", <<>>)>> \o b.union.text
UnionParams(b) == IF b.union = NoQuery THEN <<>> ELSE b.union.params

LEMMA UnionFits ==
  ASSUME NEW b \in Builders
  PROVE  /\ UnionText(b) \in Seq(Clauses) /\ UnionParams(b) \in Arguments
         /\ Asked(UnionText(b)) = UnionParams(b)
<1>0. <<>> \in Arguments
  BY EmptySeq DEF Arguments
<1>1. CASE b.union = NoQuery
  BY <1>0, <1>1, NoText DEF UnionText, UnionParams
<1>2. CASE b.union # NoQuery
  <2> DEFINE u == b.union
             word == IF b.all THEN "UNION ALL" ELSE "UNION"
             head == <<Clause(word, <<>>)>>
  <2>1. u \in Unions
    BY <1>2 DEF Builders
  <2>2. u.params \in Arguments /\ u.text \in Seq(Clauses) /\ Fits(u)
    BY <2>1, UnionAssumption DEF Clauses, Arguments
  <2>3. word \in Word
    BY DEF Word
  <2>4. UnionText(b) = head \o u.text /\ UnionParams(b) = u.params
    BY <1>2 DEF UnionText, UnionParams
  <2> HIDE DEF u, word
  <2>5. head \in Seq(Clauses) /\ Asked(head) = <<>>
    BY <1>0, <2>3, OneClause
  <2>6. Asked(u.text) = u.params
    BY <2>2 DEF Fits, Asked, ValuesOf
  <2> HIDE DEF head
  <2>7. head \o u.text \in Seq(Clauses) /\ Asked(head \o u.text) = <<>> \o u.params
    BY <2>2, <2>5, <2>6, AskedConcat
  <2>8. <<>> \o u.params = u.params
    BY <2>2, EmptyConcat
  <2> QED BY <2>2, <2>4, <2>7, <2>8
<1> QED
  BY <1>1, <1>2

(* One more part of a text, that asks for nothing.                         *)
LEMMA AddNothing ==
  ASSUME NEW s \in Seq(Clauses), NEW t \in Seq(Clauses), Asked(t) = <<>>
  PROVE  s \o t \in Seq(Clauses) /\ Asked(s \o t) = Asked(s)
<1>1. s \o t \in Seq(Clauses) /\ Asked(s \o t) = Asked(s) \o <<>> /\ Asked(s) \in Arguments
  BY AskedConcat, AskedType
<1> QED
  BY <1>1, EmptyConcat

LEMMA ToSQLFits ==
  ASSUME NEW b \in Builders
  PROVE  Answers(ToSQL(b))
<1> DEFINE word == IF b.count THEN "COUNT" ELSE "SELECT"
           t1 == <<Clause(word, <<>>)>>
           t2 == [i \in DOMAIN b.joins |-> Clause(b.joins[i], <<>>)]
           t3 == Conditions("WHERE", b.where)
           t4 == ClauseIf(b.group, "GROUP BY")
           t5 == Conditions("HAVING", b.having)
           t6 == ClauseIf(b.order, "ORDER BY")
           t7 == ClauseIf(b.limit > 0, "LIMIT")
           t8 == ClauseIf(b.offset > 0, "OFFSET")
           t9 == UnionText(b)
           pw == ParamsOf(b.where)
           ph == ParamsOf(b.having)
           pu == UnionParams(b)
<1>0. <<>> \in Arguments
  BY EmptySeq DEF Arguments
<1>1. /\ b.where \in Seq(Conds) /\ b.having \in Seq(Conds) /\ b.joins \in Seq(Word)
      /\ b.group \in BOOLEAN /\ b.order \in BOOLEAN
      /\ b.limit \in Nat /\ b.offset \in Nat
  BY DEF Builders
<1>2. word \in Word /\ "WHERE" \in Word /\ "HAVING" \in Word /\ "GROUP BY" \in Word
      /\ "ORDER BY" \in Word /\ "LIMIT" \in Word /\ "OFFSET" \in Word
  BY DEF Word
<1>3. t1 \in Seq(Clauses) /\ Asked(t1) = <<>>
  <2> HIDE DEF word
  <2> QED BY <1>0, <1>2, OneClause
<1>4. t2 \in Seq(Clauses) /\ Asked(t2) = <<>>
  BY <1>1, JoinsAskNothing
<1>5. t3 \in Seq(Clauses) /\ pw \in Arguments /\ Asked(t3) = pw
  BY <1>1, <1>2, ConditionsFit
<1>6. t5 \in Seq(Clauses) /\ ph \in Arguments /\ Asked(t5) = ph
  BY <1>1, <1>2, ConditionsFit
<1>7. /\ t4 \in Seq(Clauses) /\ Asked(t4) = <<>>
      /\ t6 \in Seq(Clauses) /\ Asked(t6) = <<>>
  BY <1>1, <1>2, OptionalClause
<1>8. /\ t7 \in Seq(Clauses) /\ Asked(t7) = <<>>
      /\ t8 \in Seq(Clauses) /\ Asked(t8) = <<>>
  <2>1. (b.limit > 0) \in BOOLEAN /\ (b.offset > 0) \in BOOLEAN
    OBVIOUS
  <2> QED BY <1>2, <2>1, OptionalClause
<1>9. t9 \in Seq(Clauses) /\ pu \in Arguments /\ Asked(t9) = pu
  BY UnionFits
<1>10. /\ ToSQL(b).text = t1 \o t2 \o t3 \o t4 \o t5 \o t6 \o t7 \o t8 \o t9
       /\ ToSQL(b).params = pw \o ph \o pu
  BY DEF ToSQL, UnionText, UnionParams
<1> HIDE DEF t1, t2, t3, t4, t5, t6, t7, t8, t9, pw, ph, pu
<1>11. t1 \o t2 \in Seq(Clauses) /\ Asked(t1 \o t2) = <<>>
  BY <1>3, <1>4, AddNothing
<1> DEFINE p3 == t1 \o t2 \o t3
           p4 == p3 \o t4
           p5 == p4 \o t5
           p6 == p5 \o t6
           p7 == p6 \o t7
           p8 == p7 \o t8
<1>12. p3 \in Seq(Clauses) /\ Asked(p3) = pw
  <2> DEFINE p2 == t1 \o t2
  <2>1. p2 \in Seq(Clauses) /\ Asked(p2) = <<>> /\ p3 = p2 \o t3
    BY <1>11
  <2> HIDE DEF p2, p3
  <2>2. p2 \o t3 \in Seq(Clauses) /\ Asked(p2 \o t3) = <<>> \o pw
    BY <1>5, <2>1, AskedConcat
  <2> QED BY <1>5, <2>1, <2>2, EmptyConcat
<1>13. ToSQL(b).text = p8 \o t9
  BY <1>10
<1> HIDE DEF p3
<1>14. p4 \in Seq(Clauses) /\ Asked(p4) = pw
  BY <1>7, <1>12, AddNothing
<1> HIDE DEF p4
<1>15. p5 \in Seq(Clauses) /\ Asked(p5) = pw \o ph
  BY <1>6, <1>14, AskedConcat
<1> HIDE DEF p5
<1>16. p6 \in Seq(Clauses) /\ Asked(p6) = pw \o ph
  BY <1>7, <1>15, AddNothing
<1> HIDE DEF p6
<1>17. p7 \in Seq(Clauses) /\ Asked(p7) = pw \o ph
  BY <1>8, <1>16, AddNothing
<1> HIDE DEF p7
<1>18. p8 \in Seq(Clauses) /\ Asked(p8) = pw \o ph
  BY <1>8, <1>17, AddNothing
<1> HIDE DEF p8
<1>19. Asked(p8 \o t9) = pw \o ph \o pu
  BY <1>9, <1>18, AskedConcat
<1>20. pw \o ph \o pu \in Arguments
  BY <1>5, <1>6, <1>9, TwoValues
<1>21. Asked(ToSQL(b).text) = ToSQL(b).params
  BY <1>10, <1>13, <1>19
<1> QED
  BY <1>10, <1>20, <1>21 DEF Answers, Fits, Asked, ValuesOf

(* What a write sends.                                                     *)
LEMMA WriteFits ==
  ASSUME NEW word \in Word, NEW data \in Arguments, NEW conds \in Seq(Conds),
         NEW s, s.text = <<Clause(word, data)>> \o Conditions("WHERE", conds),
         s.params = data \o ParamsOf(conds)
  PROVE  Answers(s)
<1> DEFINE t1 == <<Clause(word, data)>>
           t2 == Conditions("WHERE", conds)
           p == ParamsOf(conds)
<1>1. t1 \in Seq(Clauses) /\ Asked(t1) = data
  BY OneClause
<1>2. "WHERE" \in Word
  BY DEF Word
<1>3. t2 \in Seq(Clauses) /\ p \in Arguments /\ Asked(t2) = p
  BY <1>2, ConditionsFit
<1> HIDE DEF t1, t2, p
<1>4. Asked(t1 \o t2) = data \o p
  BY <1>1, <1>3, AskedConcat
<1>5. s.text = t1 \o t2 /\ s.params = data \o p
  BY DEF t1, t2, p
<1>6. data \o p \in Arguments
  BY <1>3, TwoValues
<1> QED
  BY <1>4, <1>5, <1>6 DEF Answers, Fits, Asked, ValuesOf

(* The statement of a builder that refuses is empty.                       *)
LEMMA NothingFits ==
  Answers([refused |-> TRUE, text |-> <<>>, params |-> <<>>])
<1> DEFINE s == [refused |-> TRUE, text |-> <<>>, params |-> <<>>]
<1>1. s.text = <<>> /\ s.params = <<>> /\ <<>> \in Arguments
  BY EmptySeq DEF Arguments
<1> HIDE DEF s
<1>2. Asked(s.text) = s.params
  BY <1>1, NoText
<1>3. Answers(s)
  BY <1>1, <1>2 DEF Answers, Fits, Asked, ValuesOf
<1> QED
  BY <1>3 DEF s

-----------------------------------------------------------------------------
(* The builder is one that calls can make, and the statement is answered.  *)
QueryInv ==
  /\ calls \in 0 .. MaxCalls
  /\ qb \in Builders
  /\ statement # NoQuery => Answers(statement)

(* What a call adds to the chain.                                          *)
LEMMA CondIsOne ==
  ASSUME NEW kind \in Kind, NEW logic \in Logic, NEW values \in Arguments,
         kind \in {"null", "not null"} => values = <<>>
  PROVE  Condition(kind, logic, values) \in Conds
  BY DEF Condition, Conds

LEMMA ChainedKeeps ==
  ASSUME QueryInv, NEW b \in Builders, Chained(b)
  PROVE  QueryInv'
  BY QueryAssumption DEF QueryInv, Chained, Answers, Fits

LEMMA FieldsKeep ==
  ASSUME NEW b \in Builders, NEW cs \in Seq(Conds), NEW js \in Seq(Word), NEW n \in Nat
  PROVE  /\ [b EXCEPT !.where = cs] \in Builders
         /\ [b EXCEPT !.having = cs] \in Builders
         /\ [b EXCEPT !.joins = js] \in Builders
         /\ [b EXCEPT !.limit = n] \in Builders
         /\ [b EXCEPT !.offset = n] \in Builders
<1> DEFINE C == Seq(Conds)
           J == Seq(Word)
<1>1. Builders =
        [err : BOOLEAN, table : BOOLEAN, count : BOOLEAN, where : C, having : C,
         joins : J, group : BOOLEAN, order : BOOLEAN, limit : Nat, offset : Nat,
         union : Unions \cup {NoQuery}, all : BOOLEAN]
  BY DEF Builders
<1>2. cs \in C /\ js \in J
  OBVIOUS
<1> HIDE DEF C, J
<1> QED
  BY <1>1, <1>2

LEMMA AddWhereKeeps ==
  ASSUME QueryInv, NEW c \in Conds, AddWhere(c)
  PROVE  QueryInv'
<1> DEFINE b == [qb EXCEPT !.where = Append(@, c)]
<1>1. b \in Builders
  <2>1. qb \in Builders /\ qb.where \in Seq(Conds)
    BY DEF QueryInv, Builders
  <2>2. Append(qb.where, c) \in Seq(Conds)
    BY <2>1, AppendProperties
  <2> QED BY <2>1, <2>2, FieldsKeep, EmptySeq
<1>2. Chained(b)
  BY DEF AddWhere
<1> HIDE DEF b
<1> QED
  BY <1>1, <1>2, ChainedKeeps

LEMMA SmallValues ==
  ASSUME QueryInv
  PROVE  /\ <<>> \in Arguments /\ <<calls>> \in Arguments
         /\ <<10 * calls + 1, 10 * calls + 2>> \in Arguments
         /\ \A n \in 0 .. 2 : [i \in 1 .. n |-> 10 * calls + i] \in Arguments
<1>1. calls \in Nat /\ 10 * calls + 1 \in Nat /\ 10 * calls + 2 \in Nat
  BY QueryAssumption DEF QueryInv
<1>2. ASSUME NEW n \in 0 .. 2
      PROVE  [i \in 1 .. n |-> 10 * calls + i] \in Seq(Nat)
  <2>1. n \in Nat /\ \A i \in 1 .. n : 10 * calls + i \in Nat
    BY <1>1
  <2>2. [i \in 1 .. n |-> 10 * calls + i] \in [1 .. n -> Nat]
    BY <2>1
  <2> QED BY <2>1, <2>2, SeqDef
<1> QED
  BY <1>1, <1>2 DEF Arguments

LEMMA ConditionKeeps ==
  ASSUME QueryInv, Where \/ OrWhere \/ WhereIn \/ WhereBetween \/ WhereNull \/ WhereNotNull
  PROVE  QueryInv'
<1>0. /\ "compare" \in Kind /\ "null" \in Kind /\ "not null" \in Kind /\ "list" \in Kind
      /\ "AND" \in Logic /\ "OR" \in Logic
  BY DEF Kind, Logic
<1>1. ASSUME NEW logic \in Logic, AnyCondition(logic) PROVE QueryInv'
  <2>1. /\ Condition("compare", logic, <<calls>>) \in Conds
        /\ Condition("null", logic, <<>>) \in Conds
        /\ Condition("list", logic, <<>>) \in Conds
    BY <1>0, SmallValues, CondIsOne
  <2> QED BY <1>1, <2>1, AddWhereKeeps DEF AnyCondition
<1>2. CASE Where \/ OrWhere
  BY <1>0, <1>1, <1>2 DEF Where, OrWhere
<1>3. CASE WhereIn
  <2>1. PICK n \in 0 .. 2 :
          AddWhere(Condition("list", "AND", [i \in 1 .. n |-> 10 * calls + i]))
    BY <1>3 DEF WhereIn
  <2> DEFINE v == [i \in 1 .. n |-> 10 * calls + i]
  <2>2. v \in Arguments
    BY SmallValues
  <2>3. AddWhere(Condition("list", "AND", v))
    BY <2>1
  <2> HIDE DEF v
  <2>4. Condition("list", "AND", v) \in Conds
    BY <1>0, <2>2, CondIsOne
  <2> QED BY <2>3, <2>4, AddWhereKeeps
<1>4. CASE WhereBetween
  <2>1. Condition("list", "AND", <<10 * calls + 1, 10 * calls + 2>>) \in Conds
    BY <1>0, SmallValues, CondIsOne
  <2> QED BY <1>4, <2>1, AddWhereKeeps DEF WhereBetween
<1>5. CASE WhereNull \/ WhereNotNull
  <2>1. Condition("null", "AND", <<>>) \in Conds /\ Condition("not null", "AND", <<>>) \in Conds
    BY <1>0, SmallValues, CondIsOne
  <2> QED BY <1>5, <2>1, AddWhereKeeps DEF WhereNull, WhereNotNull
<1> QED
  BY <1>2, <1>3, <1>4, <1>5

LEMMA FreshBuilder ==
  ASSUME NEW conds \in Seq(Conds), NEW err \in BOOLEAN
  PROVE  /\ Builder(err, conds) \in Builders
         /\ [Builder(err, conds) EXCEPT !.table = TRUE] \in Builders
<1>1. <<>> \in Seq(Conds) /\ <<>> \in Seq(Word)
  BY EmptySeq
<1> QED
  BY <1>1 DEF Builder, Builders

LEMMA RelatedKeeps ==
  ASSUME QueryInv, NEW column \in Nat, Related(column)
  PROVE  QueryInv'
<1> DEFINE cs == <<Condition("compare", "AND", <<column>>)>>
           b == [Builder(FALSE, cs) EXCEPT !.table = TRUE]
<1>1. "compare" \in Kind /\ "AND" \in Logic /\ <<column>> \in Arguments
  BY DEF Kind, Logic, Arguments
<1>2. Condition("compare", "AND", <<column>>) \in Conds
  BY <1>1, CondIsOne
<1>3. cs \in Seq(Conds)
  BY <1>2
<1>4. Chained(b)
  BY DEF Related
<1> HIDE DEF cs
<1>5. b \in Builders
  BY <1>3, FreshBuilder
<1> HIDE DEF b
<1> QED
  BY <1>4, <1>5, ChainedKeeps

LEMMA OtherCallKeeps ==
  ASSUME QueryInv,
         \/ Invalid \/ Table \/ Select \/ Join \/ LeftJoin \/ RightJoin \/ GroupBy
         \/ OrderBy \/ Having \/ Limit \/ Offset \/ Paginate \/ Union \/ UnionAll
  PROVE  QueryInv'
<1>0. qb \in Builders
  BY DEF QueryInv
<1>1. CASE Invalid
  <2>1. [qb EXCEPT !.err = TRUE] \in Builders
    BY <1>0 DEF Builders
  <2> QED BY <1>1, <2>1, ChainedKeeps DEF Invalid
<1>2. CASE Table
  <2>1. [qb EXCEPT !.table = TRUE] \in Builders
    BY <1>0 DEF Builders
  <2> QED BY <1>2, <2>1, ChainedKeeps DEF Table
<1>3. CASE Select
  <2>1. [qb EXCEPT !.count = FALSE] \in Builders
    BY <1>0 DEF Builders
  <2> QED BY <1>3, <2>1, ChainedKeeps DEF Select
<1>4. CASE Join \/ LeftJoin \/ RightJoin
  <2>1. ASSUME NEW kind \in Word, AddJoin(kind) PROVE QueryInv'
    <3> DEFINE b == [qb EXCEPT !.joins = Append(@, kind)]
    <3>1. b \in Builders
      <4>1. qb.joins \in Seq(Word)
        BY <1>0 DEF Builders
      <4>2. Append(qb.joins, kind) \in Seq(Word)
        BY <4>1, AppendProperties
      <4> QED BY <1>0, <4>2, FieldsKeep, EmptySeq
    <3>2. Chained(b)
      BY <2>1 DEF AddJoin
    <3> HIDE DEF b
    <3> QED BY <3>1, <3>2, ChainedKeeps
  <2>2. "INNER JOIN" \in Word /\ "LEFT JOIN" \in Word /\ "RIGHT JOIN" \in Word
    BY DEF Word
  <2> QED BY <1>4, <2>1, <2>2 DEF Join, LeftJoin, RightJoin
<1>5. CASE GroupBy
  <2>1. [qb EXCEPT !.group = TRUE] \in Builders
    BY <1>0 DEF Builders
  <2> QED BY <1>5, <2>1, ChainedKeeps DEF GroupBy
<1>6. CASE OrderBy
  <2>1. [qb EXCEPT !.order = TRUE] \in Builders
    BY <1>0 DEF Builders
  <2> QED BY <1>6, <2>1, ChainedKeeps DEF OrderBy
<1>7. CASE Having
  <2> DEFINE c == Condition("compare", "AND", <<calls>>)
             b == [qb EXCEPT !.having = Append(@, c)]
  <2>1. "compare" \in Kind /\ "AND" \in Logic
    BY DEF Kind, Logic
  <2>2. c \in Conds
    BY <2>1, SmallValues, CondIsOne
  <2>3. Chained(b)
    BY <1>7 DEF Having
  <2> HIDE DEF c
  <2>4. b \in Builders
    <3>1. qb.having \in Seq(Conds)
      BY <1>0 DEF Builders
    <3>2. Append(qb.having, c) \in Seq(Conds)
      BY <2>2, <3>1, AppendProperties
    <3> QED BY <1>0, <3>2, FieldsKeep, EmptySeq
  <2> HIDE DEF b
  <2> QED BY <2>3, <2>4, ChainedKeeps
<1>8. CASE Limit
  <2>1. PICK n \in 0 .. 1 : Chained([qb EXCEPT !.limit = n])
    BY <1>8 DEF Limit
  <2>2. [qb EXCEPT !.limit = n] \in Builders
    <3>1. n \in Nat
      OBVIOUS
    <3> QED BY <1>0, <3>1, FieldsKeep, EmptySeq
  <2> QED BY <2>1, <2>2, ChainedKeeps
<1>9. CASE Offset
  <2>1. PICK n \in 0 .. 1 : Chained([qb EXCEPT !.offset = n])
    BY <1>9 DEF Offset
  <2>2. [qb EXCEPT !.offset = n] \in Builders
    <3>1. n \in Nat
      OBVIOUS
    <3> QED BY <1>0, <3>1, FieldsKeep, EmptySeq
  <2> QED BY <2>1, <2>2, ChainedKeeps
<1>10. CASE Paginate
  <2>1. PICK shown \in 0 .. 2 :
          Chained([qb EXCEPT !.limit = 15,
                             !.offset = IF shown < 1 THEN 0 ELSE 15 * (shown - 1)])
    BY <1>10 DEF Paginate
  <2> DEFINE o == IF shown < 1 THEN 0 ELSE 15 * (shown - 1)
  <2>2. o \in Nat
    OBVIOUS
  <2>3. Chained([qb EXCEPT !.limit = 15, !.offset = o])
    BY <2>1
  <2> HIDE DEF o
  <2>4. [qb EXCEPT !.limit = 15, !.offset = o] \in Builders
    BY <1>0, <2>2 DEF Builders
  <2> QED BY <2>3, <2>4, ChainedKeeps
<1>11. CASE Union \/ UnionAll
  <2>1. PICK all \in BOOLEAN : AddUnion(all)
    BY <1>11 DEF Union, UnionAll
  <2>2. PICK u \in Unions : Chained([qb EXCEPT !.union = u, !.all = all])
    BY <2>1 DEF AddUnion
  <2>3. [qb EXCEPT !.union = u, !.all = all] \in Builders
    BY <1>0 DEF Builders
  <2> QED BY <2>2, <2>3, ChainedKeeps
<1> QED
  BY <1>1, <1>2, <1>3, <1>4, <1>5, <1>6, <1>7, <1>8, <1>9, <1>10, <1>11

LEMMA SentKeeps ==
  ASSUME QueryInv, NEW s, Answers(s), Sent(s), qb' \in Builders
  PROVE  QueryInv'
  BY DEF QueryInv, Sent, Answers, Fits

LEMMA AssignmentsType == Assignments \subseteq Arguments /\ <<100>> \in Arguments /\ <<101>> \in Arguments
  BY EmptySeq DEF Assignments, Arguments

LEMMA WriteKeeps ==
  ASSUME QueryInv, NEW word \in Word, NEW data \in Arguments, NEW conds \in Seq(Conds),
         Write(word, data, conds)
  PROVE  QueryInv'
<1> DEFINE s == [refused |-> FALSE,
                 text |-> <<Clause(word, data)>> \o Conditions("WHERE", conds),
                 params |-> data \o ParamsOf(conds)]
<1>1. Answers(s)
  BY WriteFits
<1>2. Sent(s) /\ qb' = qb
  BY DEF Write
<1> HIDE DEF s
<1>3. qb' \in Builders
  BY <1>2 DEF QueryInv
<1> QED
  BY <1>1, <1>2, <1>3, SentKeeps

LEMMA StatementKeeps ==
  ASSUME QueryInv,
         Get \/ First \/ Count \/ Insert \/ Update \/ SoftDelete \/ Restore \/ Delete
  PROVE  QueryInv'
<1>0. qb \in Builders /\ qb.where \in Seq(Conds) /\ <<>> \in Seq(Conds) /\ <<>> \in Arguments
  BY EmptySeq DEF QueryInv, Builders, Arguments
<1>1. CASE Get
  <2>1. Sent(ToSQL(qb)) /\ qb' = qb
    BY <1>1 DEF Get
  <2> QED BY <1>0, <2>1, ToSQLFits, SentKeeps
<1>2. CASE First
  <2>1. qb' = [qb EXCEPT !.limit = 1]
    BY <1>2 DEF First
  <2>2. qb' \in Builders
    BY <1>0, <2>1 DEF Builders
  <2>3. PICK s : Sent(s) /\ s \in {[refused |-> TRUE, text |-> <<>>, params |-> <<>>],
                                   ToSQL(qb')}
    BY <1>2 DEF First
  <2>4. Answers(s)
    BY <2>2, <2>3, ToSQLFits, NothingFits
  <2> QED BY <2>2, <2>3, <2>4, SentKeeps
<1>3. CASE Count
  <2> DEFINE counting == [qb EXCEPT !.count = TRUE]
  <2>1. counting \in Builders
    BY <1>0 DEF Builders
  <2>2. \/ qb' = counting /\ UNCHANGED <<calls, statement>>
        \/ qb' = qb /\ Sent(ToSQL(counting))
    BY <1>3 DEF Count
  <2> HIDE DEF counting
  <2>3. CASE qb' = counting /\ UNCHANGED <<calls, statement>>
    BY <2>1, <2>3 DEF QueryInv, Answers, Fits
  <2>4. CASE qb' = qb /\ Sent(ToSQL(counting))
    BY <1>0, <2>1, <2>4, ToSQLFits, SentKeeps
  <2> QED BY <2>2, <2>3, <2>4
<1>4. CASE Insert \/ Update \/ SoftDelete \/ Restore \/ Delete
  <2>1. PICK word \in Word, data \in Arguments, conds \in Seq(Conds) : Write(word, data, conds)
    <3>1. "INSERT" \in Word /\ "UPDATE" \in Word /\ "DELETE" \in Word
      BY DEF Word
    <3>2. Assignments \subseteq Arguments /\ <<100>> \in Arguments /\ <<101>> \in Arguments
      BY AssignmentsType
    <3> HIDE DEF Arguments
    <3> QED BY <1>0, <1>4, <3>1, <3>2 DEF Insert, Update, SoftDelete, Restore, Delete
  <2> QED BY <2>1, WriteKeeps
<1> QED
  BY <1>1, <1>2, <1>3, <1>4

LEMMA QueryInitInv == QueryInit => QueryInv
<1> SUFFICES ASSUME QueryInit PROVE QueryInv
  OBVIOUS
<1>1. "null" \in Kind /\ "AND" \in Logic /\ <<>> \in Arguments /\ <<>> \in Seq(Conds)
  BY EmptySeq DEF Kind, Logic, Arguments
<1>2. Condition("null", "AND", <<>>) \in Conds
  BY <1>1, CondIsOne
<1>3. <<Condition("null", "AND", <<>>)>> \in Seq(Conds)
  BY <1>2
<1>4. qb \in Builders
  BY <1>1, <1>3, FreshBuilder DEF QueryInit
<1> QED
  BY <1>4, QueryAssumption DEF QueryInit, QueryInv

LEMMA QueryNextKeeps == QueryInv /\ [QueryNext]_queryVars => QueryInv'
<1> SUFFICES ASSUME QueryInv, [QueryNext]_queryVars PROVE QueryInv'
  OBVIOUS
<1>1. CASE UNCHANGED queryVars
  BY <1>1 DEF QueryInv, queryVars, Answers, Fits
<1>2. CASE HasMany \/ BelongsTo
  <2>1. calls \in Nat /\ 100 + calls \in Nat
    BY QueryAssumption DEF QueryInv
  <2> QED BY <1>2, <2>1, RelatedKeeps DEF HasMany, BelongsTo
<1>3. CASE Where \/ OrWhere \/ WhereIn \/ WhereBetween \/ WhereNull \/ WhereNotNull
  BY <1>3, ConditionKeeps
<1>4. CASE \/ Invalid \/ Table \/ Select \/ Join \/ LeftJoin \/ RightJoin \/ GroupBy
           \/ OrderBy \/ Having \/ Limit \/ Offset \/ Paginate \/ Union \/ UnionAll
  BY <1>4, OtherCallKeeps
<1>5. CASE Get \/ First \/ Count \/ Insert \/ Update \/ SoftDelete \/ Restore \/ Delete
  BY <1>5, StatementKeeps
<1> QED
  BY <1>1, <1>2, <1>3, <1>4, <1>5 DEF QueryNext, Chain

(* Whatever chain of calls made the builder: it holds conditions of which  *)
(* those on NULL have no values, and the last statement is answered.       *)
THEOREM QueryInvariant == QuerySpec => []QueryInv
  BY QueryInitInv, QueryNextKeeps, PTL DEF QuerySpec

LEMMA QueryInvTyped == QueryInv => QueryTypeOK
<1> SUFFICES ASSUME QueryInv PROVE QueryTypeOK
  OBVIOUS
<1>1. qb \in Builders
  BY DEF QueryInv
<1>2. ASSUME NEW v \in Arguments PROVE Range(v) \subseteq Nat
  BY <1>2, ElementOfSeq DEF Arguments, Range
<1>3. ASSUME NEW cs \in Seq(Conds), NEW c \in Range(cs)
      PROVE  c.kind \in Kind /\ c.logic \in {"AND", "OR"} /\ Range(c.values) \subseteq Nat
  <2>1. c \in Conds
    BY <1>3, ElementOfSeq, LenProperties DEF Range
  <2> QED BY <1>2, <2>1 DEF Conds, Logic
<1>4. /\ qb.err \in BOOLEAN /\ qb.table \in BOOLEAN /\ qb.count \in BOOLEAN
      /\ qb.where \in Seq(Conds) /\ qb.having \in Seq(Conds)
      /\ qb.union \in Unions \cup {NoQuery}
  BY <1>1 DEF Builders
<1>5. statement = NoQuery \/ Range(statement.params) \subseteq Nat
  BY <1>2 DEF QueryInv, Answers
<1> QED
  BY <1>3, <1>4, <1>5 DEF QueryInv, QueryTypeOK

(* The builder of database/query_builder.go keeps the shape that its calls *)
(* give it, however many of them and of the statements there are.          *)
THEOREM QueryTypesCorrect == QuerySpec => []QueryTypeOK
  BY QueryInvariant, QueryInvTyped, PTL

(* ToSQL, buildWhereClause, Insert, Update and Delete append a value where *)
(* they write its placeholder: reading any statement of any chain from the *)
(* left, each placeholder is given the value of its own condition.         *)
THEOREM ArgumentsAnswer == QuerySpec => []ArgumentsFit
<1>1. QueryInv => ArgumentsFit
  BY DEF QueryInv, ArgumentsFit, Answers
<1> QED
  BY <1>1, QueryInvariant, PTL

-----------------------------------------------------------------------------
(* Part 7: all of them.                                                    *)
(* A step of one part leaves the others alone, but for the clock that the  *)
(* two limiters share.                                                     *)
LEMMA LimitersStep ==
  ASSUME [Next]_vars
  PROVE  /\ [BucketNext]_<<now, bucketVars>>
         /\ [WindowNext]_<<now, windowVars>>
         /\ [ThrottleNext]_throttleVars
<1>1. CASE strategy = "bucket" /\ BucketNext /\ UNCHANGED <<windowVars, throttleVars>>
  <2>1. UNCHANGED <<now, windowVars>> \/ WindowTick
    BY <1>1 DEF BucketNext, BucketGrant, BucketDeny, BucketReset, Observe, bucketCleanUp,
                BucketStop, BucketTick, WindowTick
  <2> QED BY <1>1, <2>1 DEF WindowNext
<1>2. CASE strategy = "window" /\ WindowNext /\ UNCHANGED <<bucketVars, throttleVars>>
  <2>1. UNCHANGED <<now, bucketVars>> \/ BucketTick
    BY <1>2 DEF WindowNext, WindowGrant, WindowDeny, WindowReset, windowCleanUp,
                WindowStop, WindowTick, BucketTick, bucketVars
  <2> QED BY <1>2, <2>1 DEF BucketNext
<1>3. CASE strategy = "throttle" /\ ThrottleNext /\ UNCHANGED <<now, bucketVars, windowVars>>
  BY <1>3
<1>4. CASE UNCHANGED limitVars
  BY <1>4 DEF limitVars
<1> QED
  BY <1>1, <1>2, <1>3, <1>4 DEF Next, LimitNext, vars

LEMMA WatchersStep ==
  ASSUME [Next]_vars
  PROVE  [MonitorNext]_monitorVars /\ [MetricsNext]_metricsVars
  BY DEF Next, WatchNext, watchVars, vars

LEMMA ServicesStep ==
  ASSUME [Next]_vars
  PROVE  /\ [SessionNext]_sessionVars /\ [CacheNext]_cacheVars /\ [QueryNext]_queryVars
         /\ [ChunkNext]_chunkVars /\ [TxNext]_txVars
  BY DEF Next, DataNext, dataVars, vars

(* The limiters, the watchers and the data services share nothing but the  *)
(* clock: put together, each behaves as it does alone.                     *)
THEOREM PartsBehave ==
  Spec => /\ BucketSpec /\ WindowSpec /\ ThrottleSpec /\ MonitorSpec /\ MetricsSpec
          /\ SessionSpec /\ CacheSpec /\ QuerySpec /\ ChunkSpec /\ TxSpec
<1>1. Init => /\ now = 0 /\ BucketInit /\ WindowInit /\ ThrottleInit /\ MonitorInit
              /\ MetricsInit /\ SessionInit /\ CacheInit /\ QueryInit /\ ChunkInit /\ TxInit
  BY DEF Init
<1>2. [Next]_vars => /\ [BucketNext]_<<now, bucketVars>> /\ [WindowNext]_<<now, windowVars>>
                     /\ [ThrottleNext]_throttleVars
  BY LimitersStep
<1>3. [Next]_vars => [MonitorNext]_monitorVars /\ [MetricsNext]_metricsVars
  BY WatchersStep
<1>4. [Next]_vars => /\ [SessionNext]_sessionVars /\ [CacheNext]_cacheVars
                     /\ [QueryNext]_queryVars /\ [ChunkNext]_chunkVars /\ [TxNext]_txVars
  BY ServicesStep
<1> QED
  BY <1>1, <1>2, <1>3, <1>4, PTL
  DEF Spec, BucketSpec, WindowSpec, ThrottleSpec, MonitorSpec, MetricsSpec, SessionSpec,
      CacheSpec, QuerySpec, ChunkSpec, TxSpec

LEMMA StrategyStays == Spec => [](strategy \in Strategy)
<1>1. Init => strategy \in Strategy
  BY DEF Init
<1>2. strategy \in Strategy /\ [Next]_vars => (strategy \in Strategy)'
  BY DEF Next, vars
<1> QED
  BY <1>1, <1>2, PTL DEF Spec

(* Whatever the application puts before its routes and behind them, and    *)
(* whatever is asked of it, each part keeps its types.                     *)
THEOREM MiddlewareTypesCorrect == Spec => []TypeOK
<1>1. /\ strategy \in Strategy /\ BInv /\ WInv /\ ThrottleTypeOK /\ MonitorInv
      /\ MetricsTypeOK /\ SessionTypeOK /\ CacheTypeOK /\ QueryTypeOK /\ ChunkTypeOK /\ TxTypeOK
      => TypeOK
  <2>1. SUFFICES ASSUME strategy \in Strategy, BInv, WInv, ThrottleTypeOK, MonitorInv,
                        MetricsTypeOK, SessionTypeOK, CacheTypeOK, QueryTypeOK,
                        ChunkTypeOK, TxTypeOK
                 PROVE  TypeOK
    OBVIOUS
  <2>2. now \in Time /\ BucketTypeOK
    BY <2>1 DEF BInv
  <2>3. WindowTypeOK
    BY <2>1 DEF WInv
  <2>4. MonitorTypeOK
    BY <2>1 DEF MonitorInv
  <2> QED BY <2>1, <2>2, <2>3, <2>4 DEF TypeOK, Strategy
<1> QED
  BY <1>1, StrategyStays, PartsBehave, BucketInvariance, WindowInvariance,
     ThrottleTypesCorrect, MonitorInvariance, MetricsTypesCorrect, SessionTypesCorrect,
     CacheTypesCorrect, QueryTypesCorrect, ChunkTypesCorrect, TxTypesCorrect, PTL

(* What each part promises holds beside the others: the burst of the token *)
(* bucket, the blocks, timers and locks of the throttle, that nothing but  *)
(* its lock cycles keeps anybody and that those are for good, the blocks   *)
(* of the monitor, the sums of the metrics, the tokens of the sessions,    *)
(* the keys of the cache, the arguments of the statements, the pages of    *)
(* both chunk loops and the outcome of a transaction.                      *)
THEOREM PartsPromise ==
  Spec => /\ [](/\ BurstBounded /\ BlockHasTimer /\ TimersBounded /\ OneHolder /\ LoopOK
                /\ GoesOn /\ CyclesNeedSubnets /\ BlockDeserved
                /\ MetricsAddUp /\ LoginRenews /\ CacheKeeps /\ ArgumentsFit
                /\ ChunkVisitsOnce /\ ByIDRereads /\ TransactionSettles)
          /\ CyclesLast
  BY PartsBehave, BucketBurstBounded, BlocksEnd, FewTimersPending, StatisticsExclusive, LoopsFindTheirEntries,
     SomebodyGoesOn, SubnetsCycle, CyclesAreForGood,
     MonitorBlockDeserved, MetricsSum, LoginsRenew, CacheKept, ArgumentsAnswer, ChunkOnce,
     ByIDNeverAdvances, TransactionsSettle, PTL

(* Beside all the rest the sliding window of api/ratelimit.go keeps the    *)
(* promise of WindowLimit: it denies exactly what it must.                 *)
THEOREM LimitImplemented == Spec => ImplementsWindowLimit
  BY PartsBehave, WindowImplementsLimit, PTL DEF ImplementsWindowLimit

(* Allow of both strategies: whoever waits for the reset time that it was  *)
(* told is not denied again, in any interleaving with the cleanup, with    *)
(* other keys and with the other parts.                                    *)
THEOREM ResetsHonoured == Spec => ResetHonoured
<1>1. BInv /\ WInv =>
        [\A k \in Key : BucketResetHonoured(k) /\ WindowResetHonoured(k)]_vars
  BY BucketKeepsPromise, WindowKeepsPromise
<1> QED
  BY <1>1, PartsBehave, BucketInvariance, WindowInvariance, PTL DEF ResetHonoured
=============================================================================
