------------------------------- MODULE Sessions -------------------------------
(***************************************************************************)
(* session/session.go between a handler and the session manager of scs:    *)
(* LoadAndSave loads the session of the request's token before the         *)
(* handlers and commits it after them, since the idle timeout has every    *)
(* session written back.  Two requests with one token work on copies, and  *)
(* both are committed.                                                     *)
(*                                                                         *)
(* There is no clock: a session that exists may be old enough to be        *)
(* renewed, too old to be valid or to be found, at any time.  What it      *)
(* knows of its user is whether there is one.                              *)
(***************************************************************************)
EXTENDS Naturals, Functions

CONSTANTS
  MaxTokens,   \* bound on the tokens that are made, which are numbers from 1
  Exchange     \* requests being served

ASSUME SessionAssumption == MaxTokens \in Nat

VARIABLES
  stored,    \* the store: the session of each token that has one
  exchange,  \* the requests: their token, their copy, what becomes of it
  made,      \* number of tokens that were made
  strangers, \* history: tokens under which a session without a user was stored
  revoked,   \* history: tokens whose session was renewed or destroyed
  outlived   \* history: those that another request held at that moment

history == <<strangers, revoked, outlived>>
sessionVars == <<stored, exchange, made, history>>

NoToken == 0
Session == [user : BOOLEAN, created : BOOLEAN]   \* is there a user_id, a created_at
Empty == [user |-> FALSE, created |-> FALSE]
NoExchange == [at |-> "idle", token |-> NoToken, data |-> Empty, status |-> "unmodified"]

SessionTypeOK ==
  /\ made \in 0..MaxTokens
  /\ DOMAIN stored \subseteq 1..made /\ Range(stored) \subseteq Session
  /\ exchange \in [Exchange ->
       [at : {"idle", "rotate", "handle", "commit"}, token : 0..made, data : Session,
        status : {"unmodified", "modified", "destroyed"}]]
  /\ UNION {strangers, revoked, outlived} \subseteq 1..made

SessionInit ==
  /\ stored = <<>> /\ exchange = [x \in Exchange |-> NoExchange] /\ made = 0
  /\ strangers = {} /\ revoked = {} /\ outlived = {}

(* A request comes with a token that has a session, or without.            *)
LoadSession(x) ==
  /\ exchange[x].at = "idle"
  /\ \/ exchange' = [exchange EXCEPT ![x].at = "rotate"]
     \/ \E t \in DOMAIN stored :
          exchange' = [exchange EXCEPT ![x] =
            [at |-> "rotate", token |-> t, data |-> stored[t], status |-> "modified"]]
  /\ UNCHANGED <<stored, made, history>>

Revoke(x) ==
  LET tokens == {exchange[x].token} \ {NoToken} IN
  /\ stored' = Restrict(stored, DOMAIN stored \ tokens)
  /\ revoked' = revoked \cup tokens
  /\ outlived' = outlived \cup {t \in tokens : \E y \in Exchange \ {x} : exchange[y].token = t}
  /\ UNCHANGED strangers

Modify(x, at, token, data) ==
  exchange' = [exchange EXCEPT ![x] =
    [at |-> at, token |-> token, data |-> data, status |-> "modified"]]

(* RenewToken deletes the session of the old token; Commit stores it under *)
(* the new one.                                                            *)
RenewToken(x, at, data) ==
  /\ made < MaxTokens /\ made' = made + 1
  /\ Revoke(x) /\ Modify(x, at, made', data)

Put(x, at, data) ==
  Modify(x, at, exchange[x].token, data) /\ UNCHANGED <<stored, made, history>>

(* The rotation middleware: a new session gets its created_at; one that is *)
(* old enough is renewed, unless that fails, which is ignored.             *)
Rotate(x) ==
  LET data == [exchange[x].data EXCEPT !.created = TRUE] IN
  /\ exchange[x].at = "rotate"
  /\ \/ exchange[x].data.created /\ RenewToken(x, "handle", data)
     \/ Put(x, "handle", data)

(* Mutant: the session keeps its token.                                    *)
LoginInPlace(x) ==
  /\ exchange[x].at = "handle"
  /\ Put(x, "commit", [user |-> TRUE, created |-> TRUE])

LoginUser(x) ==
  /\ exchange[x].at = "handle"
  /\ RenewToken(x, "commit", [user |-> TRUE, created |-> TRUE])

Destroy(x) ==
  /\ exchange[x].at = "handle" /\ Revoke(x)
  /\ exchange' = [exchange EXCEPT ![x] =
       [at |-> "commit", token |-> NoToken, data |-> Empty, status |-> "destroyed"]]
  /\ UNCHANGED made

LogoutUser(x) == Destroy(x)

(* The session of another client, or that is too old, is destroyed.        *)
ValidateSession(x) == exchange[x].data.user /\ Destroy(x)

(* The handler is done; a validation or a renewal that failed is no more.  *)
Handled(x) ==
  /\ exchange[x].at = "handle" /\ exchange' = [exchange EXCEPT ![x].at = "commit"]
  /\ UNCHANGED <<stored, made, history>>

(* A session that is destroyed is not stored; one without a token gets one. *)
CommitSession(x) ==
  LET data == exchange[x].data
      fresh == exchange[x].token = NoToken
      t == IF fresh THEN made + 1 ELSE exchange[x].token
  IN  /\ exchange[x].at = "commit" /\ exchange' = [exchange EXCEPT ![x] = NoExchange]
      /\ \/ exchange[x].status = "destroyed" /\ UNCHANGED <<stored, made, strangers>>
         \/ /\ exchange[x].status = "modified" /\ t <= MaxTokens
            /\ made' = IF fresh THEN t ELSE made
            /\ stored' = [u \in DOMAIN stored \cup {t} |-> IF u = t THEN data ELSE stored[u]]
            /\ strangers' = strangers \cup {u \in {t} : ~data.user}
      /\ UNCHANGED <<revoked, outlived>>

ExpireSession(t) ==
  /\ stored' = Restrict(stored, DOMAIN stored \ {t})
  /\ UNCHANGED <<exchange, made, history>>

SessionNext ==
  \/ \E x \in Exchange :
       \/ LoadSession(x) \/ Rotate(x) \/ LoginUser(x) \/ LogoutUser(x)
       \/ ValidateSession(x) \/ Handled(x) \/ CommitSession(x)
  \/ \E t \in DOMAIN stored : ExpireSession(t)

SessionSpec == SessionInit /\ [][SessionNext]_sessionVars
-----------------------------------------------------------------------------
(* Nobody is logged in by a token that was given out before the login,     *)
(* whatever requests with the old token are under way; and a token that    *)
(* was renewed or logged out is of no use any more, unless another request *)
(* had loaded its session before and commits it afterwards.                *)
LoginRenews ==
  /\ \A t \in DOMAIN stored : stored[t].user => t \notin strangers
  /\ revoked \cap DOMAIN stored \subseteq outlived
=============================================================================
