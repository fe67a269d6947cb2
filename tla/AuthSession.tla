---------------------------- MODULE AuthSession ----------------------------
(***************************************************************************)
(* Refresh-token sessions: authUseCase (Login, Refresh, Logout,            *)
(* RevokeAllForUser), userUseCase.ChangePassword and (De)Activate, and the *)
(* cache keys they share.  A session of token t is a pair of keys:         *)
(*   refresh:tok:<t>       holds the user       lookup[t]                  *)
(*   refresh:user:<u>:<t>  the revocation gate  <<u, t>> \in index         *)
(* Requests run concurrently; every cache or database call of a request is *)
(* a step of its own.  A Redis call that returns an error may or may not   *)
(* have taken effect.                                                      *)
(***************************************************************************)
EXTENDS Naturals

CONSTANTS
  Users,
  Tokens,      \* bound: refresh tokens that are ever generated
  Reqs,        \* requests in progress at one time
  Redis,       \* TRUE: RedisCache; FALSE: NoOpCache
  MaxChanges,  \* bound: ChangePassword requests
  MaxEvents,   \* bound: failed calls, crashes, expiries and deactivations
  None

ASSUME AuthInputs ==
  /\ None \notin Users /\ None \notin Tokens
  /\ Redis \in BOOLEAN
  /\ MaxChanges \in Nat /\ MaxEvents \in Nat

VARIABLES
  lookup,      \* lookup[t]: the user stored under t's lookup key, or None
  index,       \* the per-user index keys present
  active,      \* users.is_active
  written,     \* the changes an UPDATE of users.password_hash has stored
  pc,          \* pc[r]: the next call of request r
  op,          \* op[r]: which handler r is in
  user, tok,   \* user[r], tok[r]: the user and the token in hand
  want,        \* want[r]: the password a ChangePassword wants
  before,      \* before[r]: the tokens out when a ChangePassword began
  must,        \* must[r]: the index keys its SCAN loop has to return
  page,        \* page[r]: the keys the last SCAN returned
  owner,       \* owner[t]: whom t was generated for, None before that
  returned,    \* tokens some response handed to a client
  ended,       \* tokens a request has reported as ended
  disabled,    \* tokens handed out before a Deactivate of their user
  changes,     \* ChangePassword requests so far
  confirmed,   \* changes reported as successful
  events       \* bounded environment events so far

cacheVars   == <<lookup, index>>
userVars    == <<active, written>>
reqVars     == <<pc, op, user, tok, want, before, must, page>>
historyVars == <<owner, returned, ended, disabled, changes, confirmed>>
vars == <<cacheVars, userVars, reqVars, historyVars, events>>

Phases == {"idle", "setLookup", "setIndex", "undo", "getIndex", "getUser", "delLookup", "delIndex",
           "updatePassword", "revoke", "scan", "del"}

Handlers == {"none", "login", "refresh", "logout", "change"}

TypeOK ==
  /\ lookup \in [Tokens -> Users \cup {None}]
  /\ index \in SUBSET (Users \X Tokens)
  /\ active \in [Users -> BOOLEAN]
  /\ written \in SUBSET Nat
  /\ pc \in [Reqs -> Phases]
  /\ op \in [Reqs -> Handlers]
  /\ user \in [Reqs -> Users \cup {None}]
  /\ tok \in [Reqs -> Tokens \cup {None}]
  /\ want \in [Reqs -> Nat]
  /\ before \in [Reqs -> SUBSET Tokens]
  /\ must \in [Reqs -> SUBSET Tokens]
  /\ page \in [Reqs -> SUBSET Tokens]
  /\ owner \in [Tokens -> Users \cup {None}]
  /\ returned \in SUBSET Tokens
  /\ ended \in SUBSET Tokens
  /\ disabled \in SUBSET Tokens
  /\ changes \in Nat
  /\ confirmed \in SUBSET Nat
  /\ events \in Nat

(* Both keys of t are there: Refresh accepts it. *)
Valid(t) == lookup[t] # None /\ <<lookup[t], t>> \in index

UserKeys(u) == {t \in Tokens : <<u, t>> \in index}

Unissued == {t \in Tokens : owner[t] = None}
FreshToken == CHOOSE t \in Unissued : TRUE

Event == events < MaxEvents /\ events' = events + 1

Begin(r, p, h, u, t) ==
  /\ pc[r] = "idle"
  /\ pc' = [pc EXCEPT ![r] = p]
  /\ op' = [op EXCEPT ![r] = h]
  /\ user' = [user EXCEPT ![r] = u]
  /\ tok' = [tok EXCEPT ![r] = t]

Goto(r, p) ==
  /\ pc' = [pc EXCEPT ![r] = p]
  /\ UNCHANGED <<op, user, tok, want, before, must, page>>

(* The response is sent; the request's locals are gone. *)
Finish(r) ==
  /\ pc' = [pc EXCEPT ![r] = "idle"]
  /\ op' = [op EXCEPT ![r] = "none"]
  /\ user' = [user EXCEPT ![r] = None]
  /\ tok' = [tok EXCEPT ![r] = None]
  /\ want' = [want EXCEPT ![r] = 0]
  /\ before' = [before EXCEPT ![r] = {}]
  /\ must' = [must EXCEPT ![r] = {}]
  /\ page' = [page EXCEPT ![r] = {}]

(* Cache.Set, Cache.Delete on the two keys; NoOpCache keeps nothing. *)
WithLookup(u, t)  == IF Redis THEN [lookup EXCEPT ![t] = u] ELSE lookup
WithoutLookup(t)  == [lookup EXCEPT ![t] = None]

(* Faulty variant: the parts of the index key are swapped. *)
IndexSwapped(u, t) == IF Redis THEN index \cup {<<t, u>>} ELSE index

WithIndex(u, t) == IF Redis THEN index \cup {<<u, t>>} ELSE index
WithoutIndex(u, S) == index \ ({u} \X S)

(* A Delete of a lookup key whose error the caller drops. *)
DeleteLookup(t) ==
  \/ lookup' = WithoutLookup(t) /\ UNCHANGED events
  \/ Event /\ UNCHANGED lookup

Init ==
  /\ lookup = [t \in Tokens |-> None]
  /\ index = {}
  /\ active = [u \in Users |-> TRUE]
  /\ written = {}
  /\ pc = [r \in Reqs |-> "idle"] /\ op = [r \in Reqs |-> "none"]
  /\ user = [r \in Reqs |-> None] /\ tok = [r \in Reqs |-> None]
  /\ want = [r \in Reqs |-> 0]
  /\ before = [r \in Reqs |-> {}] /\ must = [r \in Reqs |-> {}] /\ page = [r \in Reqs |-> {}]
  /\ owner = [t \in Tokens |-> None]
  /\ returned = {} /\ ended = {} /\ disabled = {}
  /\ changes = 0 /\ confirmed = {} /\ events = 0

-----------------------------------------------------------------------------
(* Login up to generateRefreshToken, for a caller with the right password. *)
(* A wrong password or an inactive user is answered 401 and changes        *)
(* nothing.                                                                *)
Login(r, u) ==
  /\ active[u]
  /\ Unissued # {}
  /\ owner' = [owner EXCEPT ![FreshToken] = u]
  /\ Begin(r, "setLookup", "login", u, FreshToken)
  /\ UNCHANGED <<want, before, must, page, cacheVars, userVars, returned, ended, disabled, changes, confirmed, events>>

(* cache.Set of the lookup key; on error the request is refused. *)
SetLookup(r) ==
  /\ pc[r] = "setLookup"
  /\ \/ lookup' = WithLookup(user[r], tok[r]) /\ Goto(r, "setIndex") /\ UNCHANGED events
     \/ Redis /\ Event /\ lookup' \in {lookup, WithLookup(user[r], tok[r])} /\ Finish(r)
  /\ UNCHANGED <<index, userVars, historyVars>>

(* Faulty variant: the token is answered whether or not its key is stored. *)
SetIndexUnchecked(r) ==
  /\ pc[r] = "setIndex"
  /\ index' \in {index, WithIndex(user[r], tok[r])}
  /\ returned' = returned \cup {tok[r]}
  /\ Finish(r)
  /\ UNCHANGED <<lookup, userVars, owner, ended, disabled, changes, confirmed, events>>

(* cache.Set of the index key, then the response with the token; on error  *)
(* the lookup key is taken back first.                                     *)
SetIndex(r) ==
  /\ pc[r] = "setIndex"
  /\ \/ /\ index' = WithIndex(user[r], tok[r])
        /\ returned' = returned \cup {tok[r]}
        /\ Finish(r)
        /\ UNCHANGED events
     \/ /\ Redis /\ Event
        /\ index' \in {index, WithIndex(user[r], tok[r])}
        /\ Goto(r, "undo")
        /\ UNCHANGED returned
  /\ UNCHANGED <<lookup, userVars, owner, ended, disabled, changes, confirmed>>

(* The best-effort delete of the partner key. *)
Undo(r) ==
  /\ pc[r] = "undo"
  /\ DeleteLookup(tok[r])
  /\ Finish(r)
  /\ UNCHANGED <<index, userVars, historyVars>>

-----------------------------------------------------------------------------
(* Refresh: the lookup key resolves to a user.  A miss or an error is      *)
(* answered 401 and changes nothing.                                       *)
Refresh(r, t) ==
  /\ t \in returned
  /\ lookup[t] # None
  /\ Begin(r, "getIndex", "refresh", lookup[t], t)
  /\ UNCHANGED <<want, before, must, page, cacheVars, userVars, historyVars, events>>

(* The index key is the revocation gate; a miss or an error ends in 401. *)
GetIndex(r) ==
  /\ pc[r] = "getIndex"
  /\ \/ <<user[r], tok[r]>> \in index /\ Goto(r, "getUser") /\ UNCHANGED events
     \/ <<user[r], tok[r]>> \notin index /\ Finish(r) /\ UNCHANGED events
     \/ Event /\ Finish(r)
  /\ UNCHANGED <<cacheVars, userVars, historyVars>>

(* userRepo.GetByID, which does not ask whether the user is active. *)
GetUser(r) ==
  /\ pc[r] = "getUser"
  /\ \/ Goto(r, "delLookup") /\ UNCHANGED events
     \/ Event /\ Finish(r)
  /\ UNCHANGED <<cacheVars, userVars, historyVars>>

(* Delete of the old lookup key, whatever comes of it. *)
DelLookup(r) ==
  /\ pc[r] = "delLookup"
  /\ DeleteLookup(tok[r])
  /\ Goto(r, "delIndex")
  /\ UNCHANGED <<index, userVars, historyVars>>

(* After the deletes Logout answers, and Refresh generates the new token. *)
AfterDelete(r) ==
  \/ op[r] = "logout" /\ Finish(r) /\ UNCHANGED owner
  \/ /\ op[r] = "refresh"
     /\ Unissued # {}
     /\ owner' = [owner EXCEPT ![FreshToken] = user[r]]
     /\ pc' = [pc EXCEPT ![r] = "setLookup"]
     /\ tok' = [tok EXCEPT ![r] = FreshToken]
     /\ UNCHANGED <<op, user, want, before, must, page>>

(* Delete of the old index key; the error is dropped. *)
DelIndex(r) ==
  /\ pc[r] = "delIndex"
  /\ \/ index' = WithoutIndex(user[r], {tok[r]}) /\ ended' = ended \cup {tok[r]} /\ UNCHANGED events
     \/ Event /\ index' \in {index, WithoutIndex(user[r], {tok[r]})} /\ UNCHANGED ended
  /\ AfterDelete(r)
  /\ UNCHANGED <<lookup, userVars, returned, disabled, changes, confirmed>>

(* Faulty variant: the caller's identity is not compared. *)
LogoutAnyone(r, u, t) ==
  /\ t \in returned
  /\ lookup[t] # None
  /\ Begin(r, "delLookup", "logout", u, t)
  /\ UNCHANGED <<want, before, must, page, cacheVars, userVars, historyVars, events>>

(* Logout by the authenticated user u.  A miss, an error and a token of    *)
(* another user are answered with silent success and change nothing.       *)
Logout(r, u, t) ==
  /\ t \in returned
  /\ lookup[t] = u
  /\ Begin(r, "delLookup", "logout", u, t)
  /\ UNCHANGED <<want, before, must, page, cacheVars, userVars, historyVars, events>>

-----------------------------------------------------------------------------
(* ChangePassword: GetByID and the comparison with the current password.   *)
(* A wrong password is refused and changes nothing.                        *)
ChangePassword(r, u) ==
  /\ changes < MaxChanges
  /\ changes' = changes + 1
  /\ Begin(r, "updatePassword", "change", u, None)
  /\ want' = [want EXCEPT ![r] = changes + 1]
  /\ before' = [before EXCEPT ![r] = {t \in returned : owner[t] = u}]
  /\ UNCHANGED <<must, page, cacheVars, userVars, owner, returned, ended, disabled, confirmed, events>>

(* UPDATE ... WHERE id = $1 AND is_active = true: no row is no error. *)
UpdatePassword(r) ==
  /\ pc[r] = "updatePassword"
  /\ LET stored == IF active[user[r]] THEN written \cup {want[r]} ELSE written
     IN  \/ written' = stored /\ Goto(r, "revoke") /\ UNCHANGED events
         \/ Event /\ written' \in {written, stored} /\ Finish(r)
  /\ UNCHANGED <<cacheVars, active, historyVars>>

(* Faulty variant: the missing cache is taken for one without keys. *)
RevokeSilently(r) ==
  /\ pc[r] = "revoke"
  /\ pc' = [pc EXCEPT ![r] = "scan"]
  /\ must' = [must EXCEPT ![r] = UserKeys(user[r])]
  /\ UNCHANGED <<op, user, tok, want, before, page, cacheVars, userVars, historyVars, events>>

(* RevokeAllForUser, DeleteByPrefix: the SCAN loop starts.  It is bound to *)
(* return every key that is there from its start to its end.  NoOpCache    *)
(* answers ErrCacheUnavailable.                                            *)
Revoke(r) ==
  /\ pc[r] = "revoke"
  /\ \/ /\ Redis
        /\ pc' = [pc EXCEPT ![r] = "scan"]
        /\ must' = [must EXCEPT ![r] = UserKeys(user[r])]
        /\ UNCHANGED <<op, user, tok, want, before, page>>
     \/ ~Redis /\ Finish(r)
  /\ UNCHANGED <<cacheVars, userVars, historyVars, events>>

(* One SCAN call with a page of keys, or with an error. *)
Scan(r) ==
  /\ pc[r] = "scan"
  /\ \/ /\ \E S \in (SUBSET UserKeys(user[r])) \ {{}} : page' = [page EXCEPT ![r] = S]
        /\ pc' = [pc EXCEPT ![r] = "del"]
        /\ UNCHANGED <<op, user, tok, want, before, must, events>>
     \/ Event /\ Finish(r)
  /\ UNCHANGED <<cacheVars, userVars, historyVars>>

(* Faulty variant: the keys of the page are left alone. *)
DelPageForgotten(r) ==
  /\ pc[r] = "del"
  /\ pc' = [pc EXCEPT ![r] = "scan"]
  /\ must' = [must EXCEPT ![r] = @ \ page[r]]
  /\ page' = [page EXCEPT ![r] = {}]
  /\ UNCHANGED <<op, user, tok, want, before, cacheVars, userVars, historyVars, events>>

(* DEL of the page. *)
DelPage(r) ==
  /\ pc[r] = "del"
  /\ \/ /\ index' = WithoutIndex(user[r], page[r])
        /\ pc' = [pc EXCEPT ![r] = "scan"]
        /\ page' = [page EXCEPT ![r] = {}]
        /\ UNCHANGED <<op, user, tok, want, before, must, events>>
     \/ Event /\ index' \in {index, WithoutIndex(user[r], page[r])} /\ Finish(r)
  /\ UNCHANGED <<lookup, userVars, historyVars>>

(* Cursor 0: ChangePassword reports success. *)
Changed(r) ==
  /\ pc[r] = "scan"
  /\ must[r] \cap UserKeys(user[r]) = {}
  /\ ended' = ended \cup before[r]
  /\ confirmed' = confirmed \cup {want[r]}
  /\ Finish(r)
  /\ UNCHANGED <<cacheVars, userVars, owner, returned, disabled, changes, events>>

-----------------------------------------------------------------------------
(* Deactivate and Delete: one UPDATE of is_active. *)
Deactivate(u) ==
  /\ Event
  /\ active[u]
  /\ active' = [active EXCEPT ![u] = FALSE]
  /\ disabled' = disabled \cup {t \in returned : owner[t] = u}
  /\ UNCHANGED <<cacheVars, written, reqVars, owner, returned, ended, changes, confirmed>>

Activate(u) ==
  /\ ~active[u]
  /\ active' = [active EXCEPT ![u] = TRUE]
  /\ UNCHANGED <<cacheVars, written, reqVars, historyVars, events>>

(* The keys of a token share one TTL, and the lookup key was set first.    *)
(* Refresh TTLs are minutes to days: no key expires in the request that    *)
(* sets it.                                                                *)
Expire(t) ==
  /\ Event
  /\ t \in returned
  /\ lookup[t] # None
  /\ lookup' = WithoutLookup(t)
  /\ index' \in {index, WithoutIndex(lookup[t], {t})}
  /\ UNCHANGED <<userVars, reqVars, historyVars>>

(* The API process dies between two calls of the request. *)
Abort(r) ==
  /\ Event
  /\ pc[r] # "idle"
  /\ Finish(r)
  /\ UNCHANGED <<cacheVars, userVars, historyVars>>

-----------------------------------------------------------------------------
Step(r) ==
  \/ SetLookup(r) \/ SetIndex(r) \/ Undo(r)
  \/ GetIndex(r) \/ GetUser(r) \/ DelLookup(r) \/ DelIndex(r)
  \/ UpdatePassword(r) \/ Revoke(r) \/ Scan(r) \/ DelPage(r) \/ Changed(r)
  \/ Abort(r)

Arrive(r) ==
  \/ \E u \in Users : Login(r, u) \/ ChangePassword(r, u)
  \/ \E t \in Tokens : Refresh(r, t)
  \/ \E u \in Users, t \in Tokens : Logout(r, u, t)

Next ==
  \/ \E r \in Reqs : Arrive(r) \/ Step(r)
  \/ \E u \in Users : Deactivate(u) \/ Activate(u)
  \/ \E t \in Tokens : Expire(t)

Spec == Init /\ [][Next]_vars

-----------------------------------------------------------------------------
(* A token is never accepted again once a request has reported its end: a  *)
(* ChangePassword that began after the token was handed out and succeeded, *)
(* a Logout or a Refresh whose deletes went through.  This holds whatever  *)
(* other logins, refreshes and revocations run in between, though          *)
(* revocation deletes only index keys, page by page.                       *)
EndedNeverValid == \A t \in ended : ~Valid(t)

(* A login or refresh answers with a token only when both of its keys are  *)
(* stored, so that the session it opens can be refreshed and revoked       *)
(* (authUseCase.Login and Refresh, fail-closed).                           *)
LoginStoresSession == [][\A t \in returned' \ returned : Valid(t)']_vars

(* A valid session ends only by a request of its own user or by its TTL:   *)
(* no Logout, Refresh or ChangePassword of one user touches another's.     *)
OthersUntouched ==
  [][\A t \in Tokens :
       Valid(t) /\ ~Valid(t)' =>
         \/ \E r \in Reqs : user[r] = owner[t] /\ pc[r] # "idle" /\ pc'[r] # pc[r]
         \/ UNCHANGED pc]_vars

(* A password change is reported as successful only when there was a cache *)
(* to revoke the sessions in: with NoOpCache the caller is told, though    *)
(* the password may already be stored (userUseCase.ChangePassword).        *)
ConfirmedOnlyIfRevocable == confirmed # {} => Redis

(* What the runbook says of deactivation: the handler also revokes the     *)
(* user's refresh tokens.                                                  *)
DeactivateRevokes == \A t \in disabled : ~Valid(t)

(* What the response of POST /users/me/password says: the password was     *)
(* changed.                                                                *)
ConfirmedChangeWritten == confirmed \subseteq written
=============================================================================
