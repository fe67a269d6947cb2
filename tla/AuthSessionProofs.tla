------------------------- MODULE AuthSessionProofs -------------------------
(***************************************************************************)
(* Proofs about AuthSession for any sets of users, tokens and requests.    *)
(***************************************************************************)
EXTENDS AuthSession, TLAPS

(* A leaf is left to Zenon first, which is fast where no arithmetic is needed; *)
(* the longer limits are for slow machines.                                    *)
USE ZenonT(2), SMT, ZenonT(20), SMTT(30)

(* The token of r is being stored, is being used, or r changes a password. *)
Issuing(r)  == pc[r] \in {"setLookup", "setIndex", "undo"}
Using(r)    == pc[r] \in {"getIndex", "getUser", "delLookup", "delIndex"}
Changing(r) == pc[r] \in {"updatePassword", "revoke", "scan", "del"}

(* What a request may rely on between two of its calls. *)
ReqOK(r) ==
  /\ Issuing(r) => /\ tok[r] \in Tokens /\ user[r] \in Users
                   /\ owner[tok[r]] = user[r] /\ tok[r] \notin returned
  /\ pc[r] = "setIndex" /\ Redis => lookup[tok[r]] = user[r]
  /\ Using(r) => tok[r] \in returned /\ user[r] \in Users /\ owner[tok[r]] = user[r]
  /\ Changing(r) => user[r] \in Users /\ \A t \in before[r] : t \in returned /\ owner[t] = user[r]
  /\ pc[r] \in {"scan", "del"} => \A t \in before[r] : <<user[r], t>> \in index => t \in must[r]

(* No two requests store the same token. *)
Distinct == \A r, s \in Reqs : Issuing(r) /\ Issuing(s) /\ tok[r] = tok[s] => r = s

(* The keys name the token's owner, and an ended token has no index key. *)
KeysOK ==
  /\ \A t \in Tokens : lookup[t] # None => lookup[t] = owner[t]
  /\ \A u \in Users, t \in Tokens : <<u, t>> \in index => owner[t] = u
  /\ \A u \in Users, t \in ended : <<u, t>> \notin index
  /\ \A t \in returned : owner[t] # None
  /\ ended \subseteq returned

SessInv == TypeOK /\ KeysOK /\ Distinct /\ \A r \in Reqs : ReqOK(r)

-----------------------------------------------------------------------------
(* A generated token is one nobody had before. *)
LEMMA FreshUnissued ==
  ASSUME Unissued # {}
  PROVE  FreshToken \in Tokens /\ owner[FreshToken] = None
<1>1. FreshToken \in Unissued
  BY ZenonT(30) DEF FreshToken
<1> QED
  BY <1>1 DEF Unissued

(* Finish resets the locals of r and keeps them well typed. *)
LEMMA FinishType ==
  ASSUME TypeOK, NEW r \in Reqs, Finish(r)
  PROVE  /\ pc' \in [Reqs -> Phases] /\ op' \in [Reqs -> Handlers]
         /\ user' \in [Reqs -> Users \cup {None}] /\ tok' \in [Reqs -> Tokens \cup {None}]
         /\ want' \in [Reqs -> Nat] /\ before' \in [Reqs -> SUBSET Tokens]
         /\ must' \in [Reqs -> SUBSET Tokens] /\ page' \in [Reqs -> SUBSET Tokens]
BY DEF TypeOK, Finish, Phases, Handlers

(* Goto moves r to a phase and keeps its locals well typed. *)
LEMMA GotoType ==
  ASSUME TypeOK, NEW r \in Reqs, NEW p \in Phases, Goto(r, p)
  PROVE  /\ pc' \in [Reqs -> Phases] /\ op' \in [Reqs -> Handlers]
         /\ user' \in [Reqs -> Users \cup {None}] /\ tok' \in [Reqs -> Tokens \cup {None}]
         /\ want' \in [Reqs -> Nat] /\ before' \in [Reqs -> SUBSET Tokens]
         /\ must' \in [Reqs -> SUBSET Tokens] /\ page' \in [Reqs -> SUBSET Tokens]
BY DEF TypeOK, Goto

(* Events are counted in the naturals. *)
LEMMA EventType ==
  ASSUME TypeOK, Event \/ UNCHANGED events
  PROVE  events' \in Nat
BY DEF TypeOK, Event

(* What the cache operations store is well typed. *)
LEMMA CacheType ==
  ASSUME TypeOK, NEW u \in Users, NEW t \in Tokens, NEW S \in SUBSET Tokens
  PROVE  /\ WithLookup(u, t) \in [Tokens -> Users \cup {None}]
         /\ WithoutLookup(t) \in [Tokens -> Users \cup {None}]
         /\ WithIndex(u, t) \in SUBSET (Users \X Tokens)
         /\ WithoutIndex(u, S) \in SUBSET (Users \X Tokens)
BY DEF TypeOK, WithLookup, WithoutLookup, WithIndex, WithoutIndex

(* A best-effort delete leaves the lookup keys well typed. *)
LEMMA DeleteLookupType ==
  ASSUME TypeOK, NEW t \in Tokens, DeleteLookup(t)
  PROVE  /\ lookup' \in [Tokens -> Users \cup {None}]
         /\ lookup' \in {lookup, WithoutLookup(t)}
         /\ events' \in Nat
BY DEF TypeOK, DeleteLookup, WithoutLookup, Event

-----------------------------------------------------------------------------
(* Every step keeps the state well typed. *)
LEMMA TypeStep ==
  ASSUME SessInv, [Next]_vars
  PROVE  TypeOK'
<1> USE DEF SessInv
<1>a. \A t \in returned : t \in Tokens /\ owner[t] \in Users
  BY DEF TypeOK, KeysOK
<1>1. ASSUME NEW r \in Reqs, NEW u \in Users, Login(r, u)
      PROVE  TypeOK'
  <2>1. FreshToken \in Tokens
    BY <1>1, FreshUnissued DEF Login
  <2> QED
    BY <1>1, <2>1 DEF Login, Begin, TypeOK, cacheVars, userVars, Phases, Handlers
<1>2. ASSUME NEW r \in Reqs, NEW u \in Users, ChangePassword(r, u)
      PROVE  TypeOK'
  <2>1. \A t \in returned : t \in Tokens
    BY DEF TypeOK
  <2> QED
    BY <1>2, <2>1 DEF ChangePassword, Begin, TypeOK, cacheVars, userVars, Phases, Handlers
<1>3. ASSUME NEW r \in Reqs, NEW t \in Tokens, Refresh(r, t)
      PROVE  TypeOK'
  BY <1>3 DEF Refresh, Begin, TypeOK, cacheVars, userVars, historyVars, Phases, Handlers
<1>4. ASSUME NEW r \in Reqs, NEW u \in Users, NEW t \in Tokens, Logout(r, u, t)
      PROVE  TypeOK'
  BY <1>4 DEF Logout, Begin, TypeOK, cacheVars, userVars, historyVars, Phases, Handlers
<1>5. ASSUME NEW r \in Reqs, SetLookup(r)
      PROVE  TypeOK'
  <2>1. user[r] \in Users /\ tok[r] \in Tokens
    BY <1>5 DEF SetLookup, ReqOK, Issuing
  <2>2. lookup' \in [Tokens -> Users \cup {None}] /\ events' \in Nat
    <3>1. lookup' \in {lookup, WithLookup(user[r], tok[r])} /\ (Event \/ UNCHANGED events)
      BY <1>5 DEF SetLookup
    <3>2. WithLookup(user[r], tok[r]) \in [Tokens -> Users \cup {None}]
      BY <2>1, CacheType
    <3> QED
      BY <3>1, <3>2, EventType DEF TypeOK
  <2>3. Goto(r, "setIndex") \/ Finish(r)
    BY <1>5 DEF SetLookup
  <2>4. "setIndex" \in Phases
    BY DEF Phases
  <2> QED
    BY <1>5, <2>2, <2>3, <2>4, GotoType, FinishType DEF SetLookup, TypeOK, userVars, historyVars
<1>6. ASSUME NEW r \in Reqs, SetIndex(r)
      PROVE  TypeOK'
  <2>1. user[r] \in Users /\ tok[r] \in Tokens
    BY <1>6 DEF SetIndex, ReqOK, Issuing
  <2>2. index' \in SUBSET (Users \X Tokens) /\ events' \in Nat /\ returned' \in SUBSET Tokens
    BY <1>6, <2>1, CacheType, EventType, ZenonT(30) DEF SetIndex, TypeOK
  <2>3. Goto(r, "undo") \/ Finish(r)
    BY <1>6 DEF SetIndex
  <2>4. "undo" \in Phases
    BY DEF Phases
  <2> QED
    BY <1>6, <2>2, <2>3, <2>4, GotoType, FinishType DEF SetIndex, TypeOK, userVars
<1>7. ASSUME NEW r \in Reqs, Undo(r)
      PROVE  TypeOK'
  <2>1. tok[r] \in Tokens
    BY <1>7 DEF Undo, ReqOK, Issuing
  <2> QED
    BY <1>7, <2>1, DeleteLookupType, FinishType DEF Undo, TypeOK, userVars, historyVars
<1>8. ASSUME NEW r \in Reqs, GetIndex(r) \/ GetUser(r)
      PROVE  TypeOK'
  <2>1. events' \in Nat
    BY <1>8, EventType DEF GetIndex, GetUser
  <2>2. Goto(r, "getUser") \/ Goto(r, "delLookup") \/ Finish(r)
    BY <1>8 DEF GetIndex, GetUser
  <2>3. "getUser" \in Phases /\ "delLookup" \in Phases
    BY DEF Phases
  <2>4. UNCHANGED <<cacheVars, userVars, historyVars>>
    BY <1>8 DEF GetIndex, GetUser
  <2> QED
    BY <2>1, <2>2, <2>3, <2>4, GotoType, FinishType DEF TypeOK, cacheVars, userVars, historyVars
<1>9. ASSUME NEW r \in Reqs, DelLookup(r)
      PROVE  TypeOK'
  <2>1. tok[r] \in Tokens
    BY <1>9, <1>a DEF DelLookup, ReqOK, Using
  <2>2. "delIndex" \in Phases
    BY DEF Phases
  <2> QED
    BY <1>9, <2>1, <2>2, DeleteLookupType, GotoType DEF DelLookup, TypeOK, userVars, historyVars
<1>10. ASSUME NEW r \in Reqs, DelIndex(r)
       PROVE  TypeOK'
  <2>1. user[r] \in Users /\ tok[r] \in Tokens
    BY <1>10, <1>a DEF DelIndex, ReqOK, Using
  <2>2. index' \in SUBSET (Users \X Tokens) /\ events' \in Nat /\ ended' \in SUBSET Tokens
    <3>1. {tok[r]} \in SUBSET Tokens
      BY <2>1
    <3> QED
      BY <1>10, <2>1, <3>1, CacheType, EventType DEF DelIndex, TypeOK
  <2>3. CASE Finish(r) /\ UNCHANGED owner
    BY <1>10, <2>2, <2>3, FinishType DEF DelIndex, TypeOK, userVars
  <2>4. CASE op[r] = "refresh" /\ Unissued # {}
    <3>1. FreshToken \in Tokens
      BY <2>4, FreshUnissued
    <3>2. /\ owner' \in [Tokens -> Users \cup {None}] /\ pc' \in [Reqs -> Phases]
          /\ tok' \in [Reqs -> Tokens \cup {None}]
          /\ UNCHANGED <<op, user, want, before, must, page>>
      BY <1>10, <2>1, <2>4, <3>1 DEF DelIndex, AfterDelete, TypeOK, Phases
    <3> QED
      BY <1>10, <2>2, <3>2 DEF DelIndex, TypeOK, userVars
  <2> QED
    BY <1>10, <2>3, <2>4 DEF DelIndex, AfterDelete
<1>11. ASSUME NEW r \in Reqs, UpdatePassword(r)
       PROVE  TypeOK'
  <2>1. written' \in SUBSET Nat /\ events' \in Nat
    <3>1. want[r] \in Nat /\ (Event \/ UNCHANGED events)
      BY <1>11 DEF UpdatePassword, TypeOK
    <3>2. written' = written \/ written' = written \cup {want[r]}
      BY <1>11 DEF UpdatePassword
    <3> QED
      BY <3>1, <3>2, EventType, ZenonT(30) DEF TypeOK
  <2>2. Goto(r, "revoke") \/ Finish(r)
    BY <1>11 DEF UpdatePassword
  <2>3. "revoke" \in Phases
    BY DEF Phases
  <2> QED
    BY <1>11, <2>1, <2>2, <2>3, GotoType, FinishType DEF UpdatePassword, TypeOK, cacheVars, historyVars
<1>12. ASSUME NEW r \in Reqs, Revoke(r)
       PROVE  TypeOK'
  <2>1. CASE Finish(r)
    BY <1>12, <2>1, FinishType DEF Revoke, TypeOK, cacheVars, userVars, historyVars
  <2>2. CASE pc' = [pc EXCEPT ![r] = "scan"] /\ must' = [must EXCEPT ![r] = UserKeys(user[r])]
             /\ UNCHANGED <<op, user, tok, want, before, page>>
    BY <1>12, <2>2 DEF Revoke, TypeOK, cacheVars, userVars, historyVars, UserKeys, Phases
  <2> QED
    BY <1>12, <2>1, <2>2 DEF Revoke
<1>13. ASSUME NEW r \in Reqs, Scan(r)
       PROVE  TypeOK'
  <2>1. CASE Event /\ Finish(r)
    BY <1>13, <2>1, FinishType, EventType DEF Scan, TypeOK, cacheVars, userVars, historyVars
  <2>2. CASE /\ \E S \in (SUBSET UserKeys(user[r])) \ {{}} : page' = [page EXCEPT ![r] = S]
             /\ pc' = [pc EXCEPT ![r] = "del"]
             /\ UNCHANGED <<op, user, tok, want, before, must, events>>
    <3>1. page' \in [Reqs -> SUBSET Tokens]
      BY <2>2, ZenonT(30) DEF TypeOK, UserKeys
    <3>2. pc' \in [Reqs -> Phases]
      BY <2>2 DEF TypeOK, Phases
    <3> QED
      BY <1>13, <2>2, <3>1, <3>2 DEF Scan, TypeOK, cacheVars, userVars, historyVars
  <2> QED
    BY <1>13, <2>1, <2>2 DEF Scan
<1>14. ASSUME NEW r \in Reqs, DelPage(r)
       PROVE  TypeOK'
  <2>1. user[r] \in Users /\ page[r] \in SUBSET Tokens
    BY <1>14 DEF DelPage, ReqOK, Changing, TypeOK
  <2>2. index' \in SUBSET (Users \X Tokens) /\ events' \in Nat
    <3>1. index' \in {index, WithoutIndex(user[r], page[r])} /\ (Event \/ UNCHANGED events)
      BY <1>14 DEF DelPage
    <3>2. WithoutIndex(user[r], page[r]) \in SUBSET (Users \X Tokens)
      BY <2>1 DEF WithoutIndex, TypeOK
    <3> QED
      BY <3>1, <3>2, EventType DEF TypeOK
  <2>3. CASE Finish(r)
    BY <1>14, <2>2, <2>3, FinishType DEF DelPage, TypeOK, userVars, historyVars
  <2>4. CASE /\ pc' = [pc EXCEPT ![r] = "scan"] /\ page' = [page EXCEPT ![r] = {}]
             /\ UNCHANGED <<op, user, tok, want, before, must, events>>
    BY <1>14, <2>2, <2>4 DEF DelPage, TypeOK, userVars, historyVars, Phases
  <2> QED
    BY <1>14, <2>3, <2>4 DEF DelPage
<1>15. ASSUME NEW r \in Reqs, Changed(r)
       PROVE  TypeOK'
  BY <1>15, FinishType, ZenonT(30) DEF Changed, TypeOK, cacheVars, userVars
<1>16. ASSUME NEW r \in Reqs, Abort(r)
       PROVE  TypeOK'
  BY <1>16, FinishType, EventType DEF Abort, TypeOK, cacheVars, userVars, historyVars
<1>17. ASSUME NEW u \in Users, Deactivate(u) \/ Activate(u)
       PROVE  TypeOK'
  BY <1>17, EventType, <1>a, ZenonT(30) DEF Deactivate, Activate, TypeOK, cacheVars, reqVars, historyVars
<1>18. ASSUME NEW t \in Tokens, Expire(t)
       PROVE  TypeOK'
  <2>1. lookup[t] \in Users /\ {t} \in SUBSET Tokens
    BY <1>18 DEF Expire, TypeOK
  <2> QED
    BY <1>18, <2>1, CacheType, EventType, ZenonT(30) DEF Expire, TypeOK, userVars, reqVars, historyVars
<1>19. CASE UNCHANGED vars
  BY <1>19 DEF TypeOK, vars, cacheVars, userVars, reqVars, historyVars
<1> QED
  BY <1>1, <1>2, <1>3, <1>4, <1>5, <1>6, <1>7, <1>8, <1>9, <1>10, <1>11, <1>12, <1>13, <1>14,
     <1>15, <1>16, <1>17, <1>18, <1>19 DEF Next, Arrive, Step

-----------------------------------------------------------------------------
(* The locals of every request but r are left alone. *)
Rest(r) ==
  \A s \in Reqs : s # r =>
    /\ pc'[s] = pc[s] /\ user'[s] = user[s] /\ tok'[s] = tok[s]
    /\ before'[s] = before[s] /\ must'[s] = must[s]

(* What the tokens of the other requests must not notice. *)
Quiet(r) ==
  /\ \A t \in Tokens : owner[t] # None => owner'[t] = owner[t]
  /\ returned \subseteq returned'
  /\ \A s \in Reqs : s # r /\ Issuing(s) => tok[s] \notin returned' /\ lookup'[tok[s]] = lookup[tok[s]]
  /\ \A u \in Users, t \in returned : <<u, t>> \in index' => <<u, t>> \in index

(* A request keeps what it relies on while another one moves quietly. *)
LEMMA OthersKeep ==
  ASSUME SessInv, NEW r, Rest(r), Quiet(r), NEW s \in Reqs, s # r
  PROVE  ReqOK(s)'
<1>1. /\ pc'[s] = pc[s] /\ user'[s] = user[s] /\ tok'[s] = tok[s]
      /\ before'[s] = before[s] /\ must'[s] = must[s] /\ ReqOK(s)
  BY DEF Rest, SessInv
<1>2. None \notin Users
  BY AuthInputs
<1>3. returned \subseteq Tokens
  BY DEF SessInv, TypeOK
<1>4. Issuing(s)' => /\ tok'[s] \in Tokens /\ user'[s] \in Users
                     /\ owner'[tok'[s]] = user'[s] /\ tok'[s] \notin returned'
  BY <1>1, <1>2 DEF ReqOK, Issuing, Quiet
<1>5. pc'[s] = "setIndex" /\ Redis => lookup'[tok'[s]] = user'[s]
  BY <1>1, ZenonT(30) DEF ReqOK, Issuing, Quiet
<1>6. Using(s)' => tok'[s] \in returned' /\ user'[s] \in Users /\ owner'[tok'[s]] = user'[s]
  <2> SUFFICES ASSUME Using(s)'
               PROVE  tok'[s] \in returned' /\ user'[s] \in Users /\ owner'[tok'[s]] = user'[s]
    OBVIOUS
  <2>1. Using(s)
    BY <1>1 DEF Using
  <2>2. tok[s] \in returned /\ user[s] \in Users /\ owner[tok[s]] = user[s]
    BY <1>1, <2>1 DEF ReqOK
  <2> QED
    BY <1>1, <1>2, <1>3, <2>2 DEF Quiet
<1>7. Changing(s)' =>
        user'[s] \in Users /\ \A t \in before'[s] : t \in returned' /\ owner'[t] = user'[s]
  <2> SUFFICES ASSUME Changing(s)'
               PROVE  /\ user'[s] \in Users
                      /\ \A t \in before'[s] : t \in returned' /\ owner'[t] = user'[s]
    OBVIOUS
  <2>1. Changing(s)
    BY <1>1 DEF Changing
  <2>2. user[s] \in Users /\ \A t \in before[s] : t \in returned /\ owner[t] = user[s]
    BY <1>1, <2>1 DEF ReqOK
  <2> QED
    BY <1>1, <1>2, <1>3, <2>2 DEF Quiet
<1>8. pc'[s] \in {"scan", "del"} =>
        \A t \in before'[s] : <<user'[s], t>> \in index' => t \in must'[s]
  BY <1>1 DEF ReqOK, Changing, Quiet
<1> QED
  BY <1>4, <1>5, <1>6, <1>7, <1>8 DEF ReqOK

(* The shape of a step of r that keeps the invariant. *)
LEMMA RequestStep ==
  ASSUME SessInv, TypeOK', KeysOK', NEW r \in Reqs, ReqOK(r)', Rest(r), Quiet(r),
         Issuing(r)' => (Issuing(r) /\ tok'[r] = tok[r]) \/ owner[tok'[r]] = None
  PROVE  SessInv'
<1>1. \A s \in Reqs : ReqOK(s)'
  BY OthersKeep
<1>2. \A s \in Reqs : s # r /\ Issuing(s)' => Issuing(s) /\ tok'[s] = tok[s] /\ owner[tok[s]] # None
  BY AuthInputs DEF Rest, Issuing, SessInv, ReqOK
<1>3. Distinct'
  BY <1>2 DEF Distinct, SessInv
<1> QED
  BY <1>1, <1>3 DEF SessInv

(* A step of the environment that only takes keys of handed-out tokens. *)
LEMMA EnvironmentStep ==
  ASSUME SessInv, TypeOK', UNCHANGED <<reqVars, owner, returned, ended>>,
         index' \subseteq index,
         \A t \in Tokens : lookup'[t] = lookup[t] \/ (lookup'[t] = None /\ t \in returned)
  PROVE  SessInv'
<1>1. KeysOK'
  BY DEF SessInv, KeysOK
<1>2. \A s \in Reqs : ReqOK(s)'
  <2> TAKE s \in Reqs
  <2>1. ReqOK(s) /\ UNCHANGED <<pc, user, tok, before, must>>
    BY DEF SessInv, reqVars
  <2> QED
    BY <2>1 DEF ReqOK, Issuing, Using, Changing
<1>3. Distinct'
  BY DEF SessInv, Distinct, Issuing, reqVars
<1> QED
  BY <1>1, <1>2, <1>3 DEF SessInv

-----------------------------------------------------------------------------
(* A finished request relies on nothing. *)
LEMMA FinishRest ==
  ASSUME TypeOK, NEW r \in Reqs, Finish(r)
  PROVE  Rest(r) /\ ReqOK(r)' /\ ~Issuing(r)'
<1>1. Rest(r)
  BY DEF TypeOK, Finish, Rest
<1>2. pc'[r] = "idle"
  BY DEF TypeOK, Finish
<1> QED
  BY <1>1, <1>2 DEF ReqOK, Issuing, Using, Changing

(* Goto changes the phase of r alone. *)
LEMMA GotoRest ==
  ASSUME TypeOK, NEW r \in Reqs, NEW p, Goto(r, p)
  PROVE  /\ Rest(r) /\ pc'[r] = p
         /\ user'[r] = user[r] /\ tok'[r] = tok[r] /\ before'[r] = before[r] /\ must'[r] = must[r]
BY DEF TypeOK, Goto, Rest

(* Begin changes the locals of r alone. *)
LEMMA BeginRest ==
  ASSUME TypeOK, NEW r \in Reqs, NEW p, NEW h, NEW u, NEW t, Begin(r, p, h, u, t),
         UNCHANGED must, \A s \in Reqs : s # r => before'[s] = before[s]
  PROVE  Rest(r) /\ pc[r] = "idle" /\ pc'[r] = p /\ user'[r] = u /\ tok'[r] = t
BY DEF TypeOK, Begin, Rest

(* Deleting the lookup key of a token r works on disturbs no other request. *)
LEMMA DeleteQuiet ==
  ASSUME SessInv, NEW r \in Reqs, Issuing(r) \/ Using(r), DeleteLookup(tok[r]),
         UNCHANGED <<index, owner, returned, ended>>
  PROVE  Quiet(r) /\ KeysOK'
<1>1. tok[r] \in Tokens
  BY DEF SessInv, ReqOK, TypeOK
<1>2. \A t \in Tokens : t # tok[r] => lookup'[t] = lookup[t]
  BY <1>1 DEF DeleteLookup, WithoutLookup, SessInv, TypeOK
<1>3. lookup'[tok[r]] \in {lookup[tok[r]], None}
  BY <1>1 DEF DeleteLookup, WithoutLookup, SessInv, TypeOK
<1>4. \A s \in Reqs : s # r /\ Issuing(s) => tok[s] \in Tokens /\ tok[s] # tok[r] /\ tok[s] \notin returned
  BY DEF SessInv, ReqOK, Distinct
<1>5. Quiet(r)
  BY <1>2, <1>4 DEF Quiet
<1>6. KeysOK'
  BY <1>1, <1>2, <1>3 DEF SessInv, KeysOK
<1> QED
  BY <1>5, <1>6

(* A step that leaves keys and tokens alone is quiet. *)
LEMMA StillQuiet ==
  ASSUME SessInv, NEW r \in Reqs, UNCHANGED <<lookup, index, owner, returned, ended>>
  PROVE  Quiet(r) /\ KeysOK'
<1>1. KeysOK'
  BY DEF SessInv, KeysOK
<1>2. Quiet(r)
  BY DEF SessInv, ReqOK, Quiet
<1> QED
  BY <1>1, <1>2

(* Generating a token for u is quiet. *)
LEMMA IssueQuiet ==
  ASSUME SessInv, NEW r \in Reqs, NEW u \in Users, Unissued # {},
         owner' = [owner EXCEPT ![FreshToken] = u],
         lookup' = lookup, index' \subseteq index, returned' = returned,
         ended' \subseteq returned, \A v \in Users, t \in ended' : <<v, t>> \notin index'
  PROVE  Quiet(r) /\ KeysOK' /\ FreshToken \in Tokens /\ owner[FreshToken] = None
         /\ owner'[FreshToken] = u /\ FreshToken \notin returned
<1>1. FreshToken \in Tokens /\ owner[FreshToken] = None
  BY FreshUnissued
<1>2. \A t \in Tokens : owner'[t] = IF t = FreshToken THEN u ELSE owner[t]
  BY <1>1 DEF SessInv, TypeOK
<1>3. lookup[FreshToken] = None /\ \A v \in Users : <<v, FreshToken>> \notin index
  BY <1>1, AuthInputs DEF SessInv, KeysOK
<1>4. FreshToken \notin returned
  BY <1>1 DEF SessInv, KeysOK
<1>5. returned \subseteq Tokens
  BY DEF SessInv, TypeOK
<1> HIDE DEF FreshToken
<1>6. KeysOK'
  BY <1>2, <1>3, <1>4, <1>5 DEF SessInv, KeysOK
<1>7. Quiet(r)
  BY <1>1, <1>2 DEF SessInv, ReqOK, Quiet
<1> QED
  BY <1>1, <1>2, <1>4, <1>6, <1>7

-----------------------------------------------------------------------------
(* Every step keeps the invariant. *)
LEMMA SessStep ==
  ASSUME SessInv, [Next]_vars
  PROVE  SessInv'
<1>0. TypeOK' /\ TypeOK /\ KeysOK
  BY TypeStep DEF SessInv
<1>a. \A r \in Reqs : ReqOK(r)
  BY DEF SessInv
<1>b. returned \subseteq Tokens /\ None \notin Users
  BY <1>0, AuthInputs DEF TypeOK
<1>1. ASSUME NEW r \in Reqs, NEW u \in Users, Login(r, u)
      PROVE  SessInv'
  <2>1. /\ Quiet(r) /\ KeysOK' /\ FreshToken \in Tokens /\ owner[FreshToken] = None
        /\ owner'[FreshToken] = u /\ FreshToken \notin returned
    BY <1>1, <1>0, IssueQuiet, ZenonT(30) DEF Login, cacheVars, KeysOK
  <2>2. Rest(r) /\ pc'[r] = "setLookup" /\ user'[r] = u /\ tok'[r] = FreshToken
    BY <1>1, <1>0, BeginRest DEF Login
  <2>3. ReqOK(r)'
    BY <1>1, <2>1, <2>2 DEF Login, ReqOK, Issuing, Using, Changing
  <2> QED
    BY <1>0, <2>1, <2>2, <2>3, RequestStep
<1>2. ASSUME NEW r \in Reqs, NEW u \in Users, ChangePassword(r, u)
      PROVE  SessInv'
  <2>1. Quiet(r) /\ KeysOK'
    BY <1>2, StillQuiet DEF ChangePassword, cacheVars
  <2>2. before'[r] = {t \in returned : owner[t] = u} /\ \A q \in Reqs : q # r => before'[q] = before[q]
    BY <1>2, <1>0 DEF ChangePassword, TypeOK
  <2>3. Rest(r) /\ pc'[r] = "updatePassword" /\ user'[r] = u
    <3>1. Begin(r, "updatePassword", "change", u, None) /\ UNCHANGED must
      BY <1>2 DEF ChangePassword
    <3>2. TypeOK /\ \A q \in Reqs : q # r => before'[q] = before[q]
      BY <1>0, <2>2
    <3>3. Rest(r)
      BY <3>1, <3>2 DEF Begin, Rest, TypeOK
    <3>4. pc'[r] = "updatePassword" /\ user'[r] = u
      BY <3>1, <3>2 DEF Begin, TypeOK
    <3> QED
      BY <3>3, <3>4
  <2>4. ReqOK(r)' /\ ~Issuing(r)'
    BY <1>2, <2>2, <2>3 DEF ChangePassword, ReqOK, Issuing, Using, Changing
  <2> QED
    BY <1>0, <2>1, <2>3, <2>4, RequestStep
<1>3. ASSUME NEW r \in Reqs, NEW u \in Users, NEW t \in Tokens,
             \/ Refresh(r, t)
             \/ Logout(r, u, t)
      PROVE  SessInv'
  <2>1. Quiet(r) /\ KeysOK'
    BY <1>3, StillQuiet DEF Refresh, Logout, cacheVars, historyVars
  <2>2. /\ t \in returned /\ lookup[t] # None /\ UNCHANGED <<must, before, returned, owner>>
        /\ Begin(r, "getIndex", "refresh", lookup[t], t) \/ Begin(r, "delLookup", "logout", lookup[t], t)
    BY <1>3, <1>b DEF Refresh, Logout, historyVars
  <2>3. Rest(r) /\ pc'[r] \in {"getIndex", "delLookup"} /\ user'[r] = lookup[t] /\ tok'[r] = t
    BY <1>0, <2>2, BeginRest
  <2>4. lookup[t] \in Users /\ owner[t] = lookup[t]
    BY <1>0, <2>2 DEF TypeOK, KeysOK
  <2>5. ReqOK(r)' /\ ~Issuing(r)'
    BY <2>2, <2>3, <2>4, ZenonT(30) DEF ReqOK, Issuing, Using, Changing
  <2> QED
    BY <1>0, <2>1, <2>3, <2>5, RequestStep
<1>5. ASSUME NEW r \in Reqs, SetLookup(r)
      PROVE  SessInv'
  <2>1. /\ tok[r] \in Tokens /\ user[r] \in Users /\ owner[tok[r]] = user[r]
        /\ tok[r] \notin returned /\ Issuing(r)
    BY <1>5, <1>a DEF SetLookup, ReqOK, Issuing
  <2>2. UNCHANGED <<index, owner, returned, ended>> /\ lookup' \in {lookup, WithLookup(user[r], tok[r])}
    BY <1>5 DEF SetLookup, historyVars
  <2>3. /\ \A t \in Tokens : t # tok[r] => lookup'[t] = lookup[t]
        /\ lookup'[tok[r]] \in {lookup[tok[r]], user[r]}
    BY <1>0, <2>1, <2>2 DEF WithLookup, TypeOK
  <2>4. KeysOK'
    BY <1>0, <2>1, <2>2, <2>3 DEF KeysOK
  <2>5. \A q \in Reqs : q # r /\ Issuing(q) => tok[q] \in Tokens /\ tok[q] # tok[r] /\ tok[q] \notin returned
    BY <2>1 DEF SessInv, ReqOK, Distinct
  <2>6. Quiet(r)
    BY <2>2, <2>3, <2>5 DEF Quiet
  <2>7. CASE Finish(r)
    BY <1>0, <2>4, <2>6, <2>7, FinishRest, RequestStep
  <2>8. CASE lookup' = WithLookup(user[r], tok[r]) /\ Goto(r, "setIndex")
    <3>1. Rest(r) /\ pc'[r] = "setIndex" /\ user'[r] = user[r] /\ tok'[r] = tok[r]
      BY <1>0, <2>8, GotoRest
    <3>2. Redis => lookup'[tok[r]] = user[r]
      BY <1>0, <2>1, <2>8 DEF WithLookup, TypeOK
    <3>3. ReqOK(r)'
      BY <2>1, <2>2, <3>1, <3>2 DEF ReqOK, Issuing, Using, Changing
    <3> QED
      BY <1>0, <2>1, <2>4, <2>6, <3>1, <3>3, RequestStep
  <2> QED
    BY <1>5, <2>7, <2>8 DEF SetLookup
<1>6. ASSUME NEW r \in Reqs, SetIndex(r)
      PROVE  SessInv'
  <2>1. /\ tok[r] \in Tokens /\ user[r] \in Users /\ owner[tok[r]] = user[r]
        /\ tok[r] \notin returned /\ Issuing(r)
    BY <1>6, <1>a DEF SetIndex, ReqOK, Issuing
  <2>2. /\ UNCHANGED <<lookup, owner, ended>> /\ index' \subseteq index \cup {<<user[r], tok[r]>>}
        /\ returned' \in {returned, returned \cup {tok[r]}}
    BY <1>6 DEF SetIndex, WithIndex
  <2>3. KeysOK'
    BY <1>0, <1>b, <2>1, <2>2 DEF KeysOK
  <2>4. \A q \in Reqs : q # r /\ Issuing(q) => tok[q] \in Tokens /\ tok[q] # tok[r] /\ tok[q] \notin returned
    BY <2>1 DEF SessInv, ReqOK, Distinct
  <2>5. Quiet(r)
    BY <2>1, <2>2, <2>4 DEF Quiet
  <2>6. CASE Finish(r)
    BY <1>0, <2>3, <2>5, <2>6, FinishRest, RequestStep
  <2>7. CASE Goto(r, "undo") /\ UNCHANGED returned
    <3>1. Rest(r) /\ pc'[r] = "undo" /\ user'[r] = user[r] /\ tok'[r] = tok[r]
      BY <1>0, <2>7, GotoRest
    <3>2. ReqOK(r)'
      BY <2>1, <2>2, <2>7, <3>1 DEF ReqOK, Issuing, Using, Changing
    <3> QED
      BY <1>0, <2>1, <2>3, <2>5, <3>1, <3>2, RequestStep
  <2> QED
    BY <1>6, <2>6, <2>7, ZenonT(30) DEF SetIndex
<1>7. ASSUME NEW r \in Reqs, Undo(r)
      PROVE  SessInv'
  <2>1. Quiet(r) /\ KeysOK'
    BY <1>7, DeleteQuiet DEF Undo, Issuing, historyVars
  <2> QED
    BY <1>0, <1>7, <2>1, FinishRest, RequestStep DEF Undo
<1>8. ASSUME NEW r \in Reqs, GetIndex(r) \/ GetUser(r)
      PROVE  SessInv'
  <2>1. Quiet(r) /\ KeysOK'
    BY <1>8, StillQuiet DEF GetIndex, GetUser, cacheVars, historyVars
  <2>2. CASE Finish(r)
    BY <1>0, <2>1, <2>2, FinishRest, RequestStep
  <2>3. ASSUME NEW p \in {"getUser", "delLookup"}, Goto(r, p) PROVE SessInv'
    <3>1. Rest(r) /\ pc'[r] = p /\ user'[r] = user[r] /\ tok'[r] = tok[r]
      BY <1>0, <2>3, GotoRest
    <3>2. ReqOK(r) /\ Using(r) /\ UNCHANGED <<owner, returned>>
      BY <1>8, <1>a DEF GetIndex, GetUser, Using, historyVars
    <3>3. ReqOK(r)' /\ ~Issuing(r)'
      BY <3>1, <3>2 DEF ReqOK, Issuing, Using, Changing
    <3> QED
      BY <1>0, <2>1, <3>1, <3>3, RequestStep
  <2> QED
    BY <1>8, <2>2, <2>3 DEF GetIndex, GetUser
<1>9. ASSUME NEW r \in Reqs, DelLookup(r)
      PROVE  SessInv'
  <2>1. Quiet(r) /\ KeysOK'
    BY <1>9, DeleteQuiet, ZenonT(30) DEF DelLookup, Using, historyVars
  <2>2. Rest(r) /\ pc'[r] = "delIndex" /\ user'[r] = user[r] /\ tok'[r] = tok[r]
    BY <1>0, <1>9, GotoRest, ZenonT(30) DEF DelLookup
  <2>3. ReqOK(r) /\ Using(r) /\ UNCHANGED <<owner, returned>>
    BY <1>9, <1>a, ZenonT(30) DEF DelLookup, Using, historyVars
  <2>4. ReqOK(r)' /\ ~Issuing(r)'
    BY <2>2, <2>3 DEF ReqOK, Issuing, Using, Changing
  <2> QED
    BY <1>0, <2>1, <2>2, <2>4, RequestStep
<1>10. ASSUME NEW r \in Reqs, DelIndex(r)
       PROVE  SessInv'
  <2>1. ReqOK(r) /\ tok[r] \in returned /\ user[r] \in Users /\ owner[tok[r]] = user[r]
    BY <1>10, <1>a, ZenonT(30) DEF DelIndex, Using, ReqOK
  <2>2. /\ UNCHANGED <<lookup, returned>> /\ index' \subseteq index
        /\ \/ ended' = ended
           \/ ended' = ended \cup {tok[r]} /\ index' = index \ ({user[r]} \X {tok[r]})
    BY <1>10, ZenonT(30) DEF DelIndex, WithoutIndex
  <2>3. ended' \subseteq returned /\ \A v \in Users, t \in ended' : <<v, t>> \notin index'
    BY <1>0, <1>b, <2>1, <2>2, ZenonT(30) DEF KeysOK
  <2>4. CASE Finish(r) /\ UNCHANGED owner
    <3>1. KeysOK'
      BY <1>0, <2>2, <2>3, <2>4 DEF KeysOK
    <3>2. Quiet(r)
      BY <1>a, <2>2, <2>4, ZenonT(30) DEF Quiet, ReqOK
    <3> QED
      BY <1>0, <2>4, <3>1, <3>2, FinishRest, RequestStep
  <2>5. CASE op[r] = "refresh" /\ Unissued # {}
    <3>1. /\ owner' = [owner EXCEPT ![FreshToken] = user[r]]
          /\ pc' = [pc EXCEPT ![r] = "setLookup"]
          /\ tok' = [tok EXCEPT ![r] = FreshToken]
          /\ UNCHANGED <<op, user, want, before, must, page>>
      BY <1>10, <2>5 DEF DelIndex, AfterDelete
    <3>2. /\ Quiet(r) /\ KeysOK' /\ FreshToken \in Tokens /\ owner[FreshToken] = None
          /\ owner'[FreshToken] = user[r] /\ FreshToken \notin returned
      BY <2>1, <2>2, <2>3, <2>5, <3>1, IssueQuiet, ZenonT(30)
    <3>3. Rest(r) /\ pc'[r] = "setLookup" /\ user'[r] = user[r] /\ tok'[r] = FreshToken
      BY <1>0, <3>1, ZenonT(30) DEF TypeOK, Rest
    <3>4. ReqOK(r)'
      BY <2>1, <2>2, <3>2, <3>3, ZenonT(30) DEF ReqOK, Issuing, Using, Changing
    <3> QED
      BY <1>0, <3>2, <3>3, <3>4, RequestStep, ZenonT(30)
  <2> QED
    BY <1>10, <2>4, <2>5 DEF DelIndex, AfterDelete
<1>11. ASSUME NEW r \in Reqs, UpdatePassword(r)
       PROVE  SessInv'
  <2>1. Quiet(r) /\ KeysOK'
    BY <1>11, StillQuiet DEF UpdatePassword, cacheVars, historyVars
  <2>2. CASE Finish(r)
    BY <1>0, <2>1, <2>2, FinishRest, RequestStep
  <2>3. CASE Goto(r, "revoke")
    <3>1. Rest(r) /\ pc'[r] = "revoke" /\ user'[r] = user[r] /\ before'[r] = before[r]
      BY <1>0, <2>3, GotoRest
    <3>2. ReqOK(r) /\ Changing(r) /\ UNCHANGED <<owner, returned>>
      BY <1>11, <1>a DEF UpdatePassword, Changing, historyVars
    <3>3. ReqOK(r)' /\ ~Issuing(r)'
      BY <3>1, <3>2, ZenonT(30) DEF ReqOK, Issuing, Using, Changing
    <3> QED
      BY <1>0, <2>1, <3>1, <3>3, RequestStep
  <2> QED
    BY <1>11, <2>2, <2>3, ZenonT(30) DEF UpdatePassword
<1>12. ASSUME NEW r \in Reqs, Revoke(r)
       PROVE  SessInv'
  <2>1. Quiet(r) /\ KeysOK'
    BY <1>12, StillQuiet DEF Revoke, cacheVars, historyVars
  <2>2. CASE Finish(r)
    BY <1>0, <2>1, <2>2, FinishRest, RequestStep
  <2>3. CASE pc' = [pc EXCEPT ![r] = "scan"] /\ must' = [must EXCEPT ![r] = UserKeys(user[r])]
             /\ UNCHANGED <<op, user, tok, want, before, page>>
    <3>1. /\ Rest(r) /\ pc'[r] = "scan" /\ user'[r] = user[r] /\ before'[r] = before[r]
          /\ must'[r] = UserKeys(user[r])
      BY <1>0, <2>3 DEF TypeOK, Rest
    <3>2. ReqOK(r) /\ Changing(r) /\ UNCHANGED <<owner, returned, index>>
      BY <1>12, <1>a DEF Revoke, Changing, historyVars, cacheVars
    <3>3. \A t \in before[r] : <<user[r], t>> \in index => t \in UserKeys(user[r])
      BY <1>0 DEF UserKeys, TypeOK
    <3>4. ReqOK(r)' /\ ~Issuing(r)'
      BY <3>1, <3>2, <3>3 DEF ReqOK, Issuing, Using, Changing
    <3> QED
      BY <1>0, <2>1, <3>1, <3>4, RequestStep
  <2> QED
    BY <1>12, <2>2, <2>3 DEF Revoke
<1>13. ASSUME NEW r \in Reqs, Scan(r)
       PROVE  SessInv'
  <2>1. Quiet(r) /\ KeysOK'
    BY <1>13, StillQuiet DEF Scan, cacheVars, historyVars
  <2>2. CASE Finish(r)
    BY <1>0, <2>1, <2>2, FinishRest, RequestStep
  <2>3. CASE pc' = [pc EXCEPT ![r] = "del"] /\ UNCHANGED <<op, user, tok, want, before, must>>
    <3>1. /\ Rest(r) /\ pc'[r] = "del" /\ user'[r] = user[r] /\ before'[r] = before[r]
          /\ must'[r] = must[r]
      BY <1>0, <2>3 DEF TypeOK, Rest
    <3>2. ReqOK(r) /\ Changing(r) /\ pc[r] = "scan" /\ UNCHANGED <<owner, returned, index>>
      BY <1>13, <1>a DEF Scan, Changing, historyVars, cacheVars
    <3>3. ReqOK(r)' /\ ~Issuing(r)'
      BY <3>1, <3>2 DEF ReqOK, Issuing, Using, Changing
    <3> QED
      BY <1>0, <2>1, <3>1, <3>3, RequestStep
  <2> QED
    BY <1>13, <2>2, <2>3 DEF Scan
<1>14. ASSUME NEW r \in Reqs, DelPage(r)
       PROVE  SessInv'
  <2>1. UNCHANGED <<lookup, owner, returned, ended>> /\ index' \subseteq index
    BY <1>14 DEF DelPage, WithoutIndex, historyVars
  <2>2. KeysOK'
    BY <1>0, <2>1 DEF KeysOK
  <2>3. Quiet(r)
    BY <1>a, <2>1 DEF Quiet, ReqOK
  <2>4. CASE Finish(r)
    BY <1>0, <2>2, <2>3, <2>4, FinishRest, RequestStep
  <2>5. CASE pc' = [pc EXCEPT ![r] = "scan"] /\ UNCHANGED <<op, user, tok, want, before, must>>
    <3>1. /\ Rest(r) /\ pc'[r] = "scan" /\ user'[r] = user[r] /\ before'[r] = before[r]
          /\ must'[r] = must[r]
      BY <1>0, <2>5 DEF TypeOK, Rest
    <3>2. ReqOK(r) /\ Changing(r) /\ pc[r] = "del"
      BY <1>14, <1>a DEF DelPage, Changing
    <3>3. ReqOK(r)' /\ ~Issuing(r)'
      BY <2>1, <3>1, <3>2 DEF ReqOK, Issuing, Using, Changing
    <3> QED
      BY <1>0, <2>2, <2>3, <3>1, <3>3, RequestStep
  <2> QED
    BY <1>14, <2>4, <2>5 DEF DelPage
<1>15. ASSUME NEW r \in Reqs, Changed(r)
       PROVE  SessInv'
  <2>1. /\ UNCHANGED <<lookup, index, owner, returned>> /\ ended' = ended \cup before[r]
        /\ pc[r] = "scan" /\ must[r] \cap UserKeys(user[r]) = {}
    BY <1>15 DEF Changed, cacheVars
  <2>2. /\ user[r] \in Users /\ \A t \in before[r] : t \in returned /\ owner[t] = user[r]
        /\ \A t \in before[r] : <<user[r], t>> \in index => t \in must[r]
    BY <1>a, <2>1 DEF ReqOK, Changing
  <2>3. \A v \in Users, t \in before[r] : <<v, t>> \notin index
    BY <1>0, <1>b, <2>1, <2>2, ZenonT(30) DEF KeysOK, UserKeys
  <2>4. KeysOK'
    BY <1>0, <2>1, <2>2, <2>3 DEF KeysOK
  <2>5. Quiet(r)
    BY <1>a, <2>1 DEF Quiet, ReqOK
  <2>6. Finish(r)
    BY <1>15 DEF Changed
  <2> QED
    BY <1>0, <2>4, <2>5, <2>6, FinishRest, RequestStep, ZenonT(30)
<1>16. ASSUME NEW r \in Reqs, Abort(r)
       PROVE  SessInv'
  <2>1. Quiet(r) /\ KeysOK' /\ Finish(r)
    BY <1>16, StillQuiet DEF Abort, cacheVars, historyVars
  <2> QED
    BY <1>0, <2>1, FinishRest, RequestStep, ZenonT(30)
<1>17. ASSUME NEW u \in Users, Deactivate(u) \/ Activate(u)
       PROVE  SessInv'
  <2>1. UNCHANGED <<lookup, index, reqVars, owner, returned, ended>>
    BY <1>17, ZenonT(30) DEF Deactivate, Activate, cacheVars, historyVars
  <2> QED
    BY <1>0, <2>1, EnvironmentStep
<1>18. ASSUME NEW t \in Tokens, Expire(t)
       PROVE  SessInv'
  <2>1. /\ UNCHANGED <<reqVars, owner, returned, ended>> /\ t \in returned
        /\ index' \subseteq index
    BY <1>18, ZenonT(30) DEF Expire, WithoutIndex, historyVars
  <2>2. \A q \in Tokens : lookup'[q] = lookup[q] \/ (lookup'[q] = None /\ q \in returned)
    BY <1>0, <1>18 DEF Expire, WithoutLookup, TypeOK
  <2> QED
    BY <1>0, <2>1, <2>2, EnvironmentStep
<1>19. CASE UNCHANGED vars
  <2>1. UNCHANGED <<lookup, index, reqVars, owner, returned, ended>>
    BY <1>19 DEF vars, cacheVars, historyVars
  <2> QED
    BY <1>0, <2>1, EnvironmentStep
<1>20. ASSUME NEW r \in Reqs, NEW t \in Tokens, Refresh(r, t)
       PROVE  SessInv'
  <2>1. lookup[t] \in Users
    BY <1>0, <1>20 DEF Refresh, TypeOK
  <2> QED
    BY <1>3, <1>20, <2>1
<1> QED
  BY <1>1, <1>2, <1>3, <1>20, <1>5, <1>6, <1>7, <1>8, <1>9, <1>10, <1>11, <1>12, <1>13, <1>14,
     <1>15, <1>16, <1>17, <1>18, <1>19 DEF Next, Arrive, Step

(* The invariant holds in the initial states. *)
LEMMA SessInit == Init => SessInv
<1> SUFFICES ASSUME Init PROVE SessInv
  OBVIOUS
<1>1. TypeOK
  BY AuthInputs DEF Init, TypeOK, Phases, Handlers
<1>2. KeysOK
  BY DEF Init, KeysOK
<1>3. \A r \in Reqs : ReqOK(r) /\ ~Issuing(r)
  BY DEF Init, ReqOK, Issuing, Using, Changing
<1> QED
  BY <1>1, <1>2, <1>3 DEF SessInv, Distinct

(* The state of sessions and requests is always well typed. *)
THEOREM TypeCorrect == Spec => []TypeOK
<1>1. SessInv => TypeOK
  BY DEF SessInv
<1> QED
  BY <1>1, SessInit, SessStep, PTL DEF Spec

(* A token that a password change, a logout or a refresh has reported as   *)
(* ended is never accepted by Refresh again.                               *)
THEOREM EndedStaysEnded == Spec => []EndedNeverValid
<1>1. ASSUME SessInv PROVE EndedNeverValid
  <2> SUFFICES ASSUME NEW t \in ended, Valid(t) PROVE FALSE
    BY DEF EndedNeverValid
  <2>1. t \in Tokens /\ lookup[t] \in Users /\ <<lookup[t], t>> \in index
    BY <1>1 DEF SessInv, TypeOK, Valid
  <2> QED
    BY <1>1, <2>1, ZenonT(30) DEF SessInv, KeysOK
<1> QED
  BY <1>1, SessInit, SessStep, PTL DEF Spec

-----------------------------------------------------------------------------
(* With Redis, a step that hands out a token leaves both of its keys. *)
LEMMA IssueStep ==
  ASSUME Redis, SessInv, [Next]_vars, NEW t \in returned' \ returned
  PROVE  Valid(t)'
<1>1. PICK r \in Reqs : SetIndex(r)
  <2>1. returned' # returned
    OBVIOUS
  <2>2. ASSUME NEW r \in Reqs, Arrive(r) PROVE UNCHANGED returned
    BY <2>2 DEF Arrive, Login, ChangePassword, Refresh, Logout, historyVars
  <2>3. ASSUME NEW r \in Reqs, Step(r), ~SetIndex(r) PROVE UNCHANGED returned
    BY <2>3, ZenonT(30) DEF Step, SetLookup, Undo, GetIndex, GetUser, DelLookup, DelIndex, UpdatePassword,
                Revoke, Scan, DelPage, Changed, Abort, historyVars
  <2>4. ASSUME NEW u \in Users, Deactivate(u) \/ Activate(u) PROVE UNCHANGED returned
    BY <2>4 DEF Deactivate, Activate, historyVars
  <2>5. ASSUME NEW q \in Tokens, Expire(q) PROVE UNCHANGED returned
    BY <2>5 DEF Expire, historyVars
  <2>6. CASE UNCHANGED vars
    BY <2>6 DEF vars, historyVars
  <2> QED
    BY <2>1, <2>2, <2>3, <2>4, <2>5, <2>6 DEF Next
<1>2. /\ lookup[tok[r]] = user[r] /\ user[r] \in Users /\ tok[r] \in Tokens
  BY <1>1, ZenonT(30) DEF SetIndex, SessInv, ReqOK, Issuing
<1>3. t = tok[r] /\ lookup' = lookup /\ index' = index \cup {<<user[r], tok[r]>>}
  BY <1>1, ZenonT(30) DEF SetIndex, WithIndex
<1> QED
  BY <1>2, <1>3, AuthInputs DEF Valid

(* Over Redis, login and refresh are fail-closed: a token that is handed   *)
(* out can be refreshed and revoked.                                       *)
THEOREM LoginFailsClosed == Redis => (Spec => LoginStoresSession)
<1> SUFFICES ASSUME Redis PROVE Spec => LoginStoresSession
  OBVIOUS
<1>1. SessInv /\ [Next]_vars => [\A t \in returned' \ returned : Valid(t)']_vars
  BY IssueStep
<1> QED
  BY <1>1, SessInit, SessStep, PTL DEF Spec, LoginStoresSession

(* A valid session is ended by a step of its user's request, or by the     *)
(* environment.                                                            *)
LEMMA OwnStep ==
  ASSUME SessInv, [Next]_vars, NEW t \in Tokens, Valid(t), ~Valid(t)', pc' # pc
  PROVE  \E r \in Reqs : user[r] = owner[t] /\ pc[r] # "idle" /\ pc'[r] # pc[r]
<1>0. TypeOK /\ KeysOK
  BY DEF SessInv
<1>a. \A r \in Reqs : ReqOK(r)
  BY DEF SessInv
<1>1. lookup[t] \in Users /\ <<lookup[t], t>> \in index /\ owner[t] = lookup[t]
  BY <1>0 DEF Valid, KeysOK, TypeOK
<1>2. lookup'[t] # lookup[t] \/ <<lookup[t], t>> \notin index'
  BY <1>1, ZenonT(30) DEF Valid
<1>3. ASSUME NEW r \in Reqs, SetLookup(r) \/ Undo(r) \/ DelLookup(r)
      PROVE  user[r] = owner[t] /\ pc[r] # "idle" /\ pc'[r] # pc[r]
  <2>1. tok[r] \in Tokens /\ owner[tok[r]] = user[r] /\ pc[r] \in {"setLookup", "undo", "delLookup"}
    BY <1>0, <1>3, <1>a DEF SetLookup, Undo, DelLookup, ReqOK, Issuing, Using, TypeOK
  <2>2. index' = index
    BY <1>3 DEF SetLookup, Undo, DelLookup
  <2>3. \A q \in Tokens : q # tok[r] => lookup'[q] = lookup[q]
    BY <1>0, <1>3, <2>1 DEF SetLookup, Undo, DelLookup, DeleteLookup, WithLookup, WithoutLookup, TypeOK
  <2>4. pc'[r] # pc[r]
    BY <1>0, <1>3 DEF SetLookup, Undo, DelLookup, Goto, Finish, TypeOK
  <2> QED
    BY <1>1, <1>2, <2>1, <2>2, <2>3, <2>4
<1>4. ASSUME NEW r \in Reqs, DelIndex(r) \/ DelPage(r)
      PROVE  user[r] = owner[t] /\ pc[r] # "idle" /\ pc'[r] # pc[r]
  <2>1. lookup' = lookup /\ pc[r] \in {"delIndex", "del"}
    BY <1>4 DEF DelIndex, DelPage
  <2>2. \A v \in Users : v # user[r] /\ <<v, t>> \in index => <<v, t>> \in index'
    BY <1>4 DEF DelIndex, DelPage, WithoutIndex
  <2>3. pc'[r] # pc[r]
    BY <1>0, <1>4 DEF DelIndex, AfterDelete, DelPage, Finish, TypeOK
  <2> QED
    BY <1>1, <1>2, <2>1, <2>2, <2>3, ZenonT(30)
<1>5. ASSUME NEW r \in Reqs, Arrive(r) PROVE FALSE
  BY <1>2, <1>1, <1>5, ZenonT(30) DEF Arrive, Login, ChangePassword, Refresh, Logout, cacheVars
<1>6. ASSUME NEW r \in Reqs, SetIndex(r) PROVE FALSE
  BY <1>2, <1>1, <1>6, ZenonT(30) DEF SetIndex, WithIndex
<1>7. ASSUME NEW r \in Reqs, \/ GetIndex(r) \/ GetUser(r) \/ UpdatePassword(r)
                             \/ Revoke(r) \/ Scan(r) \/ Changed(r) \/ Abort(r) PROVE FALSE
  <2>1. UNCHANGED cacheVars
    BY <1>7, ZenonT(30) DEF GetIndex, GetUser, UpdatePassword, Revoke, Scan, Changed, Abort
  <2> QED
    BY <1>2, <1>1, <2>1 DEF cacheVars
<1>8. ASSUME NEW u \in Users, Deactivate(u) \/ Activate(u) PROVE FALSE
  BY <1>8, ZenonT(30) DEF Deactivate, Activate, reqVars
<1>9. ASSUME NEW q \in Tokens, Expire(q) PROVE FALSE
  BY <1>9 DEF Expire, reqVars
<1>10. CASE UNCHANGED vars
  BY <1>10 DEF vars, reqVars
<1> QED
  BY <1>3, <1>4, <1>5, <1>6, <1>7, <1>8, <1>9, <1>10, ZenonT(30) DEF Next, Step

(* No request of one user ends a session of another. *)
THEOREM SessionsIsolated == Spec => OthersUntouched
<1>1. ASSUME SessInv, [Next]_vars, NEW t \in Tokens, Valid(t), ~Valid(t)'
      PROVE  \/ \E r \in Reqs : user[r] = owner[t] /\ pc[r] # "idle" /\ pc'[r] # pc[r]
             \/ UNCHANGED pc
  BY <1>1, OwnStep
<1>2. SessInv /\ [Next]_vars =>
        [\A t \in Tokens :
           Valid(t) /\ ~Valid(t)' =>
             \/ \E r \in Reqs : user[r] = owner[t] /\ pc[r] # "idle" /\ pc'[r] # pc[r]
             \/ UNCHANGED pc]_vars
  BY <1>1
<1> QED
  BY <1>2, SessInit, SessStep, PTL DEF Spec, OthersUntouched
-----------------------------------------------------------------------------
(* Only a cache that keeps keys can be scanned. *)
Revocable ==
  /\ ConfirmedOnlyIfRevocable
  /\ \A r \in Reqs : pc[r] \in {"scan", "del"} => Redis

(* A password change reaches the end of the scan only past the answer that *)
(* NoOpCache does not give.                                                *)
LEMMA RevocableStep ==
  ASSUME SessInv, Revocable, [Next]_vars PROVE Revocable'
<1> SUFFICES ASSUME ~Redis PROVE Revocable'
  BY DEF Revocable, ConfirmedOnlyIfRevocable
<1>1. confirmed = {} /\ \A r \in Reqs : pc[r] \notin {"scan", "del"}
  BY DEF Revocable, ConfirmedOnlyIfRevocable
<1>2. TypeOK
  BY DEF SessInv
<1> SUFFICES confirmed' = {} /\ \A q \in Reqs : pc'[q] \notin {"scan", "del"}
  BY DEF Revocable, ConfirmedOnlyIfRevocable
<1> DEFINE Elsewhere == Phases \ {"scan", "del"}
<1>3. ASSUME NEW r \in Reqs, \E p \in Elsewhere : pc' = [pc EXCEPT ![r] = p],
             confirmed' = confirmed
      PROVE  confirmed' = {} /\ \A q \in Reqs : pc'[q] \notin {"scan", "del"}
  BY <1>1, <1>2, <1>3 DEF TypeOK
<1>4. ASSUME NEW r \in Reqs, Arrive(r)
      PROVE  confirmed' = {} /\ \A q \in Reqs : pc'[q] \notin {"scan", "del"}
  <2>1. PICK p \in {"setLookup", "updatePassword", "getIndex", "delLookup"} :
          pc' = [pc EXCEPT ![r] = p]
    BY <1>4, ZenonT(30) DEF Arrive, Login, ChangePassword, Refresh, Logout, Begin
  <2>2. confirmed' = confirmed
    BY <1>4, ZenonT(30) DEF Arrive, Login, ChangePassword, Refresh, Logout, historyVars
  <2>3. p \in Elsewhere
    BY DEF Phases
  <2> HIDE DEF Elsewhere
  <2> QED
    BY <1>3, <2>1, <2>2, <2>3, ZenonT(30)
<1>5. ASSUME NEW r \in Reqs, SetLookup(r) \/ SetIndex(r) \/ Undo(r) \/ GetIndex(r) \/ GetUser(r)
      PROVE  confirmed' = {} /\ \A q \in Reqs : pc'[q] \notin {"scan", "del"}
  <2>1. PICK p \in {"setIndex", "idle", "undo", "getUser", "delLookup"} : pc' = [pc EXCEPT ![r] = p]
    BY <1>5, ZenonT(30) DEF SetLookup, SetIndex, Undo, GetIndex, GetUser, Goto, Finish
  <2>2. confirmed' = confirmed
    BY <1>5, ZenonT(30) DEF SetLookup, SetIndex, Undo, GetIndex, GetUser, historyVars
  <2>3. p \in Elsewhere
    BY DEF Phases
  <2> HIDE DEF Elsewhere
  <2> QED
    BY <1>3, <2>1, <2>2, <2>3, ZenonT(30)
<1>6. ASSUME NEW r \in Reqs, DelLookup(r) \/ DelIndex(r)
      PROVE  confirmed' = {} /\ \A q \in Reqs : pc'[q] \notin {"scan", "del"}
  <2>1. PICK p \in {"delIndex", "idle", "setLookup"} : pc' = [pc EXCEPT ![r] = p]
    BY <1>6, ZenonT(30) DEF DelLookup, DelIndex, AfterDelete, Goto, Finish
  <2>2. confirmed' = confirmed
    BY <1>6, ZenonT(30) DEF DelLookup, DelIndex, historyVars
  <2>3. p \in Elsewhere
    BY DEF Phases
  <2> HIDE DEF Elsewhere
  <2> QED
    BY <1>3, <2>1, <2>2, <2>3, ZenonT(30)
<1>7. ASSUME NEW r \in Reqs, UpdatePassword(r) \/ Revoke(r) \/ Abort(r)
      PROVE  confirmed' = {} /\ \A q \in Reqs : pc'[q] \notin {"scan", "del"}
  <2>1. PICK p \in {"revoke", "idle"} : pc' = [pc EXCEPT ![r] = p]
    BY <1>7, ZenonT(30) DEF UpdatePassword, Revoke, Abort, Goto, Finish
  <2>2. confirmed' = confirmed
    BY <1>7 DEF UpdatePassword, Revoke, Abort, historyVars
  <2>3. p \in Elsewhere
    BY DEF Phases
  <2> HIDE DEF Elsewhere
  <2> QED
    BY <1>3, <2>1, <2>2, <2>3, ZenonT(30)
<1>8. ASSUME NEW r \in Reqs, Scan(r) \/ DelPage(r) \/ Changed(r) PROVE FALSE
  BY <1>1, <1>8, ZenonT(30) DEF Scan, DelPage, Changed
<1>9. ASSUME NEW u \in Users, Deactivate(u) \/ Activate(u) PROVE UNCHANGED <<pc, confirmed>>
  BY <1>9 DEF Deactivate, Activate, reqVars, historyVars
<1>10. ASSUME NEW t \in Tokens, Expire(t) PROVE UNCHANGED <<pc, confirmed>>
  BY <1>10 DEF Expire, reqVars, historyVars
<1>11. CASE UNCHANGED vars
  BY <1>1, <1>11 DEF vars, reqVars, historyVars
<1>12. CASE UNCHANGED <<pc, confirmed>>
  BY <1>1, <1>12
<1> QED
  BY <1>4, <1>5, <1>6, <1>7, <1>8, <1>9, <1>10, <1>11, <1>12 DEF Next, Step

(* Without Redis no password change is ever reported as successful. *)
THEOREM NoCacheNoSuccess == Spec => []ConfirmedOnlyIfRevocable
<1>1. Init => Revocable
  BY DEF Init, Revocable, ConfirmedOnlyIfRevocable
<1>2. Revocable => ConfirmedOnlyIfRevocable
  BY DEF Revocable
<1> QED
  BY <1>1, <1>2, SessInit, SessStep, RevocableStep, PTL DEF Spec
=============================================================================
