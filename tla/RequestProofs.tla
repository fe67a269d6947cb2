--------------------------- MODULE RequestProofs ----------------------------
(***************************************************************************)
(* Theorems about what a request meets: Access, for any users, requests,   *)
(* lifetimes and configurations; DecisionCache, for any keys, capacity and *)
(* requests; and Storage, for any directories and files. The last two rest *)
(* on induction over the natural numbers and over lists, and on what       *)
(* Without returns for every list.                                         *)
(***************************************************************************)
EXTENDS Access, DecisionCache, Storage, FiniteSetTheorems, SequenceTheorems,
        WellFoundedInduction, TLAPS

(* A leaf is left to Zenon first, which is fast where no arithmetic is needed; *)
(* the longer limits are for slow machines.                                    *)
USE ZenonT(2), SMT, ZenonT(20), SMTT(30)

(***************************************************************************)
(* Access: the way of a request to its handler.                            *)
(***************************************************************************)
Routes == {"token", "permission", "role"}

(* What a request may act on was held while the process ran, H: the rules  *)
(* it reads, and the verdict it is about to cache.                         *)
VisitOK(r, H) ==
  /\ r.at \in {"authz", "put"} => r.token # Nobody
  /\ r.at = "authz" => r.seen \subseteq H
  /\ r.at = "put" => /\ r.route = "permission"
                     /\ r.allowed => Suffices(H, r.token.user, "permission")

(* So do all the copies of the rules, and requests under way end with the  *)
(* process.                                                                *)
AccessInv ==
  /\ loaded \subseteq had
  /\ serving # "down" => rules \subseteq had
  /\ reading # Nobody => reading \subseteq had
  /\ \A u \in People : decided[u] # Nobody /\ decided[u] => Suffices(had, u, "permission")
  /\ \A v \in Visits : VisitOK(visit[v], had)
  /\ \A v \in Visits : visit[v].at \in Busy => serving = "up"

(* More rules entitle to no less.                                          *)
LEMMA SufficesMonotone ==
  ASSUME NEW P, NEW Q, P \subseteq Q, NEW u, NEW route, Suffices(P, u, route)
  PROVE  Suffices(Q, u, route)
  BY DEF Suffices

LEMMA VisitOKMonotone ==
  ASSUME NEW r, NEW P, NEW Q, P \subseteq Q, VisitOK(r, P)
  PROVE  VisitOK(r, Q)
  BY SufficesMonotone DEF VisitOK

(* A request with nothing but its answer is a request, and harmless.       *)
LEMMA BlankOK ==
  ASSUME NEW at \in {"new", "auth", "handler", "401", "403", "500"}
  PROVE  /\ Blank(at) \in Visit /\ Blank(at).at = at /\ Blank(at).token = Nobody
         /\ \A H : VisitOK(Blank(at), H)
  BY DEF Blank, Visit, VisitOK

(* A request is answered or comes to its handler, and no other is.         *)
LEMMA ProceedMoves ==
  ASSUME AccessTypeOK, AccessInv, NEW v \in Visits,
         NEW at \in {"handler", "401", "403", "500"}, Proceed(v, at)
  PROVE  /\ visit' \in [Visits -> Visit]
         /\ \A w \in Visits : VisitOK(visit'[w], had)
         /\ \A w \in Visits : visit'[w].at \in Busy => serving = "up"
         /\ visit'[v].at = at
  <1>1. Blank(at) \in Visit /\ Blank(at).at = at /\ \A H : VisitOK(Blank(at), H)
    BY BlankOK
  <1>2. visit'[v] = Blank(at) /\ \A w \in Visits : w # v => visit'[w] = visit[w]
    BY DEF Proceed, AccessTypeOK
  <1>3. visit' \in [Visits -> Visit]
    BY <1>1 DEF Proceed, AccessTypeOK
  <1> QED BY <1>1, <1>2, <1>3 DEF AccessInv, Busy

(* The verdict of an evaluation rests on rules held while the process ran. *)
LEMMA EvaluatesHeld ==
  ASSUME AccessInv, NEW v \in Visits, visit[v].at = "authz", NEW allowed \in BOOLEAN,
         Evaluates(v, allowed), allowed
  PROVE  Suffices(had, visit[v].token.user, visit[v].route)
  <1>1. visit[v].seen \subseteq had
    BY DEF AccessInv, VisitOK
  <1>2. Suffices(visit[v].seen, visit[v].token.user, visit[v].route)
    BY DEF Evaluates
  <1> QED BY <1>1, <1>2, SufficesMonotone

(* The memory becomes what the database held, under the calls that read it. *)
LEMMA MemoryKeeps ==
  ASSUME AccessTypeOK, AccessInv, NEW P \in SUBSET RightsRules, NEW H, had \subseteq H,
         P \subseteq H, MemoryBecomes(P)
  PROVE  /\ visit' \in [Visits -> Visit]
         /\ \A w \in Visits : VisitOK(visit'[w], H) /\ visit'[w].at = visit[w].at
  <1>1. ASSUME NEW w \in Visits
        PROVE  visit'[w] \in Visit /\ VisitOK(visit'[w], H) /\ visit'[w].at = visit[w].at
    <2>1. visit[w] \in Visit /\ VisitOK(visit[w], H)
      BY VisitOKMonotone DEF AccessTypeOK, AccessInv
    <2>2. CASE visit[w].at = "authz"
      <3>1. visit'[w] = [visit[w] EXCEPT !.raced = TRUE, !.seen = @ \cup P]
        BY <2>2 DEF MemoryBecomes
      <3>2. /\ visit'[w].at = "authz" /\ visit'[w].token = visit[w].token
            /\ visit'[w].seen = visit[w].seen \cup P
            /\ visit'[w] \in Visit
        BY <2>1, <2>2, <3>1 DEF Visit
      <3> QED BY <2>1, <2>2, <3>2 DEF VisitOK
    <2>3. CASE visit[w].at # "authz"
      BY <2>1, <2>3 DEF MemoryBecomes
    <2> QED BY <2>2, <2>3
  <1> QED BY <1>1 DEF MemoryBecomes

(* Decisions that are forgotten are none, the others stay.                 *)
LEMMA ForgottenKeeps ==
  ASSUME AccessTypeOK, AccessInv, NEW U, decided' = Forgotten(U), NEW H, had \subseteq H
  PROVE  /\ decided' \in [People -> BOOLEAN \cup {Nobody}]
         /\ \A u \in People : decided'[u] # Nobody /\ decided'[u] => Suffices(H, u, "permission")
  <1>1. ASSUME NEW u \in People PROVE decided'[u] = Nobody \/ decided'[u] = decided[u]
    BY DEF Forgotten
  <1>2. ASSUME NEW u \in People, decided'[u] # Nobody, decided'[u]
        PROVE  Suffices(H, u, "permission")
    <2>1. decided[u] # Nobody /\ decided[u]
      BY <1>1, <1>2
    <2> QED BY <2>1, SufficesMonotone DEF AccessInv
  <1>3. decided' \in [People -> BOOLEAN \cup {Nobody}]
    BY <1>1 DEF Forgotten, AccessTypeOK
  <1> QED BY <1>2, <1>3

(* StartServer, StopServer: the copies are of the rules, or lost, and no   *)
(* request is under way.                                                   *)
LEMMA StartKeeps ==
  ASSUME AccessTypeOK, AccessInv, StartServer PROVE (AccessTypeOK /\ AccessInv)'
  <1>1. PICK file \in ConfigFiles, env \in Environments : settings' = Load(file, env)
    BY DEF StartServer
  <1>2. file \in Settings /\ env \in [secret: Secrets, issuer: Issuers]
    BY AccessInputs
  <1>3. settings' \in Settings
    BY <1>1, <1>2 DEF Load, Override, Settings
  <1>4. serving' \in {"down", "up", "refused"} /\ had' = rules /\ loaded' = rules
        /\ decided' = [u \in People |-> Nobody] /\ reading' = Nobody
        /\ UNCHANGED <<now, tokens, visit, rules>>
    BY DEF StartServer
  <1>5. AccessTypeOK'
    BY <1>3, <1>4 DEF AccessTypeOK
  <1>6. \A v \in Visits : visit[v].at \notin Busy
    BY DEF StartServer, AccessInv
  <1>7. \A v \in Visits : VisitOK(visit[v], had')
    BY <1>6 DEF VisitOK, Busy
  <1> QED BY <1>4, <1>5, <1>6, <1>7 DEF AccessInv

LEMMA StopKeeps ==
  ASSUME AccessTypeOK, AccessInv, StopServer
  PROVE  (AccessTypeOK /\ AccessInv)' /\ \A v \in Visits : visit'[v].at \in {visit[v].at, "500"}
  <1>1. ASSUME NEW v \in Visits
        PROVE  /\ visit'[v] \in Visit /\ visit'[v].at \notin Busy
               /\ visit'[v].at \in {visit[v].at, "500"}
    <2>1. visit'[v] = IF visit[v].at \in Busy THEN Blank("500") ELSE visit[v]
      BY DEF StopServer
    <2> QED BY <2>1, BlankOK DEF AccessTypeOK, Busy
  <1>2. visit' \in [Visits -> Visit]
    BY <1>1 DEF StopServer
  <1>3. /\ serving' = "down" /\ loaded' = {} /\ decided' = [u \in People |-> Nobody]
        /\ reading' = Nobody /\ had' = {} /\ UNCHANGED <<settings, now, tokens, rules>>
    BY DEF StopServer
  <1>4. AccessTypeOK'
    BY <1>2, <1>3 DEF AccessTypeOK
  <1>5. \A v \in Visits : VisitOK(visit'[v], had')
    BY <1>1 DEF VisitOK, Busy
  <1> QED BY <1>1, <1>3, <1>4, <1>5 DEF AccessInv

(* Arrives, Auth: the rules the request will read are those loaded.        *)
LEMMA ArrivesKeeps ==
  ASSUME AccessTypeOK, AccessInv, NEW v \in Visits, NEW route \in Routes,
         NEW t \in tokens \cup {Nobody}, Arrives(v, route, t)
  PROVE  (AccessTypeOK /\ AccessInv)' /\ visit'[v].at = "auth"
  <1> DEFINE r == [Blank("auth") EXCEPT !.route = route, !.token = t]
  <1>1. r \in Visit /\ r.at = "auth"
    BY DEF AccessTypeOK, Blank, Visit, Routes
  <1>2. VisitOK(r, had)
    BY <1>1 DEF VisitOK
  <1>3. visit' = [visit EXCEPT ![v] = r] /\ UNCHANGED <<settings, serving, now, tokens, authzVars>>
        /\ serving = "up"
    BY DEF Arrives
  <1> HIDE DEF r
  <1>4. visit'[v] = r /\ visit' \in [Visits -> Visit] /\ \A w \in Visits : w # v => visit'[w] = visit[w]
    BY <1>1, <1>3 DEF AccessTypeOK
  <1>5. AccessTypeOK'
    BY <1>3, <1>4 DEF AccessTypeOK, authzVars
  <1>6. AccessInv'
    BY <1>1, <1>2, <1>3, <1>4 DEF AccessInv, authzVars
  <1> QED BY <1>1, <1>4, <1>5, <1>6

LEMMA AuthKeeps ==
  ASSUME AccessTypeOK, AccessInv, NEW v \in Visits, Auth(v)
  PROVE  /\ (AccessTypeOK /\ AccessInv)'
         /\ visit'[v].at = "handler" => visit[v].route = "token"
  <1>1. UNCHANGED <<settings, serving, now, tokens, rules, loaded, decided, reading, had>>
    BY DEF Auth, authzVars
  <1>2. CASE visit[v].at = "auth" /\ ~ParseToken(visit[v].token)
    <2>1. Proceed(v, "401")
      BY <1>2 DEF Auth
    <2> QED BY <1>1, <2>1, ProceedMoves DEF AccessTypeOK, AccessInv
  <1>3. CASE ParseToken(visit[v].token) /\ visit[v].route = "token"
    <2>1. Proceed(v, "handler")
      BY <1>3 DEF Auth
    <2> QED BY <1>1, <1>3, <2>1, ProceedMoves DEF AccessTypeOK, AccessInv
  <1>4. CASE ParseToken(visit[v].token) /\ visit[v].route # "token"
    <2> DEFINE r == [visit[v] EXCEPT !.at = "authz", !.seen = loaded]
    <2>1. visit[v] \in Visit /\ visit[v].token # Nobody /\ serving = "up"
      BY <1>4 DEF ParseToken, AccessTypeOK, AccessInv, Auth, Busy
    <2>2. /\ r \in Visit /\ r.at = "authz" /\ r.seen = loaded
          /\ r.token = visit[v].token
      BY <2>1 DEF Visit, AccessTypeOK
    <2>3. VisitOK(r, had)
      BY <2>1, <2>2 DEF VisitOK, AccessInv
    <2>4. visit' = [visit EXCEPT ![v] = r]
      BY <1>4 DEF Auth
    <2> HIDE DEF r
    <2>5. visit'[v] = r /\ visit' \in [Visits -> Visit] /\ \A w \in Visits : w # v => visit'[w] = visit[w]
      BY <2>2, <2>4 DEF AccessTypeOK
    <2>6. AccessTypeOK'
      BY <1>1, <2>5 DEF AccessTypeOK
    <2>7. AccessInv'
      BY <1>1, <2>1, <2>3, <2>5 DEF AccessInv
    <2> QED BY <2>2, <2>5, <2>6, <2>7
  <1> QED BY <1>2, <1>3, <1>4 DEF Auth

(* What serving v would need.                                              *)
Entitled(v) == \/ visit[v].route = "token" \/ ~settings.authz
               \/ Suffices(had, visit[v].token.user, visit[v].route)

(* A verdict that rests on rules held while the process ran.               *)
LEMMA VerdictKeeps ==
  ASSUME AccessTypeOK, AccessInv, NEW v \in Visits,
         NEW at \in {"handler", "401", "403", "500"}, Proceed(v, at),
         at = "handler" => Entitled(v),
         UNCHANGED <<settings, serving, now, tokens, authzVars>>
  PROVE  (AccessTypeOK /\ AccessInv)' /\ (visit'[v].at = "handler" => Entitled(v))
  BY ProceedMoves DEF AccessTypeOK, AccessInv, authzVars

LEMMA VerdictIs ==
  ASSUME NEW allowed \in BOOLEAN
  PROVE  Verdict(allowed) \in {"handler", "403"} /\ (Verdict(allowed) = "handler" <=> allowed)
  BY DEF Verdict

LEMMA RequirePermissionKeeps ==
  ASSUME AccessTypeOK, AccessInv, NEW v \in Visits, RequirePermission(v)
  PROVE  (AccessTypeOK /\ AccessInv)' /\ (visit'[v].at = "handler" => Entitled(v))
  <1> DEFINE u == visit[v].token.user
             cached == decided[u]
  <1>1. /\ visit[v].at = "authz" /\ visit[v].route = "permission"
        /\ UNCHANGED <<settings, serving, now, tokens, authzVars>>
    BY DEF RequirePermission
  <1>2. visit[v] \in Visit /\ visit[v].token # Nobody /\ serving = "up"
    BY <1>1 DEF AccessTypeOK, AccessInv, VisitOK, Busy
  <1>3. u \in People
    BY <1>2 DEF Visit, Token
  <1>4. CASE ~settings.authz /\ Proceed(v, "handler")
    BY <1>1, <1>4, VerdictKeeps DEF Entitled
  <1>5. CASE settings.authz /\ cached # Nobody /\ Proceed(v, Verdict(cached))
    <2>1. cached \in BOOLEAN
      BY <1>3, <1>5 DEF AccessTypeOK
    <2>2. cached => Suffices(had, u, "permission")
      BY <1>3, <1>5 DEF AccessInv
    <2>3. Verdict(cached) = "handler" => Entitled(v)
      BY <1>1, <2>1, <2>2, VerdictIs DEF Entitled
    <2>4. Verdict(cached) \in {"handler", "403"}
      BY <2>1, VerdictIs
    <2> QED BY <1>1, <1>5, <2>3, <2>4, VerdictKeeps
  <1>6. ASSUME NEW allowed \in BOOLEAN, Evaluates(v, allowed),
               visit' = [visit EXCEPT ![v] = [@ EXCEPT !.at = "put", !.allowed = allowed]]
        PROVE  (AccessTypeOK /\ AccessInv)' /\ (visit'[v].at = "handler" => Entitled(v))
    <2> DEFINE r == [visit[v] EXCEPT !.at = "put", !.allowed = allowed]
    <2>1. /\ r \in Visit /\ r.at = "put" /\ r.allowed = allowed
          /\ r.token = visit[v].token /\ r.route = "permission"
      BY <1>1, <1>2 DEF Visit
    <2>2. allowed => Suffices(had, u, "permission")
      BY <1>1, <1>6, EvaluatesHeld
    <2>3. VisitOK(r, had)
      BY <1>2, <2>1, <2>2 DEF VisitOK
    <2>4. visit' = [visit EXCEPT ![v] = r]
      BY <1>6 DEF AccessTypeOK
    <2> HIDE DEF r
    <2>5. visit'[v] = r /\ visit' \in [Visits -> Visit] /\ \A w \in Visits : w # v => visit'[w] = visit[w]
      BY <2>1, <2>4 DEF AccessTypeOK
    <2>6. AccessTypeOK'
      BY <1>1, <2>5 DEF AccessTypeOK, authzVars
    <2>7. AccessInv'
      BY <1>1, <1>2, <2>3, <2>5 DEF AccessInv, authzVars
    <2> QED BY <2>1, <2>5, <2>6, <2>7
  <1>7. CASE Proceed(v, "500")
    BY <1>1, <1>7, VerdictKeeps
  <1> QED BY <1>4, <1>5, <1>6, <1>7 DEF RequirePermission

LEMMA RequireRoleKeeps ==
  ASSUME AccessTypeOK, AccessInv, NEW v \in Visits, RequireRole(v)
  PROVE  (AccessTypeOK /\ AccessInv)' /\ (visit'[v].at = "handler" => Entitled(v))
  <1>1. /\ visit[v].at = "authz"
        /\ UNCHANGED <<settings, serving, now, tokens, authzVars>>
    BY DEF RequireRole
  <1>2. CASE ~settings.authz /\ Proceed(v, "handler")
    BY <1>1, <1>2, VerdictKeeps DEF Entitled
  <1>3. ASSUME NEW allowed \in BOOLEAN, Evaluates(v, allowed), Proceed(v, Verdict(allowed))
        PROVE  (AccessTypeOK /\ AccessInv)' /\ (visit'[v].at = "handler" => Entitled(v))
    <2>1. Verdict(allowed) \in {"handler", "403"} /\ (Verdict(allowed) = "handler" <=> allowed)
      BY VerdictIs
    <2>2. allowed => Entitled(v)
      BY <1>1, <1>3, EvaluatesHeld DEF Entitled
    <2> QED BY <1>1, <1>3, <2>1, <2>2, VerdictKeeps
  <1>4. CASE Proceed(v, "500")
    BY <1>1, <1>4, VerdictKeeps
  <1> QED BY <1>2, <1>3, <1>4 DEF RequireRole

LEMMA PutDecisionKeeps ==
  ASSUME AccessTypeOK, AccessInv, NEW v \in Visits, PutDecision(v)
  PROVE  (AccessTypeOK /\ AccessInv)' /\ (visit'[v].at = "handler" => Entitled(v))
  <1> DEFINE u == visit[v].token.user
             allowed == visit[v].allowed
  <1>1. visit[v].at = "put" /\ Proceed(v, Verdict(allowed))
        /\ decided' = [decided EXCEPT ![u] = allowed]
        /\ UNCHANGED <<settings, serving, now, tokens, rules, loaded, reading, had>>
    BY DEF PutDecision
  <1>2. visit[v] \in Visit /\ visit[v].token # Nobody /\ visit[v].route = "permission"
        /\ (allowed => Suffices(had, u, "permission"))
    BY <1>1 DEF AccessTypeOK, AccessInv, VisitOK
  <1>3. u \in People /\ allowed \in BOOLEAN
    BY <1>2 DEF Visit, Token
  <1>4. Verdict(allowed) \in {"handler", "403"} /\ (Verdict(allowed) = "handler" <=> allowed)
    BY <1>3, VerdictIs
  <1>5. /\ visit' \in [Visits -> Visit]
        /\ \A w \in Visits : VisitOK(visit'[w], had)
        /\ \A w \in Visits : visit'[w].at \in Busy => serving = "up"
        /\ visit'[v].at = Verdict(allowed)
    BY <1>1, <1>4, ProceedMoves
  <1>6. visit'[v].at = "handler" => Entitled(v)
    BY <1>2, <1>4, <1>5 DEF Entitled
  <1>7. decided' \in [People -> BOOLEAN \cup {Nobody}]
    BY <1>1, <1>3 DEF AccessTypeOK
  <1>8. ASSUME NEW p \in People, decided'[p] # Nobody, decided'[p]
        PROVE  Suffices(had, p, "permission")
    <2>1. CASE p = u
      <3>1. decided'[p] = allowed
        BY <1>1, <1>3, <2>1 DEF AccessTypeOK
      <3> QED BY <1>2, <1>8, <2>1, <3>1
    <2>2. CASE p # u
      <3>1. decided'[p] = decided[p]
        BY <1>1, <2>2 DEF AccessTypeOK
      <3> QED BY <1>8, <3>1 DEF AccessInv
    <2> QED BY <2>1, <2>2
  <1>9. AccessTypeOK'
    BY <1>1, <1>5, <1>7 DEF AccessTypeOK
  <1>10. AccessInv'
    BY <1>1, <1>5, <1>8 DEF AccessInv
  <1> QED BY <1>6, <1>9, <1>10

(* A rule changes, here or elsewhere; LoadPolicy reads and installs.       *)
LEMMA RightsChangeKeeps ==
  ASSUME AccessTypeOK, AccessInv, NEW x \in RightsRules, RightsChange(x)
  PROVE  (AccessTypeOK /\ AccessInv)' /\ \A v \in Visits : visit'[v].at = visit[v].at
  <1>1. PICK P \in SUBSET RightsRules :
          MemoryBecomes(P) /\ rules' \subseteq RightsRules /\ P \subseteq had \cup rules'
    <2>1. CASE rules' = rules \ {x} /\ MemoryBecomes(loaded \ {x})
      BY <2>1 DEF AccessTypeOK, AccessInv
    <2>2. CASE rules' = rules \cup {x} /\ MemoryBecomes(loaded \cup {x})
      BY <2>2 DEF AccessTypeOK, AccessInv
    <2> QED BY <2>1, <2>2 DEF RightsChange
  <1>2. had' = had \cup rules' /\ UNCHANGED <<settings, serving, now, tokens, reading>>
    BY DEF RightsChange
  <1>3. PICK U : decided' = Forgotten(U)
    BY DEF RightsChange
  <1>4. /\ visit' \in [Visits -> Visit]
        /\ \A w \in Visits : VisitOK(visit'[w], had') /\ visit'[w].at = visit[w].at
    BY <1>1, <1>2, MemoryKeeps
  <1>5. /\ decided' \in [People -> BOOLEAN \cup {Nobody}]
        /\ \A u \in People : decided'[u] # Nobody /\ decided'[u] => Suffices(had', u, "permission")
    BY <1>2, <1>3, ForgottenKeeps
  <1>6. loaded' = P
    BY <1>1 DEF MemoryBecomes
  <1>7. AccessTypeOK'
    BY <1>1, <1>2, <1>4, <1>5, <1>6 DEF AccessTypeOK
  <1>8. AccessInv'
    BY <1>1, <1>2, <1>4, <1>5, <1>6 DEF AccessInv
  <1> QED BY <1>4, <1>7, <1>8

LEMMA StoredElsewhereKeeps ==
  ASSUME AccessTypeOK, AccessInv, NEW x \in RightsRules, StoredElsewhere(x)
  PROVE  (AccessTypeOK /\ AccessInv)'
  <1>1. /\ rules' \subseteq RightsRules /\ had' = had \cup rules'
        /\ UNCHANGED <<settings, serving, now, tokens, loaded, decided, reading, visit>>
    BY DEF StoredElsewhere, AccessTypeOK
  <1>2. \A v \in Visits : VisitOK(visit[v], had')
    BY <1>1, VisitOKMonotone DEF AccessInv
  <1>3. \A u \in People : decided[u] # Nobody /\ decided[u] => Suffices(had', u, "permission")
    BY <1>1, SufficesMonotone DEF AccessInv
  <1> QED BY <1>1, <1>2, <1>3 DEF AccessTypeOK, AccessInv

LEMMA BackstopKeeps ==
  ASSUME AccessTypeOK, AccessInv,
         BackstopReads \/ BackstopInstalls \/ \E u \in People : Evicted(u)
  PROVE  (AccessTypeOK /\ AccessInv)' /\ \A v \in Visits : visit'[v].at = visit[v].at
  <1>1. CASE BackstopReads
    BY <1>1 DEF BackstopReads, AccessTypeOK, AccessInv
  <1>2. CASE BackstopInstalls
    <2>1. /\ MemoryBecomes(reading) /\ reading \in SUBSET RightsRules /\ reading \subseteq had
          /\ reading' = Nobody /\ decided' = Forgotten(People) /\ loaded' = reading
          /\ UNCHANGED <<settings, serving, now, tokens, rules, had>>
      BY <1>2 DEF BackstopInstalls, MemoryBecomes, AccessTypeOK, AccessInv
    <2>2. /\ visit' \in [Visits -> Visit]
          /\ \A w \in Visits : VisitOK(visit'[w], had) /\ visit'[w].at = visit[w].at
      BY <2>1, MemoryKeeps
    <2>3. /\ decided' \in [People -> BOOLEAN \cup {Nobody}]
          /\ \A u \in People : decided'[u] # Nobody /\ decided'[u] => Suffices(had, u, "permission")
      BY <2>1, ForgottenKeeps
    <2>4. AccessTypeOK'
      BY <2>1, <2>2, <2>3 DEF AccessTypeOK
    <2>5. AccessInv'
      BY <2>1, <2>2, <2>3 DEF AccessInv
    <2> QED BY <2>2, <2>4, <2>5
  <1>3. ASSUME NEW u \in People, Evicted(u)
        PROVE  (AccessTypeOK /\ AccessInv)' /\ \A v \in Visits : visit'[v].at = visit[v].at
    <2>1. decided' = Forgotten({u})
          /\ UNCHANGED <<settings, serving, now, tokens, rules, loaded, reading, visit, had>>
      BY <1>3 DEF Evicted
    <2>2. /\ decided' \in [People -> BOOLEAN \cup {Nobody}]
          /\ \A p \in People : decided'[p] # Nobody /\ decided'[p] => Suffices(had, p, "permission")
      BY <2>1, ForgottenKeeps
    <2> QED BY <2>1, <2>2 DEF AccessTypeOK, AccessInv
  <1> QED BY <1>1, <1>2, <1>3

(* Every step keeps the types and the invariant, and serves only requests  *)
(* that are entitled.                                                      *)
LEMMA AccessStep ==
  ASSUME AccessTypeOK, AccessInv, [AccessNext]_accessVars
  PROVE  /\ (AccessTypeOK /\ AccessInv)'
         /\ \A v \in Visits : visit[v].at # "handler" /\ visit'[v].at = "handler" => Entitled(v)
  <1> DEFINE Goal == /\ (AccessTypeOK /\ AccessInv)'
                     /\ \A v \in Visits : visit[v].at # "handler" /\ visit'[v].at = "handler" =>
                          Entitled(v)
  <1> SUFFICES Goal
    OBVIOUS
  <1>1. CASE UNCHANGED accessVars
    BY <1>1 DEF accessVars, authzVars, AccessTypeOK, AccessInv
  <1>2. CASE StartServer
    <2>1. visit' = visit
      BY <1>2 DEF StartServer
    <2> QED BY <1>2, <2>1, StartKeeps
  <1>3. CASE StopServer
    <2>1. \A v \in Visits : visit'[v].at = "handler" => visit[v].at = "handler"
      BY <1>3, StopKeeps
    <2> QED BY <1>3, <2>1, StopKeeps
  <1>4. CASE AccessTick
    <2>1. now' \in 0..LastTick
          /\ UNCHANGED <<settings, serving, tokens, visit, rules, loaded, decided, reading, had>>
      BY <1>4, AccessInputs DEF AccessTick, AccessTypeOK, authzVars
    <2>2. AccessTypeOK'
      BY <2>1 DEF AccessTypeOK
    <2> QED BY <2>1, <2>2 DEF AccessInv
  <1>5. CASE BackstopReads \/ BackstopInstalls \/ \E u \in People : Evicted(u)
    BY <1>5, BackstopKeeps
  <1>6. ASSUME NEW u \in People, SignToken(u) PROVE Goal
    <2>1. AccessToken(u) \in Token
      BY AccessInputs DEF AccessToken, Token, Settings, AccessTypeOK
    <2>2. tokens' \subseteq Token
          /\ UNCHANGED <<settings, serving, now, visit, rules, loaded, decided, reading, had>>
      BY <1>6, <2>1 DEF SignToken, AccessTypeOK, authzVars
    <2>3. AccessTypeOK'
      BY <2>2 DEF AccessTypeOK
    <2> QED BY <2>2, <2>3 DEF AccessInv
  <1>7. ASSUME NEW x \in RightsRules, RightsChange(x) PROVE Goal
    BY <1>7, RightsChangeKeeps
  <1>8. ASSUME NEW x \in RightsRules, StoredElsewhere(x) PROVE Goal
    <2>1. visit' = visit
      BY <1>8 DEF StoredElsewhere
    <2> QED BY <1>8, <2>1, StoredElsewhereKeeps
  <1>9. ASSUME NEW v \in Visits, NEW route \in Routes, NEW t \in tokens \cup {Nobody},
               Arrives(v, route, t)
        PROVE  Goal
    <2>1. \A w \in Visits : w # v => visit'[w] = visit[w]
      BY <1>9 DEF Arrives, AccessTypeOK
    <2> QED BY <1>9, <2>1, ArrivesKeeps
  <1>10. ASSUME NEW v \in Visits,
                Auth(v) \/ RequirePermission(v) \/ PutDecision(v) \/ RequireRole(v)
         PROVE  Goal
    <2>1. \A w \in Visits : w # v => visit'[w] = visit[w]
      BY <1>10 DEF Auth, RequirePermission, PutDecision, RequireRole, Proceed, AccessTypeOK
    <2>2. (AccessTypeOK /\ AccessInv)' /\ (visit'[v].at = "handler" => Entitled(v))
      BY <1>10, AuthKeeps, RequirePermissionKeeps, PutDecisionKeeps, RequireRoleKeeps DEF Entitled
    <2> QED BY <2>1, <2>2
  <1> HIDE DEF Goal
  <1> QED BY <1>1, <1>2, <1>3, <1>4, <1>5, <1>6, <1>7, <1>8, <1>9, <1>10 DEF AccessNext, Routes

LEMMA AccessBegins == AccessInit => AccessTypeOK /\ AccessInv
  <1> SUFFICES ASSUME AccessInit PROVE AccessTypeOK /\ AccessInv
    OBVIOUS
  <1>1. Blank("new") \in Visit /\ Blank("new").at = "new" /\ \A H : VisitOK(Blank("new"), H)
    BY BlankOK
  <1>2. AccessTypeOK
    BY <1>1, AccessInputs DEF AccessInit, AccessTypeOK
  <1>3. AccessInv
    BY <1>1 DEF AccessInit, AccessInv, Busy
  <1> QED BY <1>2, <1>3

(* The server's settings are of the config file or of the environment, its *)
(* tokens are signed with them, and its copies are of rules there are.     *)
LEMMA AccessTypesKept == AccessSpec => []AccessTypeOK
  BY AccessBegins, AccessStep, PTL DEF AccessSpec

(* A request comes to a guarded handler only if rules entitle its user that *)
(* the database held since this process loaded them, or authorization is    *)
(* switched off: for any users, requests, lifetimes and configurations,     *)
(* whatever decisions are cached, reloads under way, and changes made.      *)
THEOREM OnlyEntitledAreServed == AccessSpec => ServedMeansEntitled
  <1>1. AccessSpec => [](AccessTypeOK /\ AccessInv)
    BY AccessBegins, AccessStep, PTL DEF AccessSpec
  <1>2. AccessTypeOK /\ AccessInv /\ [AccessNext]_accessVars =>
          [\A v \in Visits :
             visit[v].at # "handler" /\ visit'[v].at = "handler" =>
               \/ visit[v].route = "token" \/ ~settings.authz
               \/ Suffices(had, visit[v].token.user, visit[v].route)]_accessVars
    BY AccessStep DEF Entitled
  <1> QED BY <1>1, <1>2, PTL DEF AccessSpec, ServedMeansEntitled

(***************************************************************************)
(* Lists: loops over a list, and Without.                                  *)
(***************************************************************************)
(* Induction, without an operator as parameter: of a property that holds   *)
(* at 0 and is inherited there is no counterexample.                       *)
LEMMA NoLeast ==
  ASSUME NEW Bad \in SUBSET Nat, 0 \notin Bad,
         \A n \in Nat : n \notin Bad => n + 1 \notin Bad
  PROVE  Bad = {}
  <1>1. SUFFICES ASSUME Bad # {} PROVE FALSE
    OBVIOUS
  <1>2. PICK m \in Bad : \A y \in Bad : ~(<<y, m>> \in OpToRel(<, Nat))
    BY <1>1, WFMin, NatLessThanWellFounded, ZenonT(30)
  <1>3. m # 0 /\ m - 1 \in Nat /\ m - 1 < m
    OBVIOUS
  <1>4. m - 1 \notin Bad
    BY <1>2, <1>3, ZenonT(30) DEF OpToRel
  <1> QED BY <1>3, <1>4

(* f is the run of a loop over the list s, with body g: f[n] is the state  *)
(* after n elements, e at first.                                           *)
LoopRun(f, X, e, g, s) ==
  /\ f \in [0..Len(s) -> X] /\ f[0] = e
  /\ \A n \in 1..Len(s) : f[n] = g[<<f[n - 1], s[n]>>]

(* Every loop over a list has a run. *)
LEMMA LoopExists ==
  ASSUME NEW X, NEW Y, NEW e \in X, NEW g \in [X \X Y -> X], NEW s \in Seq(Y)
  PROVE  \E f : LoopRun(f, X, e, g, s)
  <1> DEFINE Run(f, m) == /\ f \in [0..m -> X] /\ f[0] = e
                          /\ \A n \in 1..m : f[n] = g[<<f[n - 1], s[n]>>]
             Bad == {m \in Nat : m <= Len(s) /\ ~\E f : Run(f, m)}
  <1>0. Len(s) \in Nat
    OBVIOUS
  <1>1. 0 \notin Bad
    <2>1. Run([n \in 0..0 |-> e], 0)
      OBVIOUS
    <2> QED BY <2>1, ZenonT(30)
  <1>2. ASSUME NEW m \in Nat, m \notin Bad PROVE m + 1 \notin Bad
    <2>1. CASE m + 1 <= Len(s)
      <3>1. PICK f : Run(f, m)
        BY <1>0, <1>2, <2>1
      <3>2. s[m + 1] \in Y
        BY <2>1, ElementOfSeq
      <3> DEFINE next == g[<<f[m], s[m + 1]>>]
                 h == [n \in 0..(m + 1) |-> IF n <= m THEN f[n] ELSE next]
      <3>3. next \in X
        BY <3>1, <3>2
      <3>4. h \in [0..(m + 1) -> X] /\ h[0] = e
        BY <3>1, <3>3
      <3>5. ASSUME NEW n \in 1..(m + 1) PROVE h[n] = g[<<h[n - 1], s[n]>>]
        <4>1. CASE n \in 1..m
          <5>1. h[n] = f[n] /\ h[n - 1] = f[n - 1]
            BY <4>1
          <5> QED BY <3>1, <4>1, <5>1
        <4>2. CASE n = m + 1
          <5>1. h[n - 1] = f[m] /\ h[n] = next
            BY <4>2
          <5> QED BY <4>2, <5>1, ZenonT(30)
        <4> QED BY <4>1, <4>2
      <3>6. Run(h, m + 1)
        BY <3>4, <3>5, ZenonT(30)
      <3> QED BY <3>6, ZenonT(30)
    <2> QED BY <2>1
  <1> HIDE DEF Bad
  <1>3. Bad = {}
    BY <1>1, <1>2, NoLeast, ZenonT(30) DEF Bad
  <1>4. PICK f : Run(f, Len(s))
    <2>1. Len(s) \notin Bad /\ Len(s) <= Len(s)
      BY <1>0, <1>3
    <2> HIDE DEF Run
    <2> QED BY <1>0, <2>1 DEF Bad
  <1> QED BY <1>4 DEF LoopRun

(* The function that Kept names is the one its loop defines.               *)
LEMMA KeptDef ==
  ASSUME NEW S, NEW s \in Seq(S), NEW K
  PROVE  /\ Kept(s, K) \in [0..Len(s) -> Seq(S)]
         /\ Kept(s, K)[0] = <<>>
         /\ \A n \in 1..Len(s) : Kept(s, K)[n] = Keep(Kept(s, K)[n - 1], s[n], K)
  <1> DEFINE Def(f) == [n \in 0..Len(s) |-> IF n = 0 THEN <<>> ELSE Keep(f[n - 1], s[n], K)]
             body == [p \in Seq(S) \X S |-> Keep(p[1], p[2], K)]
  <1>0. Len(s) \in Nat
    OBVIOUS
  <1>1. <<>> \in Seq(S)
    OBVIOUS
  <1>2. body \in [Seq(S) \X S -> Seq(S)]
    BY DEF Keep
  <1>3. PICK f \in [0..Len(s) -> Seq(S)] :
          f[0] = <<>> /\ \A n \in 1..Len(s) : f[n] = body[<<f[n - 1], s[n]>>]
    <2> HIDE DEF body
    <2>1. \E f : LoopRun(f, Seq(S), <<>>, body, s)
      BY <1>1, <1>2, LoopExists, ZenonT(30)
    <2> QED BY <2>1, ZenonT(30) DEF LoopRun
  <1>4. \A n \in 1..Len(s) : f[n] = Keep(f[n - 1], s[n], K)
    <2> SUFFICES ASSUME NEW n \in 1..Len(s) PROVE f[n] = Keep(f[n - 1], s[n], K)
      OBVIOUS
    <2>1. f[n - 1] \in Seq(S) /\ s[n] \in S
      BY <1>0, ElementOfSeq
    <2> QED BY <1>3, <2>1, ZenonT(30)
  <1>5. f = Def(f)
    <2>1. ASSUME NEW n \in 0..Len(s) PROVE f[n] = Def(f)[n]
      <3>1. CASE n = 0
        BY <1>3, <3>1, ZenonT(30)
      <3>2. CASE n # 0
        <4>1. n \in 1..Len(s)
          BY <1>0, <3>2
        <4> QED BY <1>4, <4>1
      <3> QED BY <3>1, <3>2
    <2> QED BY <2>1
  <1>6. Kept(s, K) = CHOOSE k : k = Def(k)
    BY DEF Kept
  <1>7. Kept(s, K) = Def(Kept(s, K))
    <2> HIDE DEF Def
    <2> QED BY <1>5, <1>6, ZenonT(30)
  <1> DEFINE k == Kept(s, K)
             Bad == {n \in Nat : n <= Len(s) /\ k[n] # f[n]}
  <1>8. DOMAIN k = 0..Len(s) /\ \A n \in 0..Len(s) : k[n] = Def(k)[n]
    <2> HIDE DEF k
    <2> QED BY <1>7, ZenonT(30) DEF k
  <1> HIDE DEF k
  <1>9. k[0] = <<>> /\ \A n \in 1..Len(s) : k[n] = Keep(k[n - 1], s[n], K)
    <2>1. k[0] = <<>>
      BY <1>0, <1>8
    <2>2. ASSUME NEW n \in 1..Len(s) PROVE k[n] = Keep(k[n - 1], s[n], K)
      <3>1. n \in 0..Len(s) /\ n # 0
        OBVIOUS
      <3> QED BY <1>8, <3>1
    <2> QED BY <2>1, <2>2
  <1>10. Bad = {}
    <2>1. 0 \notin Bad
      BY <1>3, <1>9, ZenonT(30)
    <2>2. ASSUME NEW n \in Nat, n \notin Bad PROVE n + 1 \notin Bad
      BY <1>0, <1>4, <1>9, <2>2
    <2> HIDE DEF Bad
    <2> QED BY <2>1, <2>2, NoLeast, ZenonT(30) DEF Bad
  <1>11. \A n \in 0..Len(s) : k[n] = f[n]
    BY <1>0, <1>10
  <1>12. k = f
    <2>1. k = [n \in 0..Len(s) |-> k[n]]
      BY <1>7 DEF k
    <2> QED BY <1>11, <2>1
  <1> QED BY <1>9, <1>12 DEF k

Elems(s) == {s[i] : i \in 1..Len(s)}
Distinct(s) == \A i, j \in 1..Len(s) : s[i] = s[j] => i = j
Leads(s, t) == Len(s) <= Len(t) /\ \A i \in 1..Len(s) : s[i] = t[i]

(* One round of the loop adds at most its element, at the end.             *)
LEMMA KeepEffect ==
  ASSUME NEW S, NEW w \in Seq(S), NEW x \in S, NEW K
  PROVE  /\ Keep(w, x, K) \in Seq(S)
         /\ Elems(Keep(w, x, K)) = Elems(w) \cup ({x} \ K)
         /\ Leads(w, Keep(w, x, K))
         /\ Distinct(w) /\ x \notin Elems(w) => Distinct(Keep(w, x, K))
  <1>1. CASE x \in K
    <2>1. Keep(w, x, K) = w /\ {x} \ K = {}
      BY <1>1 DEF Keep
    <2> QED BY <2>1 DEF Leads
  <1>2. CASE x \notin K
    <2> DEFINE a == Append(w, x)
    <2>1. Keep(w, x, K) = a /\ {x} \ K = {x}
      BY <1>2 DEF Keep
    <2>2. /\ a \in Seq(S) /\ Len(a) = Len(w) + 1 /\ Len(w) \in Nat
          /\ \A i \in 1..Len(w) : a[i] = w[i]
          /\ a[Len(w) + 1] = x
      BY AppendProperties
    <2> HIDE DEF a
    <2>3. Elems(a) = Elems(w) \cup {x}
      BY <2>2 DEF Elems
    <2>4. Leads(w, a)
      BY <2>2 DEF Leads
    <2>5. ASSUME Distinct(w), x \notin Elems(w) PROVE Distinct(a)
      <3> SUFFICES ASSUME NEW i \in 1..Len(a), NEW j \in 1..Len(a), a[i] = a[j] PROVE i = j
        BY DEF Distinct
      <3>1. CASE i \in 1..Len(w) /\ j \in 1..Len(w)
        BY <2>2, <2>5, <3>1 DEF Distinct
      <3>2. CASE i \in 1..Len(w) /\ j \notin 1..Len(w)
        BY <2>2, <2>5, <3>2 DEF Elems
      <3>3. CASE i \notin 1..Len(w) /\ j \in 1..Len(w)
        BY <2>2, <2>5, <3>3 DEF Elems
      <3>4. CASE i \notin 1..Len(w) /\ j \notin 1..Len(w)
        BY <2>2, <3>4
      <3> QED BY <3>1, <3>2, <3>3, <3>4
    <2> QED BY <2>1, <2>2, <2>3, <2>4, <2>5
  <1> QED BY <1>1, <1>2

(* What is left are the elements not taken out, each as often as before.   *)
LEMMA WithoutElems ==
  ASSUME NEW S, NEW s \in Seq(S), NEW K
  PROVE  /\ Without(s, K) \in Seq(S)
         /\ Elems(Without(s, K)) = Elems(s) \ K
         /\ Distinct(s) => Distinct(Without(s, K))
  <1> DEFINE k == Kept(s, K)
             First(n) == {s[i] : i \in 1..n}
             Good(n) == Elems(k[n]) = First(n) \ K /\ (Distinct(s) => Distinct(k[n]))
             Bad == {n \in Nat : n <= Len(s) /\ ~Good(n)}
  <1>0. Len(s) \in Nat
    OBVIOUS
  <1>1. /\ k \in [0..Len(s) -> Seq(S)] /\ k[0] = <<>>
        /\ \A n \in 1..Len(s) : k[n] = Keep(k[n - 1], s[n], K)
    BY KeptDef
  <1> HIDE DEF k
  <1>2. 0 \notin Bad
    BY <1>1 DEF Elems, Distinct
  <1>3. ASSUME NEW n \in Nat, n \notin Bad PROVE n + 1 \notin Bad
    <2>1. CASE n + 1 <= Len(s)
      <3>1. n \in 0..Len(s) /\ n + 1 \in 1..Len(s) /\ Good(n)
        BY <1>0, <1>3, <2>1
      <3>2. k[n] \in Seq(S) /\ s[n + 1] \in S
        BY <1>0, <1>1, <3>1, ElementOfSeq
      <3>3. k[n + 1] = Keep(k[n], s[n + 1], K)
        BY <1>1, <3>1
      <3>4. First(n + 1) = First(n) \cup {s[n + 1]}
        OBVIOUS
      <3>5. Distinct(s) => s[n + 1] \notin Elems(k[n])
        <4>1. Distinct(s) => s[n + 1] \notin First(n)
          BY <1>0, <3>1 DEF Distinct
        <4> QED BY <3>1, <4>1
      <3>6. Elems(k[n + 1]) = First(n + 1) \ K
        <4>1. Elems(k[n + 1]) = Elems(k[n]) \cup ({s[n + 1]} \ K)
          BY <3>2, <3>3, KeepEffect
        <4>2. Elems(k[n]) = First(n) \ K
          BY <3>1
        <4> HIDE DEF First
        <4> QED BY <3>4, <4>1, <4>2
      <3>7. Distinct(s) => Distinct(k[n + 1])
        BY <3>1, <3>2, <3>3, <3>5, KeepEffect
      <3> QED BY <3>6, <3>7
    <2> QED BY <2>1
  <1>4. Bad = {}
    <2> HIDE DEF Bad
    <2> QED BY <1>2, <1>3, NoLeast, ZenonT(30) DEF Bad
  <1>5. Good(Len(s))
    <2>1. Len(s) \notin Bad /\ Len(s) <= Len(s)
      BY <1>0, <1>4
    <2> HIDE DEF Good
    <2> QED BY <1>0, <2>1
  <1> QED BY <1>0, <1>1, <1>5 DEF Without, k, Elems

(* Taking elements out of two lists of which one leads into the other      *)
(* leaves two such lists.                                                  *)
LEMMA WithoutLeads ==
  ASSUME NEW S, NEW s \in Seq(S), NEW t \in Seq(S), NEW K, Leads(t, s)
  PROVE  Leads(Without(t, K), Without(s, K))
  <1> DEFINE k == Kept(s, K)
             l == Kept(t, K)
             m == Len(t)
             Differ == {n \in Nat : n <= m /\ k[n] # l[n]}
             Part == {n \in Nat : m <= n /\ n <= Len(s) /\ ~Leads(k[m], k[n])}
  <1>0. Len(s) \in Nat /\ m \in Nat /\ m <= Len(s)
    BY DEF Leads
  <1>1. /\ k \in [0..Len(s) -> Seq(S)] /\ k[0] = <<>>
        /\ \A n \in 1..Len(s) : k[n] = Keep(k[n - 1], s[n], K)
    BY KeptDef
  <1>2. /\ l \in [0..m -> Seq(S)] /\ l[0] = <<>>
        /\ \A n \in 1..m : l[n] = Keep(l[n - 1], t[n], K)
    BY KeptDef
  <1>3. \A n \in 1..m : s[n] = t[n]
    BY DEF Leads
  <1> HIDE DEF k, l, m
  <1>8. m \in 0..Len(s) /\ \A n \in 0..Len(s) : k[n] \in Seq(S)
    <2>1. k \in [0..Len(s) -> Seq(S)]
      BY <1>1
    <2> QED BY <1>0, <2>1
  <1>4. Differ = {}
    <2>1. 0 \notin Differ
      BY <1>1, <1>2
    <2>2. ASSUME NEW n \in Nat, n \notin Differ PROVE n + 1 \notin Differ
      <3>1. CASE n + 1 <= m
        <4>1. n + 1 \in 1..m /\ n + 1 \in 1..Len(s) /\ (n + 1) - 1 = n /\ k[n] = l[n]
          BY <1>0, <2>2, <3>1
        <4>2. k[n + 1] = Keep(k[n], s[n + 1], K) /\ l[n + 1] = Keep(l[n], t[n + 1], K)
          BY <1>1, <1>2, <4>1
        <4> QED BY <1>3, <4>1, <4>2
      <3> QED BY <3>1
    <2> HIDE DEF Differ
    <2> QED BY <2>1, <2>2, NoLeast, ZenonT(30) DEF Differ
  <1>5. Part = {}
    <2>1. ASSUME NEW n \in Nat, n = m PROVE n \notin Part
      <3>1. k[m] \in Seq(S)
        BY <1>8
      <3> QED BY <2>1, <3>1 DEF Leads
    <2>2. 0 \notin Part
      BY <1>0, <2>1
    <2>3. ASSUME NEW n \in Nat, n \notin Part PROVE n + 1 \notin Part
      <3>1. CASE m <= n /\ n + 1 <= Len(s)
        <4>1. n \in 0..Len(s) /\ n + 1 \in 1..Len(s) /\ Leads(k[m], k[n]) /\ (n + 1) - 1 = n
          BY <1>0, <2>3, <3>1
        <4>2. k[n + 1] = Keep(k[n], s[n + 1], K)
          BY <1>1, <4>1
        <4>3. k[m] \in Seq(S) /\ k[n] \in Seq(S)
          BY <1>8, <4>1
        <4>4. s[n + 1] \in S
          BY <4>1, ElementOfSeq
        <4>5. Leads(k[n], k[n + 1]) /\ k[n + 1] \in Seq(S)
          BY <4>2, <4>3, <4>4, KeepEffect
        <4>6. Leads(k[m], k[n + 1])
          <5> DEFINE a == k[m]
                     b == k[n]
                     c == k[n + 1]
          <5>1. Len(a) \in Nat /\ Len(b) \in Nat /\ Len(c) \in Nat
            BY <4>3, <4>5
          <5> HIDE DEF a, b, c
          <5>2. Leads(a, b) /\ Leads(b, c)
            BY <4>1, <4>5 DEF a, b, c
          <5>3. Leads(a, c)
            BY <5>1, <5>2 DEF Leads
          <5> QED BY <5>3 DEF a, c
        <4> QED BY <4>6
      <3>2. CASE n + 1 = m
        BY <2>1, <3>2
      <3> QED BY <1>0, <3>1, <3>2
    <2> HIDE DEF Part
    <2> QED BY <2>2, <2>3, NoLeast, ZenonT(30) DEF Part
  <1>6. l[m] = k[m]
    BY <1>0, <1>4
  <1>7. Leads(k[m], k[Len(s)])
    BY <1>0, <1>5
  <1> QED BY <1>6, <1>7 DEF Without, k, l, m

(* As long as nothing is to be taken out, the loop keeps the list as it is. *)
LEMMA KeptAll ==
  ASSUME NEW S, NEW s \in Seq(S), NEW K, NEW m \in 0..Len(s), \A i \in 1..m : s[i] \notin K
  PROVE  Len(Kept(s, K)[m]) = m /\ \A i \in 1..m : Kept(s, K)[m][i] = s[i]
  <1> DEFINE k == Kept(s, K)
             Good(n) == Len(k[n]) = n /\ \A i \in 1..n : k[n][i] = s[i]
             Bad == {n \in Nat : n <= m /\ ~Good(n)}
  <1>0. Len(s) \in Nat /\ m \in Nat
    OBVIOUS
  <1>1. /\ k \in [0..Len(s) -> Seq(S)] /\ k[0] = <<>>
        /\ \A n \in 1..Len(s) : k[n] = Keep(k[n - 1], s[n], K)
    BY KeptDef
  <1> HIDE DEF k
  <1>2. 0 \notin Bad
    BY <1>1
  <1>3. ASSUME NEW n \in Nat, n \notin Bad PROVE n + 1 \notin Bad
    <2>1. CASE n + 1 <= m
      <3>1. n \in 0..Len(s) /\ n + 1 \in 1..Len(s) /\ n + 1 \in 1..m /\ (n + 1) - 1 = n /\ Good(n)
        BY <1>0, <1>3, <2>1
      <3>2. k[n] \in Seq(S) /\ s[n + 1] \in S
        BY <1>0, <1>1, <3>1, ElementOfSeq
      <3>3. k[n + 1] = Append(k[n], s[n + 1])
        BY <1>1, <3>1, ZenonT(30) DEF Keep
      <3>4. /\ Len(k[n + 1]) = n + 1
            /\ \A i \in 1..n : k[n + 1][i] = k[n][i]
            /\ k[n + 1][n + 1] = s[n + 1]
        BY <3>1, <3>2, <3>3, AppendProperties
      <3>5. ASSUME NEW i \in 1..(n + 1) PROVE k[n + 1][i] = s[i]
        <4>1. CASE i = n + 1
          BY <3>4, <4>1
        <4>2. CASE i # n + 1
          <5>1. i \in 1..n
            BY <4>2
          <5> QED BY <3>1, <3>4, <5>1
        <4> QED BY <4>1, <4>2
      <3>6. Good(n + 1)
        BY <3>4, <3>5
      <3> QED BY <3>6
    <2> QED BY <2>1
  <1>4. Bad = {}
    <2> HIDE DEF Bad
    <2> QED BY <1>2, <1>3, NoLeast, ZenonT(30) DEF Bad
  <1>5. Good(m)
    BY <1>0, <1>4
  <1> QED BY <1>5 DEF k

(* A list without any of the elements is left as it is. *)
LEMMA WithoutNone ==
  ASSUME NEW S, NEW s \in Seq(S), NEW K, Elems(s) \cap K = {}
  PROVE  Without(s, K) = s
  <1>1. \A i \in 1..Len(s) : s[i] \notin K
    BY DEF Elems
  <1>2. Len(s) \in 0..Len(s)
    OBVIOUS
  <1>3. Len(Without(s, K)) = Len(s) /\ \A i \in 1..Len(s) : Without(s, K)[i] = s[i]
    BY <1>1, <1>2, KeptAll DEF Without
  <1>4. Without(s, K) \in Seq(S)
    BY WithoutElems
  <1> QED BY <1>3, <1>4, SeqEqual

(***************************************************************************)
(* DecisionCache: the map and the list.                                    *)
(***************************************************************************)
(* A list of distinct elements is as long as its set of elements is large. *)
LEMMA DistinctLength ==
  ASSUME NEW S, NEW s \in Seq(S), Distinct(s)
  PROVE  IsFiniteSet(Elems(s)) /\ Cardinality(Elems(s)) = Len(s)
  <1>0. Len(s) \in Nat /\ \A i \in 1..Len(s) : s[i] \in Elems(s)
    BY DEF Elems
  <1> DEFINE f == [i \in 1..Len(s) |-> s[i]]
  <1>1. f \in [1..Len(s) -> Elems(s)]
    BY <1>0
  <1>2. \A x \in Elems(s) : \E i \in 1..Len(s) : f[i] = x
    BY DEF Elems
  <1>3. \A i, j \in 1..Len(s) : f[i] = f[j] => i = j
    BY DEF Distinct
  <1>4. f \in Bijection(1..Len(s), Elems(s))
    <2> HIDE DEF f
    <2> QED BY <1>1, <1>2, <1>3 DEF Bijection, Injection, Surjection, IsInjective
  <1>5. ExistsBijection(1..Len(s), Elems(s))
    BY <1>4 DEF ExistsBijection
  <1>6. IsFiniteSet(1..Len(s)) /\ Cardinality(1..Len(s)) = Len(s)
    <2> DEFINE n == Len(s)
    <2>1. 1 \in Int /\ n \in Int /\ n \in Nat
      BY <1>0
    <2> HIDE DEF n
    <2>2. IsFiniteSet(1..n) /\ Cardinality(1..n) = IF 1 > n THEN 0 ELSE n - 1 + 1
      BY <2>1, FS_Interval
    <2> QED BY <2>1, <2>2 DEF n
  <1> QED BY <1>5, <1>6, FS_Bijection

(* Putting an element in front of a list.                                  *)
LEMMA InFront ==
  ASSUME NEW S, NEW k \in S, NEW s \in Seq(S)
  PROVE  /\ <<k>> \o s \in Seq(S)
         /\ Len(<<k>> \o s) = Len(s) + 1
         /\ (<<k>> \o s)[1] = k
         /\ \A i \in 1..Len(s) : (<<k>> \o s)[i + 1] = s[i]
         /\ Elems(<<k>> \o s) = Elems(s) \cup {k}
         /\ Distinct(s) /\ k \notin Elems(s) => Distinct(<<k>> \o s)
  <1>0. Len(s) \in Nat /\ <<k>> \in Seq(S) /\ Len(<<k>>) = 1
    OBVIOUS
  <1> DEFINE p == <<k>> \o s
  <1>1. /\ p \in Seq(S) /\ Len(p) = Len(s) + 1
        /\ \A i \in 1..(Len(s) + 1) : p[i] = IF i <= 1 THEN <<k>>[i] ELSE s[i - 1]
    BY <1>0, ConcatProperties
  <1> HIDE DEF p
  <1>2. p[1] = k
    BY <1>0, <1>1
  <1>3. \A i \in 1..Len(s) : p[i + 1] = s[i]
    BY <1>0, <1>1
  <1>4. \A i \in 1..Len(p) : i = 1 \/ (i - 1 \in 1..Len(s) /\ p[i] = s[i - 1])
    BY <1>0, <1>1
  <1>5. Elems(p) = Elems(s) \cup {k}
    <2>1. \A x \in Elems(p) : x \in Elems(s) \cup {k}
      BY <1>2, <1>4 DEF Elems
    <2>2. k \in Elems(p)
      BY <1>0, <1>1, <1>2 DEF Elems
    <2>3. ASSUME NEW i \in 1..Len(s) PROVE s[i] \in Elems(p)
      <3>1. i + 1 \in 1..Len(p) /\ p[i + 1] = s[i]
        BY <1>0, <1>1, <1>3
      <3> QED BY <3>1 DEF Elems
    <2> QED BY <2>1, <2>2, <2>3, ZenonT(30) DEF Elems
  <1>6. ASSUME Distinct(s), k \notin Elems(s) PROVE Distinct(p)
    <2> SUFFICES ASSUME NEW i \in 1..Len(p), NEW j \in 1..Len(p), p[i] = p[j] PROVE i = j
      BY DEF Distinct
    <2>1. CASE i = 1 /\ j # 1
      BY <1>2, <1>4, <1>6, <2>1 DEF Elems
    <2>2. CASE i # 1 /\ j = 1
      BY <1>2, <1>4, <1>6, <2>2 DEF Elems
    <2>3. CASE i # 1 /\ j # 1
      <3>1. i - 1 = j - 1
        BY <1>4, <1>6, <2>3 DEF Distinct
      <3> QED BY <1>0, <1>1, <3>1
    <2> QED BY <2>1, <2>2, <2>3
  <1> QED BY <1>1, <1>2, <1>3, <1>5, <1>6 DEF p

(* A leading part of a leading part is a leading part.                     *)
LEMMA LeadsOn ==
  ASSUME NEW S, NEW s \in Seq(S), NEW t \in Seq(S), NEW u \in Seq(S), Leads(s, t), Leads(t, u)
  PROVE  Leads(s, u)
  <1>1. Len(s) \in Nat /\ Len(t) \in Nat /\ Len(u) \in Nat
    OBVIOUS
  <1>2. Len(s) <= Len(t) /\ Len(t) <= Len(u)
    BY DEF Leads
  <1>3. ASSUME NEW i \in 1..Len(s) PROVE s[i] = u[i]
    <2>1. i \in 1..Len(t)
      BY <1>1, <1>2
    <2> QED BY <2>1 DEF Leads
  <1> QED BY <1>1, <1>2, <1>3 DEF Leads

(* The same element in front of both lists keeps the one a leading part of *)
(* the other.                                                              *)
LEMMA InFrontLeads ==
  ASSUME NEW S, NEW k \in S, NEW s \in Seq(S), NEW t \in Seq(S), Leads(s, t)
  PROVE  Leads(<<k>> \o s, <<k>> \o t)
  <1> DEFINE p == <<k>> \o s
             q == <<k>> \o t
  <1>0. Len(s) \in Nat /\ Len(t) \in Nat
    OBVIOUS
  <1>1. Len(p) = Len(s) + 1 /\ p[1] = k /\ \A i \in 1..Len(s) : p[i + 1] = s[i]
    BY InFront
  <1>2. Len(q) = Len(t) + 1 /\ q[1] = k /\ \A i \in 1..Len(t) : q[i + 1] = t[i]
    BY InFront
  <1> HIDE DEF p, q
  <1>3. ASSUME NEW i \in 1..Len(p) PROVE p[i] = q[i]
    <2>1. CASE i = 1
      BY <1>1, <1>2, <2>1
    <2>2. CASE i # 1
      <3>1. i - 1 \in 1..Len(s) /\ i - 1 \in 1..Len(t) /\ i = (i - 1) + 1
        BY <1>0, <1>1, <2>2 DEF Leads
      <3>2. p[(i - 1) + 1] = s[i - 1] /\ q[(i - 1) + 1] = t[i - 1] /\ s[i - 1] = t[i - 1]
        BY <1>1, <1>2, <3>1 DEF Leads
      <3> QED BY <3>1, <3>2
    <2> QED BY <2>1, <2>2
  <1>4. Len(p) <= Len(q)
    BY <1>0, <1>1, <1>2 DEF Leads
  <1> QED BY <1>3, <1>4 DEF Leads, p, q

(* Taking the last element out of a list of distinct elements.             *)
LEMMA WithoutLast ==
  ASSUME NEW S, NEW s \in Seq(S), Distinct(s), s # <<>>
  PROVE  Leads(Without(s, {s[Len(s)]}), s)
  <1> DEFINE n == Len(s)
             K == {s[Len(s)]}
             k == Kept(s, K)
  <1>0. n \in Nat \ {0} /\ n - 1 \in 0..Len(s) /\ n \in 1..Len(s)
    OBVIOUS
  <1>1. \A i \in 1..(n - 1) : s[i] \notin K
    BY <1>0 DEF Distinct
  <1>2. Len(k[n - 1]) = n - 1 /\ \A i \in 1..(n - 1) : k[n - 1][i] = s[i]
    <2> HIDE DEF n, K
    <2> QED BY <1>0, <1>1, KeptAll
  <1>3. k[n] = k[n - 1]
    <2>1. k[n] = Keep(k[n - 1], s[n], K)
      BY <1>0, KeptDef
    <2> QED BY <2>1 DEF Keep
  <1>4. Leads(k[n - 1], s)
    <2> HIDE DEF k, K
    <2> QED BY <1>0, <1>2 DEF Leads
  <1> QED BY <1>3, <1>4 DEF Without

-----------------------------------------------------------------------------
(* The map holds the keys that have a value, the list the same keys, each  *)
(* once and no more than the capacity, in the order of their last use.     *)
CacheInv ==
  /\ TypeOK
  /\ items = {k \in Keys : value[k] # None}
  /\ Elems(order) = items /\ Distinct(order)
  /\ Len(order) <= MaxSize
  /\ Leads(order, used)

(* The list is as long as the map is large.                                *)
LEMMA CacheSize ==
  ASSUME CacheInv
  PROVE  IsFiniteSet(items) /\ Cardinality(items) = Len(order) /\ Len(order) \in Nat
  BY DistinctLength DEF CacheInv, TypeOK

(* get, put of a key that is there: the entry goes to the front.           *)
LEMMA PromoteKeeps ==
  ASSUME CacheInv, NEW k \in items, order' = MoveToFront(order, k), Touch(k)
  PROVE  /\ order' \in Seq(Keys) /\ used' \in Seq(Keys)
         /\ Elems(order') = items /\ Distinct(order') /\ Leads(order', used')
         /\ Len(order') = Len(order)
  <1> DEFINE w == Without(order, {k})
             v == Without(used, {k})
  <1>1. k \in Keys /\ order \in Seq(Keys) /\ used \in Seq(Keys)
    BY DEF CacheInv, TypeOK
  <1>2. w \in Seq(Keys) /\ v \in Seq(Keys) /\ Elems(w) = items \ {k} /\ Distinct(w)
    BY <1>1, WithoutElems DEF CacheInv
  <1>3. Leads(w, v)
    BY <1>1, WithoutLeads DEF CacheInv
  <1>4. order' = <<k>> \o w /\ used' = <<k>> \o v
    BY DEF MoveToFront, Touch
  <1> HIDE DEF w, v
  <1>5. order' \in Seq(Keys) /\ used' \in Seq(Keys)
    BY <1>1, <1>2, <1>4, InFront
  <1>6. Elems(order') = items /\ Distinct(order')
    <2>1. Elems(order') = Elems(w) \cup {k} /\ Distinct(order')
      BY <1>1, <1>2, <1>4, InFront
    <2> QED BY <1>2, <2>1
  <1>7. Leads(order', used')
    BY <1>1, <1>2, <1>3, <1>4, InFrontLeads
  <1>8. Len(order') = Len(order)
    BY <1>5, <1>6, DistinctLength, CacheSize
  <1> QED BY <1>5, <1>6, <1>7, <1>8

(* get of a key that is there.                                             *)
LEMMA GetKeeps ==
  ASSUME CacheInv, NEW k \in Keys, Get(k)
  PROVE  CacheInv'
  <1>1. k \in items /\ order' = MoveToFront(order, k) /\ Touch(k) /\ UNCHANGED <<items, value>>
    BY DEF Get
  <1>2. /\ order' \in Seq(Keys) /\ used' \in Seq(Keys)
        /\ Elems(order') = items /\ Distinct(order') /\ Leads(order', used')
        /\ Len(order') = Len(order)
    BY <1>1, PromoteKeeps
  <1> QED BY <1>1, <1>2 DEF CacheInv, TypeOK

(* put of a key that is there.                                             *)
LEMMA PutHitKeeps ==
  ASSUME CacheInv, NEW k \in Keys, NEW v \in BOOLEAN, PutHit(k, v)
  PROVE  CacheInv'
  <1>1. k \in items /\ order' = MoveToFront(order, k) /\ Touch(k) /\ UNCHANGED items
    BY DEF PutHit
  <1>2. /\ order' \in Seq(Keys) /\ used' \in Seq(Keys)
        /\ Elems(order') = items /\ Distinct(order') /\ Leads(order', used')
        /\ Len(order') = Len(order)
    BY <1>1, PromoteKeeps
  <1>3. value' = [value EXCEPT ![k] = v] /\ value \in [Keys -> BOOLEAN \cup {None}]
    BY DEF PutHit, CacheInv, TypeOK
  <1>4. value' \in [Keys -> BOOLEAN \cup {None}]
    BY <1>3
  <1>5. v # None
    BY CacheInputs
  <1>6. items' = {q \in Keys : value'[q] # None}
    BY <1>1, <1>3, <1>5 DEF CacheInv
  <1> QED BY <1>1, <1>2, <1>4, <1>6 DEF CacheInv, TypeOK

(* put of a new key: the list gives up its last element when it is full.   *)
LEMMA PutMissKeeps ==
  ASSUME CacheInv, NEW k \in Keys, NEW v \in BOOLEAN, PutMiss(k, v)
  PROVE  CacheInv'
  <1> DEFINE gone == IF Len(order) >= MaxSize THEN {EvictLRU} ELSE {}
             w == Without(order, gone)
             u == Without(used, {k})
  <1>1. /\ k \notin items
        /\ items' = (items \ gone) \cup {k}
        /\ value' = [q \in Keys |-> IF q = k THEN v ELSE IF q \in gone THEN None ELSE value[q]]
        /\ order' = <<k>> \o w /\ used' = <<k>> \o u
    BY DEF PutMiss, Touch
  <1>2. order \in Seq(Keys) /\ used \in Seq(Keys) /\ value \in [Keys -> BOOLEAN \cup {None}]
    BY DEF CacheInv, TypeOK
  <1>3. w \in Seq(Keys) /\ u \in Seq(Keys) /\ Elems(w) = items \ gone /\ Distinct(w)
    BY <1>2, WithoutElems DEF CacheInv
  <1>4. Len(order) >= MaxSize => order # <<>> /\ EvictLRU \in items
    <2> SUFFICES ASSUME Len(order) >= MaxSize PROVE order # <<>> /\ EvictLRU \in items
      OBVIOUS
    <2>1. Len(order) \in 1..Len(order)
      BY <1>2, CacheInputs
    <2> QED BY <2>1 DEF EvictLRU, CacheInv, Elems
  <1>5. Leads(w, order)
    <2>1. CASE Len(order) >= MaxSize
      BY <1>2, <1>4, <2>1, WithoutLast DEF EvictLRU, CacheInv
    <2>2. CASE ~(Len(order) >= MaxSize)
      <3>1. w = order
        BY <1>2, <2>2, WithoutNone
      <3>2. Leads(order, order)
        BY <1>2 DEF Leads
      <3> QED BY <3>1, <3>2
    <2> QED BY <2>1, <2>2
  <1>6. Leads(order, u)
    <2>1. Leads(Without(order, {k}), u)
      BY <1>2, WithoutLeads DEF CacheInv
    <2>2. Without(order, {k}) = order
      BY <1>1, <1>2, WithoutNone DEF CacheInv
    <2> QED BY <2>1, <2>2
  <1> HIDE DEF w, u
  <1>7. Leads(w, u)
    BY <1>2, <1>3, <1>5, <1>6, LeadsOn
  <1>8. order' \in Seq(Keys) /\ used' \in Seq(Keys)
    BY <1>1, <1>3, InFront
  <1>9. Elems(order') = items' /\ Distinct(order')
    BY <1>1, <1>3, InFront
  <1>10. Leads(order', used')
    BY <1>1, <1>3, <1>7, InFrontLeads
  <1>11. value' \in [Keys -> BOOLEAN \cup {None}]
    BY <1>1, <1>2
  <1>12. items' = {q \in Keys : value'[q] # None} /\ items' \subseteq Keys
    <2>1. v # None
      BY CacheInputs
    <2> HIDE DEF gone
    <2> QED BY <1>1, <2>1 DEF CacheInv
  <1>13. Len(order') <= MaxSize
    <2>1. IsFiniteSet(items) /\ Cardinality(items) = Len(order) /\ Len(order) \in Nat
      BY CacheSize
    <2>2. Len(order) <= MaxSize /\ MaxSize \in Nat
      BY CacheInputs DEF CacheInv
    <2>3. Len(order') = Cardinality(items')
      BY <1>8, <1>9, DistinctLength
    <2>4. CASE Len(order) >= MaxSize
      <3>1. items' = (items \ {EvictLRU}) \cup {k}
        BY <1>1, <2>4
      <3>2. /\ IsFiniteSet(items \ {EvictLRU})
            /\ Cardinality(items \ {EvictLRU}) = Cardinality(items) - 1
        BY <1>4, <2>1, <2>4, FS_RemoveElement
      <3>3. Cardinality(items') = Cardinality(items \ {EvictLRU}) + 1
        BY <1>1, <3>1, <3>2, FS_AddElement, ZenonT(30)
      <3> QED BY <2>1, <2>2, <2>3, <3>2, <3>3
    <2>5. CASE ~(Len(order) >= MaxSize)
      <3>1. items' = items \cup {k}
        BY <1>1, <2>5
      <3>2. Cardinality(items') = Cardinality(items) + 1
        BY <1>1, <2>1, <3>1, FS_AddElement, ZenonT(30)
      <3> QED BY <2>1, <2>2, <2>3, <2>5, <3>2
    <2> QED BY <2>4, <2>5
  <1> QED BY <1>8, <1>9, <1>10, <1>11, <1>12, <1>13 DEF CacheInv, TypeOK

(* invalidateSub and flush.                                                *)
LEMMA DropKeeps ==
  ASSUME CacheInv, NEW K, Drop(K)
  PROVE  CacheInv'
  <1>1. /\ items' = items \ K
        /\ value' = [k \in Keys |-> IF k \in K THEN None ELSE value[k]]
        /\ order' = Without(order, K) /\ used' = Without(used, K)
    BY DEF Drop
  <1>2. order \in Seq(Keys) /\ used \in Seq(Keys) /\ value \in [Keys -> BOOLEAN \cup {None}]
    BY DEF CacheInv, TypeOK
  <1>3. order' \in Seq(Keys) /\ used' \in Seq(Keys) /\ Elems(order') = items' /\ Distinct(order')
    BY <1>1, <1>2, WithoutElems DEF CacheInv
  <1>4. Leads(order', used')
    BY <1>1, <1>2, WithoutLeads DEF CacheInv
  <1>5. value' \in [Keys -> BOOLEAN \cup {None}]
    BY <1>1, <1>2
  <1>6. items' = {q \in Keys : value'[q] # None} /\ items' \subseteq Keys
    BY <1>1 DEF CacheInv
  <1>7. Len(order') <= MaxSize
    <2>1. IsFiniteSet(items) /\ Cardinality(items) = Len(order) /\ Len(order) \in Nat
      BY CacheSize
    <2>2. Cardinality(items') <= Cardinality(items) /\ Cardinality(items') \in Nat
      BY <1>1, <2>1, FS_Subset, FS_CardinalityType
    <2>3. Len(order') = Cardinality(items')
      BY <1>3, DistinctLength
    <2> QED BY <2>1, <2>2, <2>3, CacheInputs DEF CacheInv
  <1> QED BY <1>3, <1>4, <1>5, <1>6, <1>7 DEF CacheInv, TypeOK

(* Every operation keeps map and list in agreement and the list in the     *)
(* order of use.                                                           *)
LEMMA CacheStep == CacheInv /\ [Next]_vars => CacheInv'
  <1> SUFFICES ASSUME CacheInv, [Next]_vars PROVE CacheInv'
    OBVIOUS
  <1>0. \A u \in Users, p \in Perms : cacheKey(u, p) \in Keys
    BY DEF cacheKey, Keys
  <1>1. CASE \E u \in Users, p \in Perms : Get(cacheKey(u, p))
    BY <1>0, <1>1, GetKeeps
  <1>2. CASE \E u \in Users, p \in Perms, v \in BOOLEAN : PutHit(cacheKey(u, p), v)
    BY <1>0, <1>2, PutHitKeeps
  <1>3. CASE \E u \in Users, p \in Perms, v \in BOOLEAN : PutMiss(cacheKey(u, p), v)
    BY <1>0, <1>3, PutMissKeeps
  <1>4. CASE \E u \in Users : InvalidateSub(u)
    BY <1>4, DropKeeps DEF InvalidateSub
  <1>5. CASE Flush
    BY <1>5, DropKeeps DEF Flush
  <1>6. CASE UNCHANGED vars
    BY <1>6 DEF vars, CacheInv, TypeOK
  <1> QED BY <1>1, <1>2, <1>3, <1>4, <1>5, <1>6 DEF Next

(* The invariant of the cache: map and list hold the same keys, each once  *)
(* and at most MaxSize of them, and the list is the leading part of the    *)
(* keys by last use.                                                       *)
THEOREM CacheInvariant == Spec => []CacheInv
  <1>1. Init => CacheInv
    <2> SUFFICES ASSUME Init PROVE CacheInv
      OBVIOUS
    <2>1. order = <<>> /\ used = <<>> /\ Len(order) = 0 /\ order \in Seq(Keys)
      BY DEF Init
    <2>2. Elems(order) = {} /\ Distinct(order) /\ Leads(order, used)
      BY <2>1 DEF Elems, Distinct, Leads
    <2> QED BY <2>1, <2>2, CacheInputs DEF Init, CacheInv, TypeOK
  <1> QED BY <1>1, CacheStep, PTL DEF Spec

(* The map and the list of the decision cache hold the same entries and    *)
(* never more than the capacity, through every get, put, eviction,         *)
(* invalidation and flush.                                                 *)
THEOREM MapAndListAgree == Spec => []MapMatchesList
  <1>1. CacheInv => MapMatchesList
    <2> SUFFICES ASSUME CacheInv PROVE MapMatchesList
      OBVIOUS
    <2>1. order \in Seq(Keys) /\ Elems(order) = items /\ Len(order) <= MaxSize
      BY DEF CacheInv, TypeOK
    <2>2. {order[i] : i \in 1..Len(order)} = items
      BY <2>1 DEF Elems
    <2> QED BY <2>1, <2>2, CacheSize DEF MapMatchesList
  <1> QED BY <1>1, CacheInvariant, PTL

(* What put evicts is the entry used least recently, for any capacity and  *)
(* any number of keys.                                                     *)
THEOREM EvictionIsByRecency == Spec => []LeastRecentGoes
  <1>1. CacheInv => LeastRecentGoes
    BY DEF CacheInv, LeastRecentGoes, Leads
  <1> QED BY <1>1, CacheInvariant, PTL

(* Every operation on map and list is an operation of the abstract bounded *)
(* store, or leaves it as it is.                                           *)
LEMMA StoreStep ==
  ASSUME CacheInv, [Next]_vars
  PROVE  [Store!StoreNext]_value
  <1>0. /\ Store!Keys = Keys /\ Store!Stored = items
        /\ \A u \in Users, p \in Perms : cacheKey(u, p) \in Keys
        /\ value \in [Keys -> BOOLEAN \cup {None}]
        /\ Store!Cardinality(items) = Len(order)
    BY CacheSize DEF Store!Cardinality, Cardinality, Store!Keys, Keys, Store!Stored, CacheInv, cacheKey, TypeOK
  <1>1. CASE \E u \in Users, p \in Perms : Get(cacheKey(u, p))
    BY <1>1 DEF Get
  <1>2. ASSUME NEW k \in Keys, NEW v \in BOOLEAN, PutHit(k, v) PROVE Store!StoreNext
    <2>1. value[k] # None /\ value' = [value EXCEPT ![k] = v]
      BY <1>2 DEF PutHit, CacheInv
    <2>2. Store!Put(k, v)
      BY <2>1 DEF Store!Put
    <2> QED BY <1>0, <2>2 DEF Store!StoreNext
  <1>3. ASSUME NEW k \in Keys, NEW v \in BOOLEAN, PutMiss(k, v) PROVE Store!StoreNext
    <2>1. value[k] = None
      BY <1>3 DEF PutMiss, CacheInv
    <2>2. CASE Len(order) >= MaxSize
      <3>1. EvictLRU \in items
        <4>1. order \in Seq(Keys) /\ Len(order) \in 1..Len(order)
          BY <2>2, CacheInputs DEF CacheInv, TypeOK
        <4> QED BY <4>1 DEF EvictLRU, CacheInv, Elems
      <3>2. value' = [q \in Keys |-> IF q = k THEN v
                                     ELSE IF q \in {EvictLRU} THEN None ELSE value[q]]
        BY <1>3, <2>2 DEF PutMiss
      <3>3. value' = [value EXCEPT ![EvictLRU] = None, ![k] = v]
        BY <1>0, <3>2, ZenonT(30)
      <3>4. Store!Put(k, v)
        BY <1>0, <2>1, <2>2, <3>1, <3>3, ZenonT(30) DEF Store!Put
      <3> QED BY <1>0, <3>4 DEF Store!StoreNext
    <2>3. CASE ~(Len(order) >= MaxSize)
      <3>1. value' = [q \in Keys |-> IF q = k THEN v ELSE value[q]]
        BY <1>3, <2>3 DEF PutMiss
      <3>2. value' = [value EXCEPT ![k] = v]
        BY <1>0, <3>1, ZenonT(30)
      <3>3. Store!Cardinality(items) < MaxSize
        BY <1>0, <2>3, CacheSize, CacheInputs
      <3>4. Store!Put(k, v)
        BY <1>0, <2>1, <3>2, <3>3 DEF Store!Put
      <3> QED BY <1>0, <3>4 DEF Store!StoreNext
    <2> QED BY <2>2, <2>3
  <1>4. ASSUME NEW u \in Users, InvalidateSub(u) PROVE Store!StoreNext
    <2>1. {cacheKey(u, p) : p \in Perms} = Store!OfSub(u)
      BY DEF cacheKey, Store!OfSub
    <2>2. Store!Forget(Store!OfSub(u))
      BY <1>0, <1>4, <2>1 DEF InvalidateSub, Drop, Store!Forget
    <2> QED BY <2>2 DEF Store!StoreNext
  <1>5. CASE Flush
    <2>1. Store!Forget(Store!Keys)
      BY <1>0, <1>5 DEF Flush, Drop, Store!Forget
    <2> QED BY <2>1 DEF Store!StoreNext
  <1>6. CASE UNCHANGED vars
    BY <1>6 DEF vars
  <1> QED BY <1>0, <1>1, <1>2, <1>3, <1>4, <1>5, <1>6 DEF Next

(* The map and the list together implement the bounded store of decisions  *)
(* that Authorizer relies on: an entry holds the last value put for its    *)
(* key, and only a put into a full cache, an invalidation of its user or a *)
(* flush removes it.                                                       *)
THEOREM CacheImplementsStore == Spec => ImplementsStore
  <1>1. Init => Store!StoreInit
    BY DEF Init, Store!StoreInit, Store!Keys, Keys
  <1>2. CacheInv /\ [Next]_vars => [Store!StoreNext]_value
    BY StoreStep
  <1> QED BY <1>1, <1>2, CacheInvariant, PTL DEF Spec, ImplementsStore, Store!StoreSpec

(***************************************************************************)
(* Storage: paths and uploads.                                             *)
(***************************************************************************)
(* The segments that are no names.                                         *)
Dots == {".", ".."}

(* One segment: filepath.Clean keeps to the segments there are, and puts a *)
(* plain name at the end.                                                  *)
LEMMA CleanStepEffect ==
  ASSUME NEW S, NEW w \in Seq(S), NEW x \in S
  PROVE  /\ CleanStep(w, x) \in Seq(S)
         /\ x \notin Dots => CleanStep(w, x) = Append(w, x)
  <1>1. w # <<>> => SubSeq(w, 1, Len(w) - 1) \in Seq(S)
    <2> SUFFICES ASSUME w # <<>> PROVE SubSeq(w, 1, Len(w) - 1) \in Seq(S)
      OBVIOUS
    <2>1. 1 \in Int /\ Len(w) - 1 \in Int /\ \A i \in 1..(Len(w) - 1) : w[i] \in S
      BY ElementOfSeq
    <2> QED BY <2>1, SubSeqProperties
  <1>2. CASE x = "."
    BY <1>2 DEF CleanStep, Dots
  <1>3. CASE x = ".." /\ w # <<>> /\ w[Len(w)] # ".."
    BY <1>1, <1>3 DEF CleanStep, Dots
  <1>4. CASE x # "." /\ ~(x = ".." /\ w # <<>> /\ w[Len(w)] # "..")
    <2>1. CleanStep(w, x) = Append(w, x)
      BY <1>4 DEF CleanStep
    <2> QED BY <2>1, AppendProperties
  <1> QED BY <1>2, <1>3, <1>4

(* The function that Cleaned names is the one its loop defines.            *)
LEMMA CleanedDef ==
  ASSUME NEW S, NEW s \in Seq(S)
  PROVE  /\ Cleaned(s) \in [0..Len(s) -> Seq(S)]
         /\ Cleaned(s)[0] = <<>>
         /\ \A n \in 1..Len(s) : Cleaned(s)[n] = CleanStep(Cleaned(s)[n - 1], s[n])
  <1> DEFINE Def(f) == [n \in 0..Len(s) |-> IF n = 0 THEN <<>> ELSE CleanStep(f[n - 1], s[n])]
             body == [p \in Seq(S) \X S |-> CleanStep(p[1], p[2])]
  <1>0. Len(s) \in Nat
    OBVIOUS
  <1>1. <<>> \in Seq(S)
    OBVIOUS
  <1>2. body \in [Seq(S) \X S -> Seq(S)]
    BY CleanStepEffect
  <1>3. PICK f \in [0..Len(s) -> Seq(S)] :
          f[0] = <<>> /\ \A n \in 1..Len(s) : f[n] = body[<<f[n - 1], s[n]>>]
    <2> HIDE DEF body
    <2>1. \E f : LoopRun(f, Seq(S), <<>>, body, s)
      BY <1>1, <1>2, LoopExists, ZenonT(30)
    <2> QED BY <2>1, ZenonT(30) DEF LoopRun
  <1>4. \A n \in 1..Len(s) : f[n] = CleanStep(f[n - 1], s[n])
    <2> SUFFICES ASSUME NEW n \in 1..Len(s) PROVE f[n] = CleanStep(f[n - 1], s[n])
      OBVIOUS
    <2>1. f[n - 1] \in Seq(S) /\ s[n] \in S
      BY <1>0, ElementOfSeq
    <2> QED BY <1>3, <2>1, ZenonT(30)
  <1>5. f = Def(f)
    <2>1. ASSUME NEW n \in 0..Len(s) PROVE f[n] = Def(f)[n]
      <3>1. CASE n = 0
        BY <1>3, <3>1
      <3>2. CASE n # 0
        <4>1. n \in 1..Len(s)
          BY <1>0, <3>2
        <4> QED BY <1>4, <4>1
      <3> QED BY <3>1, <3>2
    <2> QED BY <2>1
  <1>6. Cleaned(s) = CHOOSE k : k = Def(k)
    BY DEF Cleaned
  <1>7. Cleaned(s) = Def(Cleaned(s))
    <2> HIDE DEF Def
    <2> QED BY <1>5, <1>6, ZenonT(30)
  <1> DEFINE k == Cleaned(s)
             Bad == {n \in Nat : n <= Len(s) /\ k[n] # f[n]}
  <1>8. DOMAIN k = 0..Len(s) /\ \A n \in 0..Len(s) : k[n] = Def(k)[n]
    <2> HIDE DEF k
    <2> QED BY <1>7 DEF k
  <1> HIDE DEF k
  <1>9. k[0] = <<>> /\ \A n \in 1..Len(s) : k[n] = CleanStep(k[n - 1], s[n])
    <2>1. k[0] = <<>>
      BY <1>0, <1>8
    <2>2. ASSUME NEW n \in 1..Len(s) PROVE k[n] = CleanStep(k[n - 1], s[n])
      <3>1. n \in 0..Len(s) /\ n # 0
        OBVIOUS
      <3> QED BY <1>8, <3>1
    <2> QED BY <2>1, <2>2
  <1>10. Bad = {}
    <2>1. 0 \notin Bad
      BY <1>3, <1>9
    <2>2. ASSUME NEW n \in Nat, n \notin Bad PROVE n + 1 \notin Bad
      BY <1>0, <1>4, <1>9, <2>2
    <2> HIDE DEF Bad
    <2> QED BY <2>1, <2>2, NoLeast, ZenonT(30) DEF Bad
  <1>11. \A n \in 0..Len(s) : k[n] = f[n]
    BY <1>0, <1>10
  <1>12. k = f
    <2>1. k = [n \in 0..Len(s) |-> k[n]]
      BY <1>7 DEF k
    <2> QED BY <1>11, <2>1
  <1> QED BY <1>9, <1>12 DEF k

(* A path of plain names is clean.                                         *)
LEMMA CleanPlain ==
  ASSUME NEW S, NEW s \in Seq(S), Elems(s) \cap Dots = {}
  PROVE  CleanPath(s) = s
  <1> DEFINE k == Cleaned(s)
             Good(n) == Len(k[n]) = n /\ \A i \in 1..n : k[n][i] = s[i]
             Bad == {n \in Nat : n <= Len(s) /\ ~Good(n)}
  <1>0. Len(s) \in Nat /\ \A i \in 1..Len(s) : s[i] \notin Dots
    BY DEF Elems
  <1>1. /\ k \in [0..Len(s) -> Seq(S)] /\ k[0] = <<>>
        /\ \A n \in 1..Len(s) : k[n] = CleanStep(k[n - 1], s[n])
    BY CleanedDef
  <1> HIDE DEF k
  <1>2. 0 \notin Bad
    BY <1>1
  <1>3. ASSUME NEW n \in Nat, n \notin Bad PROVE n + 1 \notin Bad
    <2>1. CASE n + 1 <= Len(s)
      <3>1. n \in 0..Len(s) /\ n + 1 \in 1..Len(s) /\ (n + 1) - 1 = n /\ Good(n)
        BY <1>0, <1>3, <2>1
      <3>2. k[n] \in Seq(S) /\ s[n + 1] \in S
        BY <1>0, <1>1, <3>1, ElementOfSeq
      <3>3. k[n + 1] = Append(k[n], s[n + 1])
        <4>1. k[n + 1] = CleanStep(k[n], s[n + 1])
          BY <1>1, <3>1
        <4>2. s[n + 1] \notin Dots
          BY <1>0, <3>1
        <4> QED BY <3>2, <4>1, <4>2, CleanStepEffect, ZenonT(20)
      <3>4. /\ Len(k[n + 1]) = n + 1
            /\ \A i \in 1..n : k[n + 1][i] = k[n][i]
            /\ k[n + 1][n + 1] = s[n + 1]
        BY <3>1, <3>2, <3>3, AppendProperties
      <3>5. ASSUME NEW i \in 1..(n + 1) PROVE k[n + 1][i] = s[i]
        <4>1. CASE i = n + 1
          BY <3>4, <4>1
        <4>2. CASE i # n + 1
          <5>1. i \in 1..n
            BY <4>2
          <5> QED BY <3>1, <3>4, <5>1
        <4> QED BY <4>1, <4>2
      <3>6. Good(n + 1)
        BY <3>4, <3>5
      <3> QED BY <3>6
    <2> QED BY <2>1
  <1>4. Bad = {}
    <2> HIDE DEF Bad
    <2> QED BY <1>2, <1>3, NoLeast, ZenonT(30) DEF Bad
  <1>5. Good(Len(s))
    <2>1. Len(s) \notin Bad /\ Len(s) <= Len(s)
      BY <1>0, <1>4
    <2> HIDE DEF Good
    <2> QED BY <1>0, <2>1
  <1>6. k[Len(s)] \in Seq(S)
    <2>1. k \in [0..Len(s) -> Seq(S)] /\ Len(s) \in 0..Len(s)
      BY <1>0, <1>1
    <2> QED BY <2>1
  <1>7. k[Len(s)] = s
    BY <1>5, <1>6, SeqEqual
  <1> QED BY <1>7 DEF CleanPath, k

(* A stored path: plain names only, the first without a leading dot.       *)
Plain(p) == /\ p \in Seq(Segments \cup Files) /\ p # <<>>
            /\ Elems(p) \cap Dots = {} /\ Head(p) # ".h"

(* resolveWithinBase accepts a stored path, and sanitizing it again leaves *)
(* it as it is.                                                            *)
LEMMA PlainIsFixed ==
  ASSUME NEW p, Plain(p)
  PROVE  WithinBase(p) /\ SanitizePath(p) = p
  <1> DEFINE S == Segments \cup Files
  <1>0. p \in Seq(S) /\ p # <<>> /\ Elems(p) \cap Dots = {} /\ Head(p) # ".h"
    BY DEF Plain
  <1> HIDE DEF S
  <1>1. CleanPath(p) = p
    BY <1>0, CleanPlain
  <1>2. DropDots(p) = p
    BY <1>0, WithoutNone DEF DropDots, Dots
  <1>3. Head(p) # ".."
    BY <1>0 DEF Elems, Dots
  <1>4. SanitizePath(p) = <<Head(p)>> \o Tail(p)
    BY <1>0, <1>1, <1>2 DEF SanitizePath, Bare
  <1>5. <<Head(p)>> \o Tail(p) = p
    BY <1>0
  <1> QED BY <1>1, <1>3, <1>4, <1>5 DEF WithinBase

(* Whatever directory the form named, Upload stores under a path of plain  *)
(* names.                                                                  *)
LEMMA StoredPathIsPlain ==
  ASSUME NEW dir \in Dirs, NEW f \in Files
  PROVE  Plain(SanitizePath(dir) \o <<f>>)
  <1> DEFINE S == Segments \cup Files
             q == DropDots(CleanPath(dir))
             t == SanitizePath(dir)
             p == t \o <<f>>
  <1>1. dir \in Seq(S) /\ f \in S /\ f \notin Segments /\ Len(dir) \in Nat
    BY PathInputs
  <1>2. "h" \in S /\ ".h" \in Segments /\ "." \in Segments /\ ".." \in Segments
    BY DEF Segments
  <1> HIDE DEF S
  <1>3. CleanPath(dir) \in Seq(S)
    <2>1. Cleaned(dir) \in [0..Len(dir) -> Seq(S)] /\ Len(dir) \in 0..Len(dir)
      BY <1>1, CleanedDef
    <2> QED BY <2>1 DEF CleanPath
  <1>4. q \in Seq(S) /\ Elems(q) \cap Dots = {}
    BY <1>3, WithoutElems DEF DropDots, Dots
  <1> HIDE DEF q
  <1>5. /\ t \in Seq(S)
        /\ \A i \in 1..Len(t) : t[i] \notin Dots
        /\ t # <<>> => t[1] # ".h"
    <2>1. CASE q = <<>>
      BY <1>4, <2>1 DEF SanitizePath, q
    <2>2. CASE q # <<>>
      <3>1. /\ Head(q) \in S /\ Tail(q) \in Seq(S) /\ Len(Tail(q)) = Len(q) - 1
            /\ \A i \in 1..Len(Tail(q)) : Tail(q)[i] = q[i + 1]
        BY <1>4, <2>2, HeadTailProperties
      <3>2. t = <<Bare(Head(q))>> \o Tail(q)
        BY <2>2 DEF SanitizePath, q
      <3>3. Head(q) = q[1] /\ Len(q) \in Nat \ {0}
        BY <1>4, <2>2
      <3>4. \A i \in 1..Len(q) : q[i] \notin Dots
        BY <1>4 DEF Elems
      <3>5. Bare(Head(q)) \in S /\ Bare(Head(q)) \notin Dots /\ Bare(Head(q)) # ".h"
        BY <1>2, <3>1, <3>3, <3>4 DEF Bare, Dots
      <3>6. <<Bare(Head(q))>> \in Seq(S)
        BY <3>5
      <3>7. /\ t \in Seq(S) /\ Len(t) = Len(q) /\ t[1] = Bare(Head(q))
            /\ \A i \in 2..Len(q) : t[i] = Tail(q)[i - 1]
        BY <3>1, <3>2, <3>3, <3>6, ConcatProperties
      <3>8. ASSUME NEW i \in 1..Len(t) PROVE t[i] \notin Dots
        <4>1. CASE i = 1
          BY <3>5, <3>7, <4>1
        <4>2. CASE i # 1
          <5>1. i \in 2..Len(q) /\ i - 1 \in 1..Len(Tail(q)) /\ (i - 1) + 1 = i /\ i \in 1..Len(q)
            BY <3>1, <3>3, <3>7, <4>2
          <5> QED BY <3>1, <3>4, <3>7, <5>1
        <4> QED BY <4>1, <4>2
      <3> QED BY <3>5, <3>7, <3>8
    <2> QED BY <2>1, <2>2
  <1> HIDE DEF t
  <1>6. /\ p \in Seq(S) /\ Len(p) = Len(t) + 1 /\ p[Len(t) + 1] = f
        /\ \A i \in 1..Len(t) : p[i] = t[i]
    BY <1>1, <1>5
  <1> HIDE DEF p
  <1>7. f \notin Dots /\ f # ".h"
    BY <1>1, <1>2 DEF Dots
  <1>8. ASSUME NEW i \in 1..Len(p) PROVE p[i] \notin Dots
    BY <1>5, <1>6, <1>7
  <1>9. p # <<>> /\ Head(p) = p[1] /\ p[1] # ".h"
    <2>1. CASE t = <<>>
      BY <1>6, <1>7, <2>1
    <2>2. CASE t # <<>>
      BY <1>5, <1>6, <2>2
    <2> QED BY <2>1, <2>2
  <1>10. Elems(p) \cap Dots = {}
    BY <1>8 DEF Elems
  <1> QED BY <1>6, <1>9, <1>10 DEF Plain, p, t, S

(* What is stored for a file, by where its upload is: nothing before the   *)
(* adapter starts, a part at most while it copies and after a local        *)
(* failure, and all of it once it was answered, unless a Delete came in.   *)
UploadInv ==
  /\ backend \in {"local", "s3"}
  /\ disk \in [Files -> Contents]
  /\ up \in [Files -> {"idle", "accepted", "copying", "ok", "refused", "error", "lost"}]
  /\ DOMAIN path = Files
  /\ DOMAIN deleter = Deleters
  /\ \A d \in Deleters : deleter[d].pc = "remove" => deleter[d].file \in Files
  /\ \A f \in Files :
       /\ up[f] \in {"idle", "accepted", "refused"} => disk[f] = "none"
       /\ up[f] = "copying" => disk[f] = "partial" \/ f \in removed
       /\ up[f] = "copying" => disk[f] # "whole"
       /\ up[f] = "ok" => disk[f] = "whole" \/ f \in removed
       /\ up[f] \in {"error", "lost"} /\ backend = "local" => disk[f] # "whole"
       /\ up[f] \notin {"idle", "refused"} => Plain(path[f])

(* Every step of every upload, download and delete keeps what is stored in *)
(* line with how far its upload has come.                                  *)
LEMMA UploadKeeps ==
  ASSUME UploadInv, [StoreNext]_storeVars
  PROVE  UploadInv'
  <1> USE DEF UploadInv, Contents
  <1>1. ASSUME NEW f \in Files, Upload(f) PROVE UploadInv'
    <2>1. CASE up' = [up EXCEPT ![f] = "refused"] /\ UNCHANGED path
      BY <1>1, <2>1 DEF Upload
    <2>2. ASSUME NEW dir \in Dirs,
                 path' = [path EXCEPT ![f] = SanitizePath(dir) \o <<f>>],
                 up' = [up EXCEPT ![f] = IF WithinBase(path'[f]) THEN "accepted" ELSE "error"]
          PROVE  UploadInv'
      <3>1. path'[f] = SanitizePath(dir) \o <<f>>
        BY <2>2
      <3>2. Plain(path'[f])
        BY <3>1, StoredPathIsPlain
      <3>3. WithinBase(path'[f])
        BY <3>2, PlainIsFixed
      <3>4. up' = [up EXCEPT ![f] = "accepted"]
        BY <2>2, <3>3
      <3>5. UNCHANGED <<backend, disk, deleter, removed>> /\ up[f] = "idle"
        BY <1>1 DEF Upload
      <3>6. /\ up' \in [Files -> {"idle", "accepted", "copying", "ok", "refused", "error", "lost"}]
            /\ DOMAIN path' = Files
        BY <2>2, <3>4
      <3>7. ASSUME NEW g \in Files
            PROVE  /\ up'[g] \in {"idle", "accepted", "refused"} => disk'[g] = "none"
                   /\ up'[g] = "copying" => disk'[g] = "partial" \/ g \in removed'
                   /\ up'[g] = "copying" => disk'[g] # "whole"
                   /\ up'[g] = "ok" => disk'[g] = "whole" \/ g \in removed'
                   /\ up'[g] \in {"error", "lost"} /\ backend' = "local" => disk'[g] # "whole"
                   /\ up'[g] \notin {"idle", "refused"} => Plain(path'[g])
        <4>1. CASE g = f
          <5>1. up'[g] = "accepted" /\ disk'[g] = "none"
            BY <3>4, <3>5, <4>1
          <5> QED BY <3>2, <4>1, <5>1
        <4>2. CASE g # f
          <5>1. up'[g] = up[g] /\ path'[g] = path[g]
            BY <2>2, <3>4, <4>2
          <5> QED BY <3>5, <5>1
        <4> QED BY <4>1, <4>2
      <3> QED BY <3>5, <3>6, <3>7
    <2> QED BY <1>1, <2>1, <2>2 DEF Upload
  <1>2. ASSUME NEW f \in Files, LocalCreate(f) PROVE UploadInv'
    <2>1. CASE UNCHANGED disk
      BY <1>2, <2>1 DEF LocalCreate
    <2>2. CASE disk' = [disk EXCEPT ![f] = "partial"]
      BY <1>2, <2>2 DEF LocalCreate
    <2> QED BY <1>2, <2>1, <2>2 DEF LocalCreate
  <1>3. ASSUME NEW f \in Files, LocalCopy(f) PROVE UploadInv'
    BY <1>3 DEF LocalCopy
  <1>4. ASSUME NEW f \in Files, LocalCopyFails(f) PROVE UploadInv'
    <2>1. CASE disk' = disk
      BY <1>4, <2>1 DEF LocalCopyFails
    <2>2. CASE disk' = [disk EXCEPT ![f] = "none"]
      BY <1>4, <2>2 DEF LocalCopyFails
    <2> QED BY <1>4, <2>1, <2>2 DEF LocalCopyFails
  <1>5. ASSUME NEW f \in Files, LocalCrash(f) PROVE UploadInv'
    BY <1>5 DEF LocalCrash
  <1>6. ASSUME NEW f \in Files, S3Upload(f) PROVE UploadInv'
    <2>1. PICK stored, answered \in BOOLEAN :
            /\ answered => stored
            /\ disk' = IF stored THEN [disk EXCEPT ![f] = "whole"] ELSE disk
            /\ up' = [up EXCEPT ![f] = IF answered THEN "ok" ELSE "error"]
      BY <1>6, ZenonT(30) DEF S3Upload
    <2>2. CASE answered
      BY <1>6, <2>1, <2>2 DEF S3Upload
    <2>3. CASE ~answered
      BY <1>6, <2>1, <2>3 DEF S3Upload
    <2> QED BY <2>2, <2>3
  <1>7. ASSUME NEW r \in Readers, Download(r) \/ GetURL(r) \/ OpenStream(r) \/ SendStream(r)
        PROVE  UploadInv'
    BY <1>7, ZenonT(30) DEF Download, GetURL, OpenStream, SendStream
  <1>8. ASSUME NEW d \in Deleters, Delete(d) PROVE UploadInv'
    BY <1>8 DEF Delete
  <1>9. ASSUME NEW d \in Deleters, RemoveFile(d) PROVE UploadInv'
    <2> DEFINE f == deleter[d].file
    <2>1. PICK done, answered \in BOOLEAN :
            /\ answered => done
            /\ disk' = IF done THEN [disk EXCEPT ![f] = "none"] ELSE disk
            /\ removed' = IF done THEN removed \cup {f} ELSE removed
            /\ deleter' = [deleter EXCEPT ![d].pc = IF answered THEN "ok" ELSE "error"]
      BY <1>9, ZenonT(30) DEF RemoveFile
    <2>2. /\ DOMAIN deleter' = Deleters
          /\ \A e \in Deleters : deleter'[e].pc = "remove" => deleter'[e].file \in Files
      BY <2>1
    <2>3. CASE done
      BY <1>9, <2>1, <2>2, <2>3 DEF RemoveFile
    <2>4. CASE ~done
      BY <1>9, <2>1, <2>2, <2>4 DEF RemoveFile
    <2> QED BY <2>3, <2>4
  <1>10. CASE UNCHANGED storeVars
    BY <1>10 DEF storeVars
  <1> QED
    BY <1>1, <1>2, <1>3, <1>4, <1>5, <1>6, <1>7, <1>8, <1>9, <1>10, ZenonT(30) DEF StoreNext

(* An answered upload is stored whole until it is deleted, under a path    *)
(* that stays within the base and that later requests do not change; a     *)
(* local one that failed is never there as a whole file: for any files,    *)
(* directories and requests at the same time.                              *)
THEOREM UploadsAreAnsweredTruly == StoreSpec => []UploadAnswerTrue
  <1>1. StoreInit => UploadInv
    BY DEF StoreInit, UploadInv, Contents
  <1>2. UploadInv => UploadAnswerTrue
    BY PlainIsFixed DEF UploadInv, UploadAnswerTrue
  <1> QED BY <1>1, <1>2, UploadKeeps, PTL DEF StoreSpec

(* Readers and deleters that go on after Exists hold a file. *)
StoreTypes ==
  /\ StoreTypeOK
  /\ \A r \in Readers : reader[r].pc = "open" => reader[r].file \in Files
  /\ \A d \in Deleters : deleter[d].pc = "remove" => deleter[d].file \in Files

(* Uploads, downloads and deletes keep to their types; the path of an      *)
(* upload is a sequence of names that ends in its file.                    *)
LEMMA StoreTypesStep ==
  ASSUME StoreTypes, [StoreNext]_storeVars
  PROVE  StoreTypes'
  <1> DEFINE ReaderRec == [op: {"download", "url"}, file: Files \cup {NoFile},
                           pc: {"idle", "open", "stream", "ok", "notfound", "error"}, got: Contents]
             DeleterRec == [file: Files \cup {NoFile},
                            pc: {"idle", "remove", "ok", "notfound", "error"}]
  <1> USE DEF StoreTypes, StoreTypeOK
  <1>1. ASSUME NEW f \in Files, Upload(f) PROVE StoreTypes'
    <2>1. path' \in [Files -> Seq(Segments \cup Files)]
      <3>1. CASE UNCHANGED path
        BY <3>1
      <3>2. ASSUME NEW dir \in Dirs, path' = [path EXCEPT ![f] = SanitizePath(dir) \o <<f>>]
            PROVE  path' \in [Files -> Seq(Segments \cup Files)]
        <4>1. SanitizePath(dir) \o <<f>> \in Seq(Segments \cup Files)
          BY StoredPathIsPlain DEF Plain
        <4> QED BY <3>2, <4>1
      <3> QED BY <1>1, <3>1, <3>2 DEF Upload
    <2>2. up' \in [Files -> {"idle", "accepted", "copying", "ok", "refused", "error", "lost"}]
      BY <1>1 DEF Upload
    <2> QED BY <1>1, <2>1, <2>2 DEF Upload
  <1>2. ASSUME NEW f \in Files,
               LocalCreate(f) \/ LocalCopy(f) \/ LocalCopyFails(f) \/ LocalCrash(f) \/ S3Upload(f)
        PROVE  StoreTypes'
    <2>1. /\ disk' \in [Files -> Contents]
          /\ up' \in [Files -> {"idle", "accepted", "copying", "ok", "refused", "error", "lost"}]
      <3>1. CASE LocalCreate(f) \/ LocalCrash(f)
        BY <3>1 DEF LocalCreate, LocalCrash, Contents
      <3>2. CASE LocalCopy(f) \/ LocalCopyFails(f)
        BY <3>2 DEF LocalCopy, LocalCopyFails, Contents
      <3>3. CASE S3Upload(f)
        BY <3>3 DEF S3Upload, Contents
      <3> QED BY <1>2, <3>1, <3>2, <3>3
    <2>2. UNCHANGED <<backend, path, reader, deleter, removed>>
      BY <1>2 DEF LocalCreate, LocalCopy, LocalCopyFails, LocalCrash, S3Upload
    <2> QED BY <2>1, <2>2
  <1>3. ASSUME NEW r \in Readers, Download(r) \/ GetURL(r) \/ OpenStream(r) \/ SendStream(r)
        PROVE  StoreTypes'
    <2>1. UNCHANGED <<backend, disk, up, path, deleter, removed>>
      BY <1>3 DEF Download, GetURL, OpenStream, SendStream
    <2>2. /\ reader' \in [Readers -> ReaderRec]
          /\ \A s \in Readers : reader'[s].pc = "open" => reader'[s].file \in Files
      <3> DEFINE p == reader[r]
      <3>1. reader \in [Readers -> ReaderRec] /\ p \in ReaderRec
        OBVIOUS
      <3>2. \A s \in Readers : reader[s].pc = "open" => reader[s].file \in Files
        OBVIOUS
      <3>3. p.pc = "open" => disk[p.file] \in Contents
        BY <3>2
      <3> HIDE DEF StoreTypes, StoreTypeOK
      <3>4. \E q \in ReaderRec :
              reader' = [reader EXCEPT ![r] = q] /\ (q.pc = "open" => q.file \in Files)
        <4>1. CASE Download(r)
          <5>1. PICK f \in Files, pc \in {"open", "notfound", "error"} :
                  reader' = [reader EXCEPT ![r] = [@ EXCEPT !.file = f, !.pc = pc]]
            BY <4>1 DEF Download
          <5>2. [p EXCEPT !.file = f, !.pc = pc] \in ReaderRec
            BY <3>1
          <5>3. [p EXCEPT !.file = f, !.pc = pc].file = f
            BY <3>1
          <5> QED BY <5>1, <5>2, <5>3
        <4>2. CASE GetURL(r)
          <5>1. PICK f \in Files, pc \in {"ok", "notfound", "error"} :
                  reader' = [reader EXCEPT ![r] = [@ EXCEPT !.file = f, !.op = "url", !.pc = pc]]
            BY <4>2 DEF GetURL
          <5>2. [p EXCEPT !.file = f, !.op = "url", !.pc = pc] \in ReaderRec
            BY <3>1
          <5>3. [p EXCEPT !.file = f, !.op = "url", !.pc = pc].file = f
            BY <3>1
          <5> QED BY <5>1, <5>2, <5>3
        <4>3. CASE OpenStream(r)
          <5>1. PICK pc \in {"error", "stream"}, got \in Contents :
                  reader' = [reader EXCEPT ![r] = [@ EXCEPT !.pc = pc, !.got = got]]
            BY <3>3, <4>3 DEF OpenStream
          <5>2. [p EXCEPT !.pc = pc, !.got = got] \in ReaderRec
            BY <3>1
          <5>3. [p EXCEPT !.pc = pc, !.got = got].pc # "open"
            BY <3>1
          <5> QED BY <5>1, <5>2, <5>3
        <4>4. CASE SendStream(r)
          <5>1. reader' = [reader EXCEPT ![r] = [@ EXCEPT !.pc = "ok"]]
            BY <4>4 DEF SendStream
          <5>2. [p EXCEPT !.pc = "ok"] \in ReaderRec /\ [p EXCEPT !.pc = "ok"].pc # "open"
            BY <3>1
          <5> QED BY <5>1, <5>2
        <4> QED BY <1>3, <4>1, <4>2, <4>3, <4>4
      <3>5. PICK q \in ReaderRec :
              reader' = [reader EXCEPT ![r] = q] /\ (q.pc = "open" => q.file \in Files)
        BY <3>4
      <3> HIDE DEF ReaderRec
      <3>6. \A s \in Readers : reader'[s] = IF s = r THEN q ELSE reader[s]
        BY <3>1, <3>5
      <3>7. reader' \in [Readers -> ReaderRec]
        BY <3>1, <3>5
      <3> QED BY <3>2, <3>5, <3>6, <3>7
    <2> QED BY <2>1, <2>2
  <1>4. ASSUME NEW d \in Deleters, Delete(d) PROVE StoreTypes'
    <2>1. PICK f \in Files, pc \in {"remove", "notfound", "error"} :
            deleter' = [deleter EXCEPT ![d] = [file |-> f, pc |-> pc]]
      BY <1>4 DEF Delete
    <2> QED BY <1>4, <2>1 DEF Delete
  <1>5. ASSUME NEW d \in Deleters, RemoveFile(d) PROVE StoreTypes'
    <2> DEFINE f == deleter[d].file
    <2>1. f \in Files
      BY <1>5 DEF RemoveFile
    <2>2. disk' \in [Files -> Contents] /\ removed' \subseteq Files
      BY <1>5, <2>1 DEF RemoveFile, Contents
    <2>3. PICK pc \in {"ok", "error"} : deleter' = [deleter EXCEPT ![d].pc = pc]
      BY <1>5 DEF RemoveFile
    <2>4. /\ deleter' \in [Deleters -> DeleterRec]
          /\ \A e \in Deleters : deleter'[e].pc = "remove" => deleter'[e].file \in Files
      BY <2>3
    <2> QED BY <1>5, <2>2, <2>4 DEF RemoveFile
  <1>6. CASE UNCHANGED storeVars
    BY <1>6 DEF storeVars
  <1> QED BY <1>1, <1>2, <1>3, <1>4, <1>5, <1>6 DEF StoreNext

(* The storage module keeps to its types. *)
LEMMA StoreTypesKept == StoreSpec => []StoreTypeOK
  <1>1. StoreInit => StoreTypes
    BY DEF StoreInit, StoreTypes, StoreTypeOK, Contents
  <1>2. StoreTypes => StoreTypeOK
    BY DEF StoreTypes
  <1> QED BY <1>1, <1>2, StoreTypesStep, PTL DEF StoreSpec
=============================================================================
