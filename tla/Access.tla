------------------------------- MODULE Access -------------------------------
(***************************************************************************)
(* The way of a request to its handler: the configuration the process was  *)
(* started with, the access tokens Login and Refresh sign, middleware.Auth *)
(* that parses them, and RequirePermission and RequireRole that ask the    *)
(* authorizer, while tokens expire, rules change and the process is        *)
(* restarted with another configuration.                                   *)
(*                                                                         *)
(* The authorizer answers from copies: the rules it has loaded and the     *)
(* decisions it has cached.  Both are lost with the process.  Authorizer   *)
(* has its mutations and reloads step by step.                             *)
(***************************************************************************)
EXTENDS Naturals, FiniteSets

CONSTANTS
  People,        \* users
  Visits,        \* requests
  Lifetime,      \* AccessTokenDuration
  LastTick,      \* bound: clock
  MaxTokens,     \* bound: tokens signed
  ConfigFiles,   \* the [secret, issuer, authz] of the config files
  Environments,  \* the [secret, issuer] of the environments; "" when unset
  Nobody         \* no token

VARIABLES
  settings,      \* the configuration of the running process
  serving,       \* "down", "up", or "refused" when Validate failed
  now,
  tokens,        \* the tokens in the hands of clients
  rules,         \* the rules in the database
  loaded,        \* the rules in the enforcer's memory
  decided,       \* decided[u]: the cached decision on the permission
  reading,       \* what LoadPolicy has read and not yet installed
  visit,         \* visit[v]: route, token and progress of a request
  had            \* history: rules the database held since the process loaded them

authzVars == <<rules, loaded, decided, reading, had>>
accessVars == <<settings, serving, now, tokens, visit, authzVars>>

(* "u holds the role" for every user u, and "the role has the permission". *)
Grant == "grant"
RightsRules == People \cup {Grant}

Secrets == {"", "placeholder", "short", "k1", "k2"}
Issuers == {"", "goscratch", "other"}
Token == [user: People, iss: Issuers, key: Secrets, iat: 0..LastTick,
          exp: 0..(LastTick + Lifetime), under: Issuers]
Settings == [secret: Secrets, issuer: Issuers, authz: BOOLEAN]
ASSUME AccessInputs ==
  /\ Lifetime \in Nat /\ LastTick \in Nat
  /\ ConfigFiles \subseteq Settings
  /\ Environments \subseteq [secret: Secrets, issuer: Issuers]
  /\ Grant \notin People

(* raced: the memory was written to while it evaluated; seen: the rules    *)
(* that were there meanwhile.                                              *)
Visit == [route: {"token", "permission", "role"}, token: Token \cup {Nobody},
          at: {"new", "auth", "authz", "put", "handler", "401", "403", "500"},
          raced: BOOLEAN, seen: SUBSET RightsRules, allowed: BOOLEAN]
Busy == {"auth", "authz", "put"}

AccessTypeOK ==
  /\ settings \in Settings
  /\ serving \in {"down", "up", "refused"}
  /\ now \in 0..LastTick
  /\ tokens \subseteq Token
  /\ rules \subseteq RightsRules /\ loaded \subseteq RightsRules /\ had \subseteq RightsRules
  /\ decided \in [People -> BOOLEAN \cup {Nobody}]
  /\ reading \in (SUBSET RightsRules) \cup {Nobody}
  /\ visit \in [Visits -> Visit]

(* A request that is answered, or has not come, has nothing but the answer. *)
Blank(at) == [route |-> "token", token |-> Nobody, at |-> at,
              raced |-> FALSE, seen |-> {}, allowed |-> FALSE]

AccessInit ==
  /\ settings \in ConfigFiles
  /\ serving = "down"
  /\ now = 0
  /\ tokens = {}
  /\ rules \in SUBSET RightsRules
  /\ loaded = {} /\ decided = [u \in People |-> Nobody] /\ reading = Nobody
  /\ visit = [v \in Visits |-> Blank("new")]
  /\ had = {}

(* applyEnvOverrides: a variable that is set replaces the value of the file. *)
Override(file, env) == IF env = "" THEN file ELSE env

(* Load *)
Load(file, env) ==
  [secret |-> Override(file.secret, env.secret),
   issuer |-> Override(file.issuer, env.issuer),
   authz |-> file.authz]

(* Config.Validate, which New calls first; issuer stands for the audience too. *)
Validate(s) == s.secret \notin {"", "placeholder", "short"} /\ s.issuer # ""

(* NewAdapter loads the rules and starts with an empty cache. *)
StartServer ==
  /\ serving = "down"
  /\ \E file \in ConfigFiles, env \in Environments :
       /\ settings' = Load(file, env)
       /\ serving' = IF Validate(settings') THEN "up" ELSE "refused"
  /\ loaded' = rules /\ decided' = [u \in People |-> Nobody] /\ reading' = Nobody
  /\ had' = rules
  /\ UNCHANGED <<now, tokens, visit, rules>>

(* The process ends, with its requests, its memory and its cache; tokens   *)
(* stay with the clients.                                                  *)
StopServer ==
  /\ serving # "down"
  /\ serving' = "down"
  /\ visit' = [v \in Visits |-> IF visit[v].at \in Busy THEN Blank("500") ELSE visit[v]]
  /\ loaded' = {} /\ decided' = [u \in People |-> Nobody] /\ reading' = Nobody
  /\ had' = {}
  /\ UNCHANGED <<settings, now, tokens, rules>>

-----------------------------------------------------------------------------
(* generateAccessToken; "under" is no claim but the history of the token. *)
AccessToken(u) ==
  [user |-> u, iss |-> settings.issuer, key |-> settings.secret, iat |-> now,
   exp |-> now + Lifetime, under |-> settings.issuer]

(* Login or Refresh has accepted the user. *)
SignToken(u) ==
  /\ serving = "up" /\ Cardinality(tokens) < MaxTokens
  /\ tokens' = tokens \cup {AccessToken(u)}
  /\ UNCHANGED <<settings, serving, now, visit, authzVars>>

(* A request; v is free again when the one before was answered. *)
Arrives(v, route, token) ==
  /\ serving = "up" /\ visit[v].at \notin Busy
  /\ visit' = [visit EXCEPT ![v] =
                  [Blank("auth") EXCEPT !.route = route, !.token = token]]
  /\ UNCHANGED <<settings, serving, now, tokens, authzVars>>

(* DefaultAuthConfig has the issuer and the audience as constants. *)
DefaultIssuer == "goscratch"

(* extractToken and parseToken: signature, issuer, not-before and expiry. *)
ParseToken(t) ==
  t # Nobody /\ t.key = settings.secret /\ t.iss = DefaultIssuer /\ t.iat <= now /\ now < t.exp

Proceed(v, at) == visit' = [visit EXCEPT ![v] = Blank(at)]

(* Auth.  From here on the authorizer's memory may be read at any time. *)
Auth(v) ==
  /\ visit[v].at = "auth"
  /\ IF ~ParseToken(visit[v].token) THEN Proceed(v, "401")
       ELSE IF visit[v].route = "token" THEN Proceed(v, "handler")
       ELSE visit' = [visit EXCEPT ![v] = [@ EXCEPT !.at = "authz", !.seen = loaded]]
  /\ UNCHANGED <<settings, serving, now, tokens, authzVars>>

-----------------------------------------------------------------------------
(* What the rules of P say: the role's permission, or the role. *)
Suffices(P, u, route) == u \in P /\ (route = "permission" => Grant \in P)

(* The enforcer takes no lock: a call under which the memory was written   *)
(* to, or is being replaced, sees some of the rules that were there.       *)
Evaluates(v, allowed) ==
  LET u == visit[v].token.user
      route == visit[v].route
  IN  /\ ~visit[v].raced /\ reading = Nobody => allowed = Suffices(loaded, u, route)
      /\ allowed => Suffices(visit[v].seen, u, route)

(* The memory becomes P under the calls that read it. *)
MemoryBecomes(P) ==
  /\ loaded' = P
  /\ visit' = [v \in Visits |-> IF visit[v].at = "authz"
                  THEN [visit[v] EXCEPT !.raced = TRUE, !.seen = @ \cup P] ELSE visit[v]]

Verdict(allowed) == IF allowed THEN "handler" ELSE "403"

(* Faulty variant: an error of the authorizer lets the request pass. *)
RequirePermissionOpen(v) ==
  /\ visit[v].at = "authz" /\ visit[v].route = "permission"
  /\ Proceed(v, "handler")
  /\ UNCHANGED <<settings, serving, now, tokens, authzVars>>

(* RequirePermission asks Enforce: the no-op one allows everything, the    *)
(* real one takes a cached decision, evaluates, or returns an error.       *)
RequirePermission(v) ==
  LET cached == decided[visit[v].token.user] IN
  /\ visit[v].at = "authz" /\ visit[v].route = "permission"
  /\ \/ ~settings.authz /\ Proceed(v, "handler")
     \/ settings.authz /\ cached # Nobody /\ Proceed(v, Verdict(cached))
     \/ /\ settings.authz /\ cached = Nobody
        /\ \E allowed \in BOOLEAN :
             /\ Evaluates(v, allowed)
             /\ visit' = [visit EXCEPT ![v] = [@ EXCEPT !.at = "put", !.allowed = allowed]]
     \/ settings.authz /\ cached = Nobody /\ Proceed(v, "500")
  /\ UNCHANGED <<settings, serving, now, tokens, authzVars>>

(* Enforce caches what it evaluated, whatever was forgotten meanwhile. *)
PutDecision(v) ==
  /\ visit[v].at = "put"
  /\ decided' = [decided EXCEPT ![visit[v].token.user] = visit[v].allowed]
  /\ Proceed(v, Verdict(visit[v].allowed))
  /\ UNCHANGED <<settings, serving, now, tokens, rules, loaded, reading, had>>

(* RequireRole asks HasRoleForUser, which reads the memory. *)
RequireRole(v) ==
  /\ visit[v].at = "authz" /\ visit[v].route = "role"
  /\ \/ ~settings.authz /\ Proceed(v, "handler")
     \/ /\ settings.authz
        /\ \E allowed \in BOOLEAN : Evaluates(v, allowed) /\ Proceed(v, Verdict(allowed))
     \/ settings.authz /\ Proceed(v, "500")
  /\ UNCHANGED <<settings, serving, now, tokens, authzVars>>

-----------------------------------------------------------------------------
(* The decisions when those of U are forgotten. *)
Forgotten(U) == [u \in People |-> IF u \in U THEN Nobody ELSE decided[u]]

(* A rule is added or removed through this process: stored, applied, and   *)
(* the decisions it affects forgotten.                                     *)
RightsChange(x) ==
  /\ serving = "up" /\ settings.authz
  /\ \/ /\ x \in loaded
        /\ rules' = rules \ {x} /\ MemoryBecomes(loaded \ {x})
     \/ /\ x \notin loaded \cup rules
        /\ rules' = rules \cup {x} /\ MemoryBecomes(loaded \cup {x})
  /\ decided' = Forgotten(IF x = Grant THEN People ELSE {x})
  /\ had' = had \cup rules'
  /\ UNCHANGED <<settings, serving, now, tokens, reading>>

(* Another process, or a statement here whose answer was lost: only the    *)
(* database changes.                                                       *)
StoredElsewhere(x) ==
  /\ rules' \in {rules \ {x}, rules \cup {x}} /\ rules' # rules
  /\ had' = had \cup rules'
  /\ UNCHANGED <<settings, serving, now, tokens, loaded, decided, reading, visit>>

(* LoadPolicy on the backstop tick reads, installs and flushes. *)
BackstopReads ==
  /\ serving = "up" /\ settings.authz /\ reading = Nobody
  /\ reading' = rules
  /\ UNCHANGED <<settings, serving, now, tokens, rules, loaded, decided, visit, had>>

BackstopInstalls ==
  /\ serving = "up" /\ reading # Nobody
  /\ MemoryBecomes(reading)
  /\ reading' = Nobody /\ decided' = Forgotten(People)
  /\ UNCHANGED <<settings, serving, now, tokens, rules, had>>

(* The cache makes room for another decision. *)
Evicted(u) ==
  /\ decided[u] # Nobody
  /\ decided' = Forgotten({u})
  /\ UNCHANGED <<settings, serving, now, tokens, rules, loaded, reading, visit, had>>

AccessTick ==
  /\ now < LastTick
  /\ now' = now + 1
  /\ UNCHANGED <<settings, serving, tokens, visit, authzVars>>

AccessNext ==
  \/ StartServer \/ StopServer \/ AccessTick \/ BackstopReads \/ BackstopInstalls
  \/ \E u \in People : SignToken(u) \/ Evicted(u)
  \/ \E x \in RightsRules : RightsChange(x) \/ StoredElsewhere(x)
  \/ \E v \in Visits :
       \/ \E route \in {"token", "permission", "role"}, t \in tokens \cup {Nobody} :
            Arrives(v, route, t)
       \/ Auth(v) \/ RequirePermission(v) \/ PutDecision(v) \/ RequireRole(v)

AccessSpec == AccessInit /\ [][AccessNext]_accessVars

-----------------------------------------------------------------------------
(* Signed by a server with the present configuration. *)
OwnToken(t) == t # Nobody /\ t.key = settings.secret /\ t.under = settings.issuer

(* A handler behind RequirePermission or RequireRole runs only for a user   *)
(* whom rules entitle to it that the database held while this process ran. *)
(* Memory and cached decisions may lag behind changes made since, or mix   *)
(* two states of the rules, but a rule that was gone before the process    *)
(* started is of no use: neither to a token that is still valid nor        *)
(* through a decision, a reload or a request that is under way.            *)
ServedMeansEntitled ==
  [][\A v \in Visits :
       visit[v].at # "handler" /\ visit'[v].at = "handler" =>
         \/ visit[v].route = "token" \/ ~settings.authz
         \/ Suffices(had, visit[v].token.user, visit[v].route)]_accessVars

(* Violated: whatever issuer is configured, a token the server signs is    *)
(* accepted until it expires.                                              *)
SignedTokenAccepted ==
  [][\A v \in Visits :
       visit'[v].at = "401" /\ visit[v].at = "auth" =>
         ~(OwnToken(visit[v].token) /\ now < visit[v].token.iat + Lifetime)]_accessVars
=============================================================================
