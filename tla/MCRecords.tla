----------------------------- MODULE MCRecords -----------------------------
(***************************************************************************)
(* What the server keeps and what it lets through, on small instances: the *)
(* user store, its pages, the files, the audit log's cleanup, the seed     *)
(* script, the way of a request to its handler, the rate limiter, the      *)
(* decision cache, and the sessions without Redis.                         *)
(*                                                                         *)
(* These components share no state.  "focus" names the one whose steps a   *)
(* behaviour takes; the others stay in one of their initial states, so the *)
(* states are those of each component, side by side.                       *)
(***************************************************************************)
EXTENDS Users, Pagination, Storage, AuditCleanup, Seed, Access, RateLimit, DecisionCache

CONSTANTS SessionUsers, SessionTokens, SessionReqs, u1, u2, p1, p2

ASSUME SessionInputs == None \notin SessionUsers /\ None \notin SessionTokens

VARIABLES focus, sLookup, sIndex, sActive, sWritten, sPc, sOp, sUser, sTok, sWant, sBefore,
          sMust, sPage, sOwner, sReturned, sEnded, sDisabled, sChanges, sConfirmed, sEvents

(* AuthSession for a process without Redis, with its theorems. *)
Session == INSTANCE AuthSessionProofs WITH
  Users <- SessionUsers, Tokens <- SessionTokens, Reqs <- SessionReqs, Redis <- FALSE,
  MaxChanges <- 1, MaxEvents <- 2,
  lookup <- sLookup, index <- sIndex, active <- sActive, written <- sWritten, pc <- sPc,
  op <- sOp, user <- sUser, tok <- sTok, want <- sWant, before <- sBefore, must <- sMust,
  page <- sPage, owner <- sOwner, returned <- sReturned, ended <- sEnded,
  disabled <- sDisabled, changes <- sChanges, confirmed <- sConfirmed, events <- sEvents

sessionVars == <<sLookup, sIndex, sActive, sWritten, sPc, sOp, sUser, sTok, sWant, sBefore,
                 sMust, sPage, sOwner, sReturned, sEnded, sDisabled, sChanges, sConfirmed, sEvents>>

recordVars == <<focus, userVars, pageVars, storeVars, cleanupVars, seedVars, accessVars,
                limitVars, vars, sessionVars>>

(* Forms name directories with up to two segments, and some longer ones. *)
MCDirs == UNION {[1..n -> Segments] : n \in 0..2}
            \cup {<<"..", "..", "a">>, <<"a", "..", ".h">>, <<"a", "..", "..", "h">>}

(* One row is young, one old for the job that names a retention only, the  *)
(* others old for both jobs.                                               *)
MCAgeOf == [r \in 1..7 |-> IF r = 7 THEN 1 ELSE IF r = 6 THEN 60 ELSE 100]
MCRetentionOf == [j \in {"j1", "j2"} |-> IF j = "j1" THEN 30 ELSE 0]

MCConfigFiles == {[secret |-> "placeholder", issuer |-> "goscratch", authz |-> b] : b \in BOOLEAN}
MCEnvironments == {[secret |-> s, issuer |-> i] : s \in {"short", "k1", "k2"}, i \in {"", "other"}}

(* The limiters of the code: the one of login fails closed and always asks  *)
(* for Redis; the one of all routes asks for it when Redis is enabled.  A   *)
(* Redis that is switched off or was not reached at the start leaves both   *)
(* with the no-op cache.                                                    *)
MCUseSites == {[useRedis |-> TRUE, cache |-> c, failClosed |-> f] : c \in {"redis", "noop"}, f \in BOOLEAN}
                \cup {[useRedis |-> FALSE, cache |-> "noop", failClosed |-> FALSE]}

Foci == {"users", "pages", "files", "cleanup", "seed", "access", "limit", "cache", "session"}

(* All but the component in focus start in one state. *)
RecordsInit ==
  /\ focus \in Foci
  /\ UserInit
  /\ focus = "users" \/ \A i \in Accounts : rows[i].active /\ rows[i].email = "e1"
  /\ PageInit
  /\ focus = "pages" \/ <<listed, size>> = <<{}, 0>>
  /\ StoreInit
  /\ focus = "files" \/ backend = "s3"
  /\ CleanupInit
  /\ focus = "cleanup" \/ logs = {}
  /\ SeedInit
  /\ focus = "seed" \/ haveRule = {}
  /\ AccessInit
  /\ focus = "access" \/ <<rules, settings.authz>> = <<{}, TRUE>>
  /\ LimitInit
  /\ focus = "limit" \/ ~site.useRedis
  /\ Init
  /\ Session!Init

Still(f, v) == IF focus = f THEN TRUE ELSE UNCHANGED v

(* The components out of focus, and the focus, do not change. *)
Others ==
  /\ UNCHANGED focus
  /\ Still("users", userVars) /\ Still("pages", pageVars) /\ Still("files", storeVars)
  /\ Still("cleanup", cleanupVars) /\ Still("seed", seedVars) /\ Still("access", accessVars)
  /\ Still("limit", limitVars) /\ Still("cache", vars) /\ Still("session", sessionVars)

RecordsNext ==
  /\ \/ focus = "users" /\ UserNext
     \/ focus = "pages" /\ PageNext
     \/ focus = "files" /\ StoreNext
     \/ focus = "cleanup" /\ CleanupNext
     \/ focus = "seed" /\ SeedNext
     \/ focus = "access" /\ AccessNext
     \/ focus = "limit" /\ LimitNext
     \/ focus = "cache" /\ Next
     \/ focus = "session" /\ Session!Next
  /\ Others

(* The fairness of the components, for the behaviours that focus on them. *)
RecordsFairness ==
  \A c \in Calls : WF_userVars(focus = "users" /\ UserStep(c))

RecordsSpec == RecordsInit /\ [][RecordsNext]_recordVars /\ RecordsFairness

-----------------------------------------------------------------------------
(* Every component keeps to its types. *)
RecordsTypeOK ==
  /\ UserTypeOK /\ PageTypeOK /\ StoreTypeOK /\ CleanupTypeOK /\ SeedTypeOK /\ AccessTypeOK
  /\ LimitTypeOK /\ TypeOK /\ Session!TypeOK

(* Without Redis no password change is reported as successful              *)
(* (userUseCase.ChangePassword with NoOpCache).                            *)
ConfirmedOnlyIfRevocable == Session!ConfirmedOnlyIfRevocable
=============================================================================
