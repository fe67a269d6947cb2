---------------------------- MODULE MCServices -----------------------------
(***************************************************************************)
(* The long-lived parts of the processes, on small instances: the broker   *)
(* connection, the SSE broker, the policy watcher, start and shutdown, the *)
(* readiness endpoint, the sending of an email, the job worker and the     *)
(* authorizer.                                                             *)
(*                                                                         *)
(* "focus" names the component whose steps a behaviour takes; the others   *)
(* stay in one of their initial states, so the states are those of each    *)
(* component, side by side.                                                *)
(***************************************************************************)
EXTENDS Integers, QueueConn, SSEBroker, PolicyWatcher, Lifecycle, Health, SmtpSend

CONSTANTS j1, j2, c1, u1, p1, admin, r1, a1, Star, None

ASSUME ServiceInputs ==
  /\ None \notin [mid : 0..6, job : {j1, j2}, attempts : Nat] \cup BOOLEAN
  /\ u1 # admin /\ admin # Star /\ r1 # a1

VARIABLES focus,
          wQueue, wUnacked, wOpen, wBuf, wConsume, wLoop, wCur, wRetries, wWg, wCtxDone, wMain,
          wClosed, wAccepted, wFinished, wDropped, wRuns, wLostAcks, wDrops, wBoots,
          zStore, zDb, zMem, zPc, zKey, zAnswer, zChange, zBase, zOverlap, zTainted, zHeld,
          zReload, zSnap, zClosed, zChanges, zOutside

(* j1 may be retried once; j2 has no handler, and a max_retry below any count. *)
MCType == [j \in {j1, j2} |-> IF j = j1 THEN "registered" ELSE "unregistered"]
MCMaxRetry == [j \in {j1, j2} |-> IF j = j1 THEN 2 ELSE -1]

(* JobWorker with its theorems. *)
Worker == INSTANCE JobWorkerProofs WITH
  Jobs <- {j1, j2}, Consumers <- {c1},
  Type <- MCType, MaxRetry <- MCMaxRetry,
  Prefetch <- 1, Mids <- 0..6, MaxDrops <- 1, MaxBoots <- 1,
  queue <- wQueue, unacked <- wUnacked, open <- wOpen, buf <- wBuf, consume <- wConsume,
  loop <- wLoop, cur <- wCur, retries <- wRetries, wg <- wWg, ctxDone <- wCtxDone,
  main <- wMain, closed <- wClosed, accepted <- wAccepted, finished <- wFinished,
  dropped <- wDropped, runs <- wRuns, lostAcks <- wLostAcks, drops <- wDrops, boots <- wBoots

(* Authorizer with its theorems. *)
Authz == INSTANCE AuthorizerProofs WITH
  Roles <- {admin}, Users <- {u1}, Perms <- {p1}, DirectSubjects <- {u1, admin}, Grantable <- {Star},
  Seed <- {<<admin, Star>>}, Reqs <- {r1}, Admins <- {a1}, MaxSize <- 1, MaxChanges <- 2,
  MaxOutside <- 1,
  store <- zStore, db <- zDb, mem <- zMem, pc <- zPc, key <- zKey, answer <- zAnswer,
  change <- zChange, base <- zBase, overlap <- zOverlap, tainted <- zTainted, held <- zHeld,
  reload <- zReload, snap <- zSnap, closed <- zClosed, changes <- zChanges,
  outside <- zOutside

workerVars == <<wQueue, wUnacked, wOpen, wBuf, wConsume, wLoop, wCur, wRetries, wWg, wCtxDone,
                wMain, wClosed, wAccepted, wFinished, wDropped, wRuns, wLostAcks, wDrops, wBoots>>
authzVars == <<zStore, zDb, zMem, zPc, zKey, zAnswer, zChange, zBase, zOverlap, zTainted, zHeld,
               zReload, zSnap, zClosed, zChanges, zOutside>>
serviceVars == <<focus, queueVars, sseVars, watchVars, lifeVars, healthVars, smtpVars,
                 workerVars, authzVars>>

(* Two tabs of one user. *)
MCUserOf == [c \in {"s1", "s2"} |-> "u"]

(* A permission and a role assignment; the permission may be revoked again. *)
Read == [sec |-> "p", name |-> "read"]
MCWatchRules == {Read, [sec |-> "g", name |-> "admin"]}
MCRemovable == {Read}

(* Nothing enabled, everything, and some. *)
MCConfigs == {{}, {"queue", "sse"},
              {"tracer", "cache", "queue", "s3", "authorizer", "metrics", "limiter", "sse"}}

Foci == {"queue", "sse", "watcher", "lifecycle", "health", "smtp", "worker", "authorizer"}

(* All but the component in focus start in one state. *)
ServicesInit ==
  /\ focus \in Foci
  /\ QueueInit
  /\ SseInit
  /\ WatchInit
  /\ focus = "watcher" \/ watcher = "none"
  /\ LifeInit
  /\ focus = "lifecycle" \/ config = {}
  /\ HealthInit
  /\ focus = "health" \/ <<noop, dep>> = <<{}, [d \in Deps |-> "up"]>>
  /\ SmtpInit
  /\ focus = "smtp" \/ <<callerDeadline, payloadOk>> = <<TRUE, TRUE>>
  /\ Worker!Init
  /\ Authz!Init

Still(f, v) == IF focus = f THEN TRUE ELSE UNCHANGED v

(* The components out of focus, and the focus, do not change. *)
Others ==
  /\ UNCHANGED focus
  /\ Still("queue", queueVars) /\ Still("sse", sseVars) /\ Still("watcher", watchVars)
  /\ Still("lifecycle", lifeVars) /\ Still("health", healthVars) /\ Still("smtp", smtpVars)
  /\ Still("worker", workerVars) /\ Still("authorizer", authzVars)

ServicesNext ==
  /\ \/ focus = "queue" /\ QueueNext
     \/ focus = "sse" /\ SseNext
     \/ focus = "watcher" /\ WatchNext
     \/ focus = "lifecycle" /\ LifeNext
     \/ focus = "health" /\ HealthNext
     \/ focus = "smtp" /\ SmtpNext
     \/ focus = "worker" /\ Worker!Next
     \/ focus = "authorizer" /\ Authz!Next
  /\ Others

(* The fairness of the components, for the behaviours that focus on them. *)
ServicesFairness ==
  /\ \A c \in Consumers : WF_queueVars(focus = "queue" /\ ConsumerStep(c))
  /\ \A i \in ConnIdx : WF_queueVars(focus = "queue" /\ BrokerReads(i))
  /\ \A c \in Conns : WF_sseVars(focus = "sse" /\ StreamStep(c))
  /\ \A b \in Casters : WF_sseVars(focus = "sse" /\ CastStep(b))
  /\ \A i \in Instances : WF_watchVars(focus = "watcher" /\ UpdateCallback(i))
  /\ \A i \in Instances : WF_watchVars(focus = "watcher" /\ Reload(i))
  /\ WF_lifeVars(focus = "lifecycle" /\ CloseReturns)
  /\ WF_lifeVars(focus = "lifecycle" /\ ShutdownTick)
  /\ \A r \in Requests : WF_lifeVars(focus = "lifecycle" /\ MustFinish(r))
  /\ WF_healthVars(focus = "health" /\ HealthSteps)
  /\ WF_smtpVars(focus = "smtp" /\ SmtpSteps)
  /\ WF_workerVars(focus = "worker" /\ Worker!Deliver(c1))
  /\ WF_workerVars(focus = "worker" /\ Worker!ConsumeStep(c1))
  /\ WF_workerVars(focus = "worker" /\ Worker!LoopStep(c1))
  /\ WF_workerVars(focus = "worker" /\ (\E r \in wRetries : Worker!RetryStep(r)))
  /\ WF_workerVars(focus = "worker" /\ Worker!ShutdownDone)
  /\ WF_authzVars(focus = "authorizer" /\ Authz!EnforceStep(r1))
  /\ WF_authzVars(focus = "authorizer" /\ Authz!MutationStep(a1))
  /\ WF_authzVars(focus = "authorizer" /\ Authz!ReloadStep)

ServicesSpec == ServicesInit /\ [][ServicesNext]_serviceVars /\ ServicesFairness

-----------------------------------------------------------------------------
(* Every component keeps to its types. *)
ServicesTypeOK ==
  /\ QueueTypeOK /\ SseTypeOK /\ WatchTypeOK /\ LifeTypeOK /\ HealthTypeOK /\ SmtpTypeOK
  /\ Worker!TypeOK /\ Authz!TypeOK

(* Shutdown of the worker returns without its deadline (Worker.Shutdown). *)
ShutdownTerminates == Worker!ShutdownTerminates

(* Every job the broker took is settled while the worker runs (Worker.Start). *)
JobSettles == Worker!JobSettles

(* Memory and database agree in the end, and no wrong decision stays       *)
(* remembered (Adapter.Start's backstop reload).                           *)
Converges == Authz!Converges
=============================================================================
