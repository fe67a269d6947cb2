------------------------- MODULE ServiceGroupProofs -------------------------
(***************************************************************************)
(* The components that MCServices puts side by side, proved together, as   *)
(* RecordGroupProofs does for those of MCRecords.                          *)
(***************************************************************************)
EXTENDS MCServices, ServerProofs

(* The group has many modules in scope, and a leaf takes its time. *)
USE ZenonT(60), SMTT(60)

(* What JobWorker assumes of its constants holds of the group's. *)
LEMMA WorkerInputsHold ==
  /\ Worker!IsFiniteSet({c1})
  /\ MCType \in [{j1, j2} -> {"registered", "unregistered", "malformed"}]
  /\ MCMaxRetry \in [{j1, j2} -> Int]
  /\ 1 \in Nat \ {0} /\ 1 \in Nat
  /\ None \notin Worker!Message
<1>1. Worker!IsFiniteSet({c1})
  BY FS_Singleton DEF IsFiniteSet, Worker!IsFiniteSet
<1> QED
  BY <1>1, ServiceInputs DEF MCType, MCMaxRetry, Worker!Message

(* What Authorizer assumes of its constants holds of the group's. *)
LEMMA AuthzInputsHold ==
  /\ 1 \in Nat \ {0} /\ None \notin BOOLEAN
  /\ {u1} \subseteq {u1} \cup {admin}
  /\ {Star} \subseteq {p1} \cup {Star}
  /\ {<<admin, Star>>} \subseteq Authz!Rules
  /\ {u1} \cap {admin} = {} /\ {admin} \cap {Star} = {} /\ {r1} \cap {a1} = {}
  /\ {2, 1, 0} \subseteq Nat
  BY ServiceInputs DEF Authz!Rules, Authz!GrantRules

(* A step of the group is a step of the component in focus, and leaves     *)
(* every other alone.                                                      *)
LEMMA GroupStep ==
  ASSUME [ServicesNext]_serviceVars
  PROVE  /\ [QueueNext]_queueVars
         /\ [SseNext]_sseVars
         /\ [WatchNext]_watchVars
         /\ [LifeNext]_lifeVars
         /\ [HealthNext]_healthVars
         /\ [SmtpNext]_smtpVars
         /\ [Worker!Next]_workerVars
         /\ [Authz!Next]_authzVars
<1>1. CASE UNCHANGED serviceVars
  BY <1>1 DEF serviceVars
<1>2. CASE ServicesNext
  <2>1. [QueueNext]_queueVars
    BY <1>2 DEF ServicesNext, Others, Still
  <2>2. [SseNext]_sseVars
    BY <1>2 DEF ServicesNext, Others, Still
  <2>3. [WatchNext]_watchVars
    BY <1>2 DEF ServicesNext, Others, Still
  <2>4. [LifeNext]_lifeVars
    BY <1>2 DEF ServicesNext, Others, Still
  <2>5. [HealthNext]_healthVars
    BY <1>2 DEF ServicesNext, Others, Still
  <2>6. [SmtpNext]_smtpVars
    BY <1>2 DEF ServicesNext, Others, Still
  <2>7. [Worker!Next]_workerVars
    BY <1>2 DEF ServicesNext, Others, Still
  <2>8. [Authz!Next]_authzVars
    BY <1>2 DEF ServicesNext, Others, Still
  <2> QED BY <2>1, <2>2, <2>3, <2>4, <2>5, <2>6, <2>7, <2>8
<1> QED BY <1>1, <1>2

(* The group's behaviours are behaviours of every component by itself. *)
LEMMA GroupIsComponents ==
  ServicesSpec => /\ QueueInit /\ [][QueueNext]_queueVars
                  /\ SseInit /\ [][SseNext]_sseVars
                  /\ WatchInit /\ [][WatchNext]_watchVars
                  /\ LifeInit /\ [][LifeNext]_lifeVars
                  /\ HealthInit /\ [][HealthNext]_healthVars
                  /\ SmtpInit /\ [][SmtpNext]_smtpVars
                  /\ Worker!Spec
                  /\ Authz!Spec
<1>1. ServicesInit => /\ QueueInit /\ SseInit /\ WatchInit /\ LifeInit /\ HealthInit
                      /\ SmtpInit /\ Worker!Init /\ Authz!Init
  BY DEF ServicesInit
<1>2. [ServicesNext]_serviceVars =>
        /\ [QueueNext]_queueVars /\ [SseNext]_sseVars /\ [WatchNext]_watchVars
        /\ [LifeNext]_lifeVars /\ [HealthNext]_healthVars /\ [SmtpNext]_smtpVars
        /\ [Worker!Next]_Worker!vars /\ [Authz!Next]_Authz!vars
  <2>1. UNCHANGED workerVars => UNCHANGED Worker!vars
    BY DEF workerVars, Worker!vars, Worker!brokerVars, Worker!workerVars,
           Worker!historyVars, Worker!boundVars
  <2>2. UNCHANGED authzVars => UNCHANGED Authz!vars
    BY DEF authzVars, Authz!vars
  <2> QED BY <2>1, <2>2, GroupStep
<1> QED
  BY <1>1, <1>2, PTL DEF ServicesSpec, Worker!Spec, Authz!Spec

(* Every component of the group is always well typed: the connection to    *)
(* the broker, the SSE broker, the watchers, the application, the          *)
(* readiness check, the sending of an e-mail, the worker and the           *)
(* authorizer.                                                             *)
THEOREM ServicesTypeCorrect == ServicesSpec => []ServicesTypeOK
<1>1. HealthInv => HealthTypeOK
  BY DEF HealthInv
<1>2. Worker!Spec => []Worker!TypeOK
  BY WorkerInputsHold, Worker!TypeCorrect
<1>3. Authz!Spec => []Authz!TypeOK
  BY AuthzInputsHold, Authz!TypeCorrect
<1>4. /\ QueueTypeOK /\ SseTypeOK /\ WatchTypeOK /\ LifeTypeOK /\ HealthTypeOK /\ SmtpTypeOK
      /\ Worker!TypeOK /\ Authz!TypeOK
      => ServicesTypeOK
  BY DEF ServicesTypeOK
<1> QED
  BY <1>1, <1>2, <1>3, <1>4, GroupIsComponents, QueueTypesKept, SseTypesKept,
     WatchTypesKept, LifeTypesKept, HealthSafe, SmtpTypesKept, PTL

(* The safety properties of the components hold in the group, where the    *)
(* components run side by side: no connection leaks, no broadcast sends on *)
(* a closed channel, and readiness answers what it found.                  *)
THEOREM ServicesSafe == ServicesSpec => [](NoLeakedConnection /\ NoSendOnClosed /\ AnswerTrue)
<1>1. ConnInv => NoLeakedConnection
  BY DEF ConnInv
<1>2. HealthInv => AnswerTrue
  BY DEF HealthInv
<1> QED
  BY <1>1, <1>2, GroupIsComponents, QueueSafe, SseSafe, RegistryKeepsOpen, HealthSafe, PTL
=============================================================================
