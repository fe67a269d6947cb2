------------------------- MODULE RecordGroupProofs -------------------------
(***************************************************************************)
(* The components that MCRecords puts side by side, proved together: a     *)
(* behaviour of the group is a behaviour of each component, so what the    *)
(* components guarantee each by itself the group guarantees at once.       *)
(***************************************************************************)
EXTENDS MCRecords, RecordProofs, RequestProofs

(* The group has many modules in scope, and a leaf takes its time. *)
USE ZenonT(60), SMTT(60)

(* What AuthSession assumes of its constants holds of the group's. *)
LEMMA SessionInputsHold ==
  /\ None \notin SessionUsers /\ None \notin SessionTokens
  /\ FALSE \in BOOLEAN
  /\ 1 \in Nat /\ 2 \in Nat
  BY SessionInputs

(* A step of the group is a step of the component in focus, and leaves     *)
(* every other alone.                                                      *)
LEMMA GroupStep ==
  ASSUME [RecordsNext]_recordVars
  PROVE  /\ [UserNext]_userVars
         /\ [PageNext]_pageVars
         /\ [StoreNext]_storeVars
         /\ [CleanupNext]_cleanupVars
         /\ [SeedNext]_seedVars
         /\ [AccessNext]_accessVars
         /\ [LimitNext]_limitVars
         /\ [Next]_vars
         /\ [Session!Next]_sessionVars
<1>1. CASE UNCHANGED recordVars
  BY <1>1 DEF recordVars
<1>2. CASE RecordsNext
  <2>1. [UserNext]_userVars
    BY <1>2 DEF RecordsNext, Others, Still
  <2>2. [PageNext]_pageVars
    BY <1>2 DEF RecordsNext, Others, Still
  <2>3. [StoreNext]_storeVars
    BY <1>2 DEF RecordsNext, Others, Still
  <2>4. [CleanupNext]_cleanupVars
    BY <1>2 DEF RecordsNext, Others, Still
  <2>5. [SeedNext]_seedVars
    BY <1>2 DEF RecordsNext, Others, Still
  <2>6. [AccessNext]_accessVars
    BY <1>2 DEF RecordsNext, Others, Still
  <2>7. [LimitNext]_limitVars
    BY <1>2 DEF RecordsNext, Others, Still
  <2>8. [Next]_vars
    BY <1>2 DEF RecordsNext, Others, Still
  <2>9. [Session!Next]_sessionVars
    BY <1>2 DEF RecordsNext, Others, Still
  <2> QED BY <2>1, <2>2, <2>3, <2>4, <2>5, <2>6, <2>7, <2>8, <2>9
<1> QED BY <1>1, <1>2

(* The group's behaviours are behaviours of every component by itself. *)
LEMMA GroupIsComponents ==
  RecordsSpec => /\ UserInit /\ [][UserNext]_userVars
                 /\ PageSpec
                 /\ StoreSpec
                 /\ CleanupInit /\ [][CleanupNext]_cleanupVars
                 /\ SeedSpec
                 /\ AccessSpec
                 /\ LimitSpec
                 /\ Spec
                 /\ Session!Spec
<1>1. RecordsInit => /\ UserInit /\ PageInit /\ StoreInit /\ CleanupInit /\ SeedInit
                     /\ AccessInit /\ LimitInit /\ Init /\ Session!Init
  BY DEF RecordsInit
<1>2. [RecordsNext]_recordVars =>
        /\ [UserNext]_userVars /\ [PageNext]_pageVars /\ [StoreNext]_storeVars
        /\ [CleanupNext]_cleanupVars /\ [SeedNext]_seedVars /\ [AccessNext]_accessVars
        /\ [LimitNext]_limitVars /\ [Next]_vars /\ [Session!Next]_Session!vars
  <2>1. UNCHANGED sessionVars => UNCHANGED Session!vars
    BY DEF sessionVars, Session!vars, Session!cacheVars, Session!userVars, Session!reqVars,
           Session!historyVars
  <2> QED BY <2>1, GroupStep
<1> QED
  BY <1>1, <1>2, PTL DEF RecordsSpec, PageSpec, StoreSpec, SeedSpec, AccessSpec, LimitSpec,
                         Spec, Session!Spec

(* Every component of the group is always well typed: users, pages, files, *)
(* clean-up jobs, seed runs, requests and configuration, limiter, decision *)
(* cache and sessions.                                                     *)
THEOREM RecordsTypeCorrect == RecordsSpec => []RecordsTypeOK
<1>1. CleanupInv => CleanupTypeOK
  BY DEF CleanupInv
<1>2. LimitInv => LimitTypeOK
  BY DEF LimitInv
<1>3. CacheInv => TypeOK
  BY DEF CacheInv
<1>4. Session!Spec => []Session!TypeOK
  BY SessionInputsHold, Session!TypeCorrect
<1>5. /\ UserTypeOK /\ PageTypeOK /\ StoreTypeOK /\ CleanupTypeOK /\ SeedTypeOK
      /\ AccessTypeOK /\ LimitTypeOK /\ TypeOK /\ Session!TypeOK
      => RecordsTypeOK
  BY DEF RecordsTypeOK
<1> QED
  BY <1>1, <1>2, <1>3, <1>4, <1>5, GroupIsComponents, UserTypesKept, PageTypesKept,
     StoreTypesKept, CleanupSafe, SeedTypesKept, AccessTypesKept, LimitInvariant,
     CacheInvariant, PTL

(* Without Redis no password change is ever reported as successful         *)
(* (userUseCase.ChangePassword with NoOpCache): the theorem about sessions *)
(* for the cache that keeps nothing.                                       *)
THEOREM WithoutRedisNoSuccess == RecordsSpec => []ConfirmedOnlyIfRevocable
<1>1. Session!Spec => []Session!ConfirmedOnlyIfRevocable
  BY SessionInputsHold, Session!NoCacheNoSuccess
<1>2. Session!ConfirmedOnlyIfRevocable => ConfirmedOnlyIfRevocable
  BY DEF ConfirmedOnlyIfRevocable
<1> QED
  BY <1>1, <1>2, GroupIsComponents, PTL

(* The safety properties of the components hold in the group, where the    *)
(* components run side by side: e-mails are unique, walks through pages    *)
(* see every row once, uploads are answered truly, clean-ups and seed runs *)
(* do what they report, the limiter admits no more than its limit, and the *)
(* decision cache is the abstract store it implements.                     *)
THEOREM RecordsSafe ==
  RecordsSpec =>
    /\ [](/\ EmailsUnique /\ WalkExact /\ UploadAnswerTrue /\ CleanupExact
          /\ QuietRunIsComplete /\ LimitExact /\ MapMatchesList /\ LeastRecentGoes)
    /\ ThereAndBack /\ ServedMeansEntitled /\ ImplementsStore
<1>1. UserInv => EmailsUnique
  BY DEF UserInv
<1> QED
  BY <1>1, GroupIsComponents, UserSafe, WalkIsExact, UploadsAreAnsweredTruly, CleanupSafe,
     CleanupEndsExact, QuietRunsComplete, LimiterIsExact, MapAndListAgree,
     EvictionIsByRecency, ForwardAndBackIsTheSamePage, OnlyEntitledAreServed,
     CacheImplementsStore, PTL
=============================================================================
