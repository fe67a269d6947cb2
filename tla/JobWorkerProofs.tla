-------------------------- MODULE JobWorkerProofs --------------------------
(***************************************************************************)
(* Proofs about JobWorker for any number of jobs, consumers, drops and     *)
(* restarts.                                                               *)
(***************************************************************************)
EXTENDS JobWorker, FiniteSetTheorems, TLAPS

(* A leaf is left to Zenon first, which is fast where no arithmetic is needed; *)
(* the longer limits are for slow machines.                                    *)
USE ZenonT(2), SMT, ZenonT(20), SMTT(30)

(* A goroutine inside handleMessage has a body in hand. *)
InHand == \A c \in Consumers : loop[c] \in {"handling", "settle"} => cur[c] \in Message

TypeInv == TypeOK /\ InHand

-----------------------------------------------------------------------------
(* The number of handled deliveries among closed channels is a number. *)
LEMMA HandledAgainNat ==
  ASSUME NEW C \in SUBSET Consumers, NEW j
  PROVE  HandledAgain(C, j) \in Nat
<1> DEFINE S == {c \in C : cur[c] # None /\ cur[c] \in unacked[c] /\ cur[c].job = j}
<1>1. S \subseteq Consumers
  OBVIOUS
<1>2. IsFiniteSet(S)
  BY <1>1, ConsumersFinite, FS_Subset
<1>3. Cardinality(S) \in Nat
  BY <1>2, FS_CardinalityType
<1> QED
  BY <1>3 DEF HandledAgain

(* Closing channels keeps the broker's state well typed. *)
LEMMA CloseChannelsType ==
  ASSUME TypeOK, NEW C \in SUBSET Consumers, CloseChannels(C)
  PROVE  /\ queue' \in SUBSET Message
         /\ unacked' \in [Consumers -> SUBSET Message]
         /\ open' \in [Consumers -> BOOLEAN]
         /\ lostAcks' \in [Jobs -> Nat]
<1>1. queue' \in SUBSET Message
  BY DEF TypeOK, CloseChannels, PutBack
<1>2. unacked' \in [Consumers -> SUBSET Message] /\ open' \in [Consumers -> BOOLEAN]
  BY ZenonT(30) DEF TypeOK, CloseChannels
<1>3. \A j \in Jobs : HandledAgain(C, j) \in Nat
  BY HandledAgainNat
<1>4. lostAcks' \in [Jobs -> Nat]
  BY <1>3 DEF TypeOK, CloseChannels
<1> QED
  BY <1>1, <1>2, <1>4

(* A free identity is an identity no body in existence has. *)
LEMMA FreshMidFree ==
  ASSUME SomeMidFree
  PROVE  FreshMid \in Mids /\ MidFree(FreshMid)
BY ZenonT(30) DEF SomeMidFree, FreshMid

-----------------------------------------------------------------------------
(* Every step keeps the state well typed and a body in every hand. *)
LEMMA TypeStep ==
  ASSUME TypeInv, [Next]_vars
  PROVE  TypeInv'
<1> USE JobInputs, NoneIsNoMessage DEF TypeInv, InHand
<1>1. ASSUME NEW j \in Jobs, Dispatch(j)
      PROVE  TypeInv'
  <2>1. FreshMid \in Mids
    BY <1>1, FreshMidFree DEF Dispatch
  <2> QED
    BY <1>1, <2>1 DEF TypeOK, Dispatch, Message, workerVars, boundVars
<1>2. ASSUME NEW c \in Consumers, Deliver(c)
      PROVE  TypeInv'
  BY <1>2 DEF TypeOK, Deliver, workerVars, historyVars, boundVars
<1>3. ASSUME NEW c \in Consumers, ChannelDrop(c)
      PROVE  TypeInv'
  <2>1. CloseChannels({c})
    BY <1>3 DEF ChannelDrop
  <2>2. drops' \in 0 .. MaxDrops
    BY <1>3 DEF ChannelDrop, TypeOK
  <2> QED
    BY <1>3, <2>1, <2>2, CloseChannelsType DEF TypeOK, ChannelDrop, workerVars
<1>4. ASSUME NEW c \in Consumers, Consume(c)
      PROVE  TypeInv'
  <2>1. /\ consume' \in [Consumers -> {"registering", "blocked", "done"}]
        /\ loop' \in [Consumers -> {"none", "select", "handling", "settle", "reconnect", "ended"}]
        /\ open' \in [Consumers -> BOOLEAN]
        /\ wg' \in Int
        /\ \A d \in Consumers : loop'[d] \in {"handling", "settle"} => loop[d] = loop'[d]
    <3>1. \/ /\ consume' = [consume EXCEPT ![c] = "blocked"]
             /\ loop' = [loop EXCEPT ![c] = "select"]
             /\ open' = [open EXCEPT ![c] = TRUE]
             /\ UNCHANGED wg
          \/ /\ consume' = [consume EXCEPT ![c] = "done"]
             /\ wg' = wg - 1
             /\ loop' = loop
             /\ open' = open
      BY <1>4, ZenonT(30) DEF Consume
    <3>2. CASE consume' = [consume EXCEPT ![c] = "blocked"] /\ loop' = [loop EXCEPT ![c] = "select"]
      BY <3>1, <3>2, ZenonT(30) DEF TypeOK
    <3>3. CASE consume' = [consume EXCEPT ![c] = "done"] /\ loop' = loop
      BY <3>1, <3>3 DEF TypeOK
    <3> QED
      BY <3>1, <3>2, <3>3
  <2> QED
    BY <1>4, <2>1 DEF TypeOK, Consume, historyVars, boundVars
<1>5. ASSUME NEW c \in Consumers, ConsumeStop(c)
      PROVE  TypeInv'
  BY <1>5 DEF TypeOK, ConsumeStop, brokerVars, historyVars, boundVars
<1>6. ASSUME NEW c \in Consumers, LoopStep(c)
      PROVE  TypeInv'
  <2>1. CASE Receive(c)
    <3>1. PICK m \in buf[c] :
            /\ cur' = [cur EXCEPT ![c] = m]
            /\ IF Type[m.job] = "registered"
               THEN /\ loop' = [loop EXCEPT ![c] = "handling"]
                    /\ runs' = [runs EXCEPT ![m.job] = @ + 1]
                    /\ UNCHANGED finished
               ELSE /\ loop' = [loop EXCEPT ![c] = "settle"]
                    /\ finished' = finished \cup {m.job}
                    /\ UNCHANGED runs
      BY <2>1, ZenonT(30) DEF Receive
    <3>2. m \in Message /\ m.job \in Jobs
      BY DEF TypeOK, Message
    <3> QED
      BY <2>1, <3>1, <3>2 DEF TypeOK, Receive, brokerVars, boundVars
  <2>2. CASE HandlerOk(c)
    <3>1. cur[c].job \in Jobs
      BY <2>2 DEF HandlerOk, Message
    <3> QED
      BY <2>2, <3>1 DEF TypeOK, HandlerOk, brokerVars, boundVars
  <2>3. CASE HandlerFail(c)
    <3> DEFINE m == IncrementAttempts(cur[c], FreshMid)
    <3>1. cur[c] \in Message
      BY <2>3 DEF HandlerFail
    <3>2. m.job = cur[c].job /\ m.job \in Jobs
      BY <3>1 DEF IncrementAttempts, Message
    <3>3. CASE CanRetry(m) /\ SomeMidFree /\ RetryJob(m) /\ UNCHANGED finished
      <4>1. m \in Message
        BY <3>1, <3>3, FreshMidFree DEF IncrementAttempts, Message
      <4>2. retries' \in SUBSET [msg : Message, stage : Stages]
        BY <4>1, <3>3 DEF RetryJob, TypeOK, Stages
      <4> QED
        BY <2>3, <3>3, <4>2 DEF TypeOK, HandlerFail, RetryJob, brokerVars, boundVars
    <3>4. CASE finished' = finished \cup {m.job} /\ UNCHANGED <<retries, wg>>
      BY <2>3, <3>2, <3>4 DEF TypeOK, HandlerFail, brokerVars, boundVars
    <3> QED
      BY <2>3, <3>3, <3>4 DEF HandlerFail
  <2>4. CASE Settle(c)
    BY <2>4 DEF TypeOK, Settle, historyVars, boundVars
  <2>5. CASE LoopStop(c)
    <3>1. CloseChannels({c})
      BY <2>5 DEF LoopStop
    <3> QED
      BY <2>5, <3>1, CloseChannelsType DEF TypeOK, LoopStop, boundVars
  <2>6. CASE LoopLost(c) \/ Reconnect(c) \/ ReconnectHalt(c)
    <3>1. CASE LoopLost(c)
      BY <3>1, ZenonT(20) DEF TypeOK, LoopLost, historyVars, boundVars
    <3>2. CASE Reconnect(c)
      BY <3>2, ZenonT(20) DEF TypeOK, Reconnect, historyVars, boundVars
    <3>3. CASE ReconnectHalt(c)
      BY <3>3, ZenonT(20) DEF TypeOK, ReconnectHalt, brokerVars, historyVars, boundVars
    <3> QED
      BY <2>6, <3>1, <3>2, <3>3
  <2> QED
    BY <1>6, <2>1, <2>2, <2>3, <2>4, <2>5, <2>6 DEF LoopStep
<1>7. ASSUME NEW r \in retries, RetryStep(r)
      PROVE  TypeInv'
  <2>1. r \in [msg : Message, stage : Stages] /\ r.msg \in Message /\ r.msg.job \in Jobs
    BY DEF TypeOK, Message
  <2>2. \A s \in Stages : [msg |-> r.msg, stage |-> s] \in [msg : Message, stage : Stages]
    BY <2>1
  <2>3. CASE RetryFire(r)
    BY <2>2, <2>3 DEF TypeOK, RetryFire, RetryMove, Stages, brokerVars, historyVars, boundVars
  <2>4. CASE RetryCancel(r)
    BY <2>1, <2>4 DEF TypeOK, RetryCancel, RetryExit, brokerVars, boundVars
  <2>5. CASE RetryCheck(r)
    BY <2>1, <2>2, <2>5 DEF TypeOK, RetryCheck, RetryMove, RetryExit, Stages, brokerVars, boundVars
  <2>6. CASE RetryPublish(r)
    BY <2>1, <2>6 DEF TypeOK, RetryPublish, RetryExit, boundVars
  <2> QED
    BY <1>7, <2>3, <2>4, <2>5, <2>6 DEF RetryStep
<1>8. ASSUME MainStep
      PROVE  TypeInv'
  <2>1. CASE Shutdown \/ ShutdownDone \/ ShutdownTimeout
    BY <2>1, ZenonT(30) DEF TypeOK, Shutdown, ShutdownDone, ShutdownTimeout, brokerVars, historyVars, boundVars
  <2>2. CASE CloseQueue
    BY <2>2, CloseChannelsType DEF TypeOK, CloseQueue, boundVars
  <2>3. CASE Die
    <3>1. {r.msg.job : r \in retries} \subseteq Jobs
      BY DEF TypeOK, Message
    <3>2. CloseChannels(Consumers)
      BY <2>3 DEF Die
    <3> QED
      BY <2>3, <3>1, <3>2, CloseChannelsType DEF TypeOK, Die, boundVars
  <2>4. CASE Boot
    <3>1. Cardinality(Consumers) \in Int
      BY ConsumersFinite, FS_CardinalityType
    <3>2. /\ consume' \in [Consumers -> {"registering", "blocked", "done"}]
          /\ loop' \in [Consumers -> {"none", "select", "handling", "settle", "reconnect", "ended"}]
          /\ cur' \in [Consumers -> Message \cup {None}]
          /\ retries' \in SUBSET [msg : Message, stage : Stages]
      BY <2>4 DEF Boot
    <3>3. boots' \in 0 .. MaxBoots
      BY <2>4 DEF Boot, TypeOK
    <3>4. InHand'
      BY <2>4 DEF Boot
    <3> QED
      BY <2>4, <3>1, <3>2, <3>3, <3>4, ZenonT(30) DEF TypeOK, Boot, brokerVars, historyVars
  <2> QED
    BY <1>8, <2>1, <2>2, <2>3, <2>4 DEF MainStep, Exit, Crash
<1>9. CASE UNCHANGED vars
  BY <1>9 DEF TypeOK, vars, brokerVars, workerVars, historyVars, boundVars
<1> QED
  BY <1>1, <1>2, <1>3, <1>4, <1>5, <1>6, <1>7, <1>8, <1>9 DEF Next, ConsumeStep

(* A worker that has just started is well typed. *)
LEMMA TypeInit == Init => TypeInv
<1>1. Cardinality(Consumers) \in Int
  BY ConsumersFinite, FS_CardinalityType
<1> SUFFICES ASSUME Init PROVE TypeOK /\ InHand
  BY DEF TypeInv
<1>2. /\ consume \in [Consumers -> {"registering", "blocked", "done"}]
      /\ loop \in [Consumers -> {"none", "select", "handling", "settle", "reconnect", "ended"}]
      /\ cur \in [Consumers -> Message \cup {None}]
      /\ retries \in SUBSET [msg : Message, stage : Stages]
      /\ unacked \in [Consumers -> SUBSET Message]
  BY DEF Init, Started
<1>3. boots \in 0 .. MaxBoots /\ drops \in 0 .. MaxDrops
  BY JobInputs DEF Init
<1>4. InHand
  BY DEF Init, Started, InHand
<1> QED
  BY <1>1, <1>2, <1>3, <1>4, ZenonT(30) DEF Init, Started, TypeOK

(* The state of the worker is well typed in every reachable state. *)
THEOREM TypeCorrect == Spec => []TypeOK
<1>1. TypeInv /\ [Next]_vars => TypeInv'
  BY TypeStep
<1> QED
  BY <1>1, TypeInit, PTL DEF Spec, TypeInv

-----------------------------------------------------------------------------
Pending == {c \in Consumers : consume[c] # "done"}

(* The inductive strengthening for the wait group and for shutdown: retry  *)
(* goroutines are told apart by their body, and the context is cancelled   *)
(* as soon as main leaves "running".                                       *)
WgInv ==
  /\ IsFiniteSet(retries)
  /\ wg = Cardinality(Pending) + Cardinality(retries)
  /\ \A r, s \in retries : r.msg.mid = s.msg.mid => r = s
  /\ main # "running" => ctxDone
  /\ NoPublishAfterShutdown

(* The consume goroutines that have not returned can be counted. *)
LEMMA PendingFinite == IsFiniteSet(Pending) /\ Cardinality(Pending) \in Nat
<1>1. Pending \subseteq Consumers
  BY DEF Pending
<1> QED
  BY <1>1, ConsumersFinite, FS_Subset, FS_CardinalityType

(* A consume goroutine that returns leaves the group smaller by one. *)
LEMMA ConsumeReturns ==
  ASSUME TypeOK, NEW c \in Consumers, consume[c] # "done",
         consume' = [consume EXCEPT ![c] = "done"]
  PROVE  Cardinality(Pending') = Cardinality(Pending) - 1
<1>1. Pending' = Pending \ {c} /\ c \in Pending
  BY DEF Pending, TypeOK
<1> QED
  BY <1>1, PendingFinite, FS_RemoveElement

(* A retry goroutine that returns, and one that moves to another stage. *)
LEMMA RetryReturns ==
  ASSUME WgInv, NEW r \in retries, RetryExit(r), UNCHANGED consume
  PROVE  /\ IsFiniteSet(retries')
         /\ wg' = Cardinality(Pending') + Cardinality(retries')
         /\ \A s, t \in retries' : s.msg.mid = t.msg.mid => s = t
<1>1. IsFiniteSet(retries') /\ Cardinality(retries') = Cardinality(retries) - 1
  BY FS_RemoveElement DEF RetryExit, WgInv
<1>2. Pending' = Pending
  BY DEF Pending
<1>3. Cardinality(retries) \in Nat
  BY FS_CardinalityType DEF WgInv
<1> QED
  BY <1>1, <1>2, <1>3, PendingFinite DEF WgInv, RetryExit

(* A retry goroutine that moves to another stage is still one goroutine. *)
LEMMA RetryMoves ==
  ASSUME TypeOK, WgInv, NEW r \in retries, NEW stage, RetryMove(r, stage), UNCHANGED consume
  PROVE  /\ IsFiniteSet(retries')
         /\ wg' = Cardinality(Pending') + Cardinality(retries')
         /\ \A s, t \in retries' : s.msg.mid = t.msg.mid => s = t
<1> DEFINE rest == retries \ {r}
           q == [msg |-> r.msg, stage |-> stage]
<1>1. IsFiniteSet(rest) /\ Cardinality(rest) = Cardinality(retries) - 1
  BY FS_RemoveElement DEF WgInv
<1>2. \A s \in rest : s.msg.mid # q.msg.mid
  BY DEF WgInv
<1>3. q \notin rest
  BY <1>2
<1>4. retries' = rest \cup {q}
  BY DEF RetryMove
<1>5. IsFiniteSet(retries') /\ Cardinality(retries') = Cardinality(rest) + 1
  <2> HIDE DEF rest, q
  <2> QED
    BY <1>1, <1>3, <1>4, FS_AddElement
<1>6. Pending' = Pending
  BY DEF Pending
<1>7. Cardinality(retries) \in Nat
  BY FS_CardinalityType DEF WgInv
<1>8. \A s, t \in retries' : s.msg.mid = t.msg.mid => s = t
  BY <1>2, <1>4 DEF WgInv
<1> QED
  BY <1>1, <1>5, <1>6, <1>7, <1>8, PendingFinite DEF WgInv, RetryMove

(* Every step keeps the wait group exact and the shutdown guarantee. *)
LEMMA WgStep ==
  ASSUME TypeInv, WgInv, [Next]_vars
  PROVE  WgInv'
<1> USE DEF TypeInv, NoPublishAfterShutdown
<1>0. ASSUME UNCHANGED <<consume, retries, wg, ctxDone, main>>
      PROVE  WgInv'
  <2>1. Pending' = Pending
    BY <1>0 DEF Pending
  <2> QED
    BY <1>0, <2>1 DEF WgInv
<1>1. ASSUME NEW j \in Jobs, Dispatch(j)
      PROVE  WgInv'
  BY <1>0, <1>1 DEF Dispatch, workerVars
<1>2. ASSUME NEW c \in Consumers, Deliver(c) \/ ChannelDrop(c)
      PROVE  WgInv'
  BY <1>0, <1>2 DEF Deliver, ChannelDrop, workerVars
<1>3. ASSUME NEW c \in Consumers, ConsumeStep(c)
      PROVE  WgInv'
  <2>1. CASE /\ consume[c] = "registering"
             /\ consume' = [consume EXCEPT ![c] = "blocked"]
             /\ UNCHANGED <<retries, wg, ctxDone, main>>
    <3>1. Pending' = Pending
      BY <2>1 DEF Pending, TypeOK
    <3> QED
      BY <2>1, <3>1 DEF WgInv
  <2>2. CASE /\ consume[c] # "done"
             /\ consume' = [consume EXCEPT ![c] = "done"]
             /\ wg' = wg - 1
             /\ UNCHANGED <<retries, ctxDone, main>>
    <3>1. Cardinality(Pending') = Cardinality(Pending) - 1
      BY <2>2, ConsumeReturns, ZenonT(30)
    <3>2. Cardinality(retries) \in Nat
      BY FS_CardinalityType DEF WgInv
    <3> QED
      BY <2>2, <3>1, <3>2, PendingFinite DEF WgInv
  <2> QED
    BY <1>3, <2>1, <2>2, ZenonT(30) DEF ConsumeStep, Consume, ConsumeStop
<1>4. ASSUME NEW c \in Consumers, LoopStep(c)
      PROVE  WgInv'
  <2>1. CASE HandlerFail(c)
    <3> DEFINE m == IncrementAttempts(cur[c], FreshMid)
               q == [msg |-> m, stage |-> "backoff"]
    <3>1. CASE SomeMidFree /\ RetryJob(m)
      <4>1. m.mid = FreshMid /\ MidFree(FreshMid)
        BY <3>1, FreshMidFree DEF IncrementAttempts
      <4>2. \A r \in retries : r.msg \in Held /\ r.msg # None
        <5>1. \A r \in retries : r.msg \in Held
          <6> DEFINE msgs == {x.msg : x \in retries}
          <6>1. \A r \in retries : r.msg \in msgs
            OBVIOUS
          <6>2. msgs \subseteq Held
            BY DEF Held
          <6> QED
            BY <6>1, <6>2
        <5>2. \A r \in retries : r.msg \in Message
          BY DEF TypeOK
        <5> QED
          BY <5>1, <5>2, NoneIsNoMessage
      <4>3. \A r \in retries : r.msg.mid # m.mid
        BY <4>1, <4>2 DEF MidFree
      <4>4. retries' = retries \cup {q} /\ q \notin retries
        BY <3>1, <4>3 DEF RetryJob
      <4>5. IsFiniteSet(retries') /\ Cardinality(retries') = Cardinality(retries) + 1
        <5> HIDE DEF q
        <5> QED
          BY <4>4, FS_AddElement DEF WgInv
      <4>6. Pending' = Pending
        BY <2>1 DEF HandlerFail, Pending
      <4>7. \A r, s \in retries' : r.msg.mid = s.msg.mid => r = s
        BY <4>3, <4>4 DEF WgInv
      <4>8. \A r \in retries' : r \in retries \/ r.stage = "backoff"
        BY <4>4
      <4>9. Cardinality(retries) \in Nat
        BY FS_CardinalityType DEF WgInv
      <4>10. wg' = Cardinality(Pending') + Cardinality(retries')
        BY <3>1, <4>5, <4>6, <4>9, PendingFinite DEF WgInv, RetryJob
      <4>11. UNCHANGED <<ctxDone, main>>
        BY <2>1 DEF HandlerFail
      <4> QED
        BY <4>5, <4>7, <4>8, <4>10, <4>11 DEF WgInv
    <3>2. CASE UNCHANGED <<retries, wg>>
      BY <1>0, <2>1, <3>2 DEF HandlerFail
    <3> QED
      BY <2>1, <3>1, <3>2 DEF HandlerFail
  <2>2. CASE ~HandlerFail(c)
    BY <1>0, <1>4, <2>2
       DEF LoopStep, Receive, HandlerOk, Settle, LoopStop, LoopLost, Reconnect, ReconnectHalt
  <2> QED
    BY <2>1, <2>2
<1>5. ASSUME NEW r \in retries, RetryStep(r)
      PROVE  WgInv'
  <2>0. UNCHANGED <<consume, ctxDone, main>>
    BY <1>5 DEF RetryStep, RetryFire, RetryCancel, RetryCheck, RetryPublish
  <2>1. CASE RetryExit(r)
    <3>1. NoPublishAfterShutdown'
      BY <2>0, <2>1 DEF WgInv, RetryExit
    <3> QED
      BY <2>0, <2>1, <3>1, RetryReturns DEF WgInv
  <2>2. CASE RetryFire(r)
    <3>1. RetryMove(r, "fired")
      BY <2>2 DEF RetryFire
    <3>2. NoPublishAfterShutdown'
      BY <2>0, <3>1 DEF WgInv, RetryMove
    <3> QED
      BY <2>0, <3>1, <3>2, RetryMoves DEF WgInv
  <2>3. CASE ~ctxDone /\ RetryMove(r, "publish")
    <3>1. NoPublishAfterShutdown'
      BY <2>0, <2>3 DEF WgInv
    <3> QED
      BY <2>0, <2>3, <3>1, RetryMoves DEF WgInv
  <2> QED
    BY <1>5, <2>1, <2>2, <2>3 DEF RetryStep, RetryCancel, RetryCheck, RetryPublish
<1>6. ASSUME MainStep
      PROVE  WgInv'
  <2>1. CASE Shutdown \/ ShutdownTimeout \/ CloseQueue
    <3>1. Pending' = Pending
      BY <2>1 DEF Pending, Shutdown, ShutdownTimeout, CloseQueue
    <3> QED
      BY <2>1, <3>1 DEF WgInv, Shutdown, ShutdownTimeout, CloseQueue
  <2>2. CASE ShutdownDone
    <3>1. Pending' = Pending
      BY <2>2 DEF Pending, ShutdownDone
    <3>2. Cardinality(retries) \in Nat
      BY FS_CardinalityType DEF WgInv
    <3>3. Cardinality(retries) = 0
      BY <2>2, <3>2, PendingFinite DEF ShutdownDone, WgInv
    <3>4. retries = {}
      BY <3>3, FS_EmptySet DEF WgInv
    <3> QED
      BY <2>2, <3>1, <3>4 DEF WgInv, ShutdownDone
  <2>3. CASE Die
    <3>1. Pending' = {} /\ retries' = {}
      BY <2>3 DEF Die, Pending
    <3> QED
      BY <2>3, <3>1, FS_EmptySet DEF WgInv, Die
  <2>4. CASE Boot
    <3>1. Pending' = Consumers /\ retries' = {}
      BY <2>4 DEF Boot, Pending
    <3>2. Cardinality(Consumers) \in Nat
      BY ConsumersFinite, FS_CardinalityType
    <3> QED
      BY <2>4, <3>1, <3>2, FS_EmptySet DEF WgInv, Boot
  <2> QED
    BY <1>6, <2>1, <2>2, <2>3, <2>4 DEF MainStep, Exit, Crash
<1>7. CASE UNCHANGED vars
  BY <1>0, <1>7 DEF vars, workerVars
<1> QED
  BY <1>1, <1>2, <1>3, <1>4, <1>5, <1>6, <1>7 DEF Next

(* Start adds one for each consume goroutine. *)
LEMMA WgInit == Init => WgInv
<1> SUFFICES ASSUME Init PROVE WgInv
  OBVIOUS
<1>1. Pending = Consumers /\ retries = {}
  BY DEF Init, Started, Pending
<1>2. Cardinality(Consumers) \in Nat
  BY ConsumersFinite, FS_CardinalityType
<1> QED
  BY <1>1, <1>2, FS_EmptySet DEF Init, Started, WgInv, NoPublishAfterShutdown

(* The wait group Shutdown waits on counts the live goroutines exactly, in *)
(* every reachable state: it is never negative, which would panic, and     *)
(* reaches zero only when all of them are gone.                            *)
THEOREM WaitGroupExact == Spec => []WgExact
<1>1. Init => TypeInv /\ WgInv
  BY WgInit, TypeInit
<1>2. TypeInv /\ WgInv /\ [Next]_vars => (TypeInv /\ WgInv)'
  BY TypeStep, WgStep
<1>3. WgInv => WgExact
  BY DEF WgInv, WgExact, Pending
<1> QED
  BY <1>1, <1>2, <1>3, PTL DEF Spec

(* No retry is published once Shutdown has returned without a timeout. *)
THEOREM ShutdownStopsPublishing == Spec => []NoPublishAfterShutdown
<1>1. Init => TypeInv /\ WgInv
  BY WgInit, TypeInit
<1>2. TypeInv /\ WgInv /\ [Next]_vars => (TypeInv /\ WgInv)'
  BY TypeStep, WgStep
<1> QED
  BY <1>1, <1>2, PTL DEF Spec, WgInv

-----------------------------------------------------------------------------
(* What has become of a body that is handled: its job is settled, or goes  *)
(* on as a body with a higher attempt count.  The count is what makes this *)
(* inductive: two consumers can each be about to ack a body of one job,    *)
(* and without it each could count on the body the other is about to ack.  *)
Resolved(m) ==
  \/ m.job \in finished
  \/ m.job \in dropped /\ runs[m.job] > 0
  \/ \E n \in Held : n.job = m.job /\ n.attempts > m.attempts

LossInv ==
  /\ NoSilentLoss
  /\ \A r \in retries : runs[r.msg.job] > 0
  /\ \A c \in Consumers : loop[c] = "handling" => runs[cur[c].job] > 0
  /\ \A c \in Consumers : loop[c] = "settle" => Resolved(cur[c])

(* Closing channels moves bodies, and neither loses nor creates one. *)
LEMMA HeldAfterClose ==
  ASSUME TypeOK, NEW C \in SUBSET Consumers, CloseChannels(C), UNCHANGED retries
  PROVE  Held' = Held
<1>1. ASSUME NEW m
      PROVE  m \in queue' \cup (UNION {unacked'[c] : c \in Consumers})
             <=> m \in queue \cup (UNION {unacked[c] : c \in Consumers})
  BY DEF CloseChannels, PutBack, TypeOK
<1> QED
  BY <1>1 DEF Held

(* What is held anywhere is a message. *)
LEMMA HeldTyped == TypeOK => Held \subseteq Message
BY DEF Held, TypeOK

(* A step that only adds to the histories, and drops a body only when that *)
(* body is resolved, keeps every accepted job and every handled body safe. *)
LEMMA ResolvedPreserved ==
  ASSUME TypeOK, TypeOK', NoSilentLoss,
         finished \subseteq finished', dropped \subseteq dropped',
         \A j \in Jobs : runs'[j] >= runs[j],
         \A n \in Held : n \in Held' \/ Resolved(n)'
  PROVE  /\ \A j \in accepted : \/ j \in finished'
                                \/ \E m \in Held' : m.job = j
                                \/ j \in dropped' /\ runs'[j] > 0
         /\ \A m \in Message : Resolved(m) => Resolved(m)'
<1>0. Held \subseteq Message /\ Held' \subseteq Message
  BY HeldTyped DEF Held, TypeOK
<1>1. ASSUME NEW j \in Jobs, j \in dropped, runs[j] > 0
      PROVE  j \in dropped' /\ runs'[j] > 0
  BY <1>1 DEF TypeOK
<1>2. ASSUME NEW m \in Message, Resolved(m)
      PROVE  Resolved(m)'
  <2>1. m.job \in Jobs /\ m.attempts \in Nat
    BY DEF Message
  <2>2. CASE m.job \in finished
    BY <2>2 DEF Resolved
  <2>3. CASE m.job \in dropped /\ runs[m.job] > 0
    BY <1>1, <2>1, <2>3 DEF Resolved
  <2>4. CASE \E n \in Held : n.job = m.job /\ n.attempts > m.attempts
    <3>1. PICK n \in Held : n.job = m.job /\ n.attempts > m.attempts
      BY <2>4
    <3>2. n.attempts \in Nat
      BY <1>0 DEF Message
    <3>3. CASE n \in Held'
      BY <3>1, <3>3 DEF Resolved
    <3>4. CASE Resolved(n)'
      <4>1. \A k \in Held' : k.attempts \in Nat
        BY <1>0 DEF Message
      <4> QED
        BY <2>1, <3>1, <3>2, <3>4, <4>1 DEF Resolved
    <3> QED
      BY <3>3, <3>4
  <2> QED
    BY <1>2, <2>2, <2>3, <2>4 DEF Resolved
<1>3. ASSUME NEW j \in accepted
      PROVE  \/ j \in finished'
             \/ \E m \in Held' : m.job = j
             \/ j \in dropped' /\ runs'[j] > 0
  <2>1. j \in Jobs
    BY DEF TypeOK
  <2>2. CASE j \in finished
    BY <2>2
  <2>3. CASE j \in dropped /\ runs[j] > 0
    BY <1>1, <2>1, <2>3
  <2>4. CASE \E m \in Held : m.job = j
    <3>1. PICK m \in Held : m.job = j
      BY <2>4
    <3> QED
      BY <3>1 DEF Resolved
  <2> QED
    BY <2>2, <2>3, <2>4 DEF NoSilentLoss
<1> QED
  BY <1>2, <1>3

(* The shape of a step that keeps LossInv: what each action is checked for. *)
LEMMA LossFromParts ==
  ASSUME TypeInv, TypeInv', LossInv,
         accepted' = accepted,
         finished \subseteq finished', dropped \subseteq dropped',
         \A j \in Jobs : runs'[j] >= runs[j],
         \A n \in Held : n \in Held' \/ Resolved(n)',
         \A r \in retries' : r \in retries \/ runs'[r.msg.job] > 0,
         \A c \in Consumers : loop'[c] = "handling" =>
           (loop[c] = "handling" /\ cur'[c] = cur[c]) \/ runs'[cur'[c].job] > 0,
         \A c \in Consumers : loop'[c] = "settle" =>
           (loop[c] = "settle" /\ cur'[c] = cur[c]) \/ \E m \in Message : cur'[c] = m /\ Resolved(m)'
  PROVE  LossInv'
<1>1. NoSilentLoss' /\ \A m \in Message : Resolved(m) => Resolved(m)'
  BY ResolvedPreserved, ZenonT(30) DEF TypeInv, LossInv, NoSilentLoss
<1>2. \A r \in retries' : runs'[r.msg.job] > 0
  BY DEF LossInv, TypeInv, TypeOK, Message
<1>3. ASSUME NEW c \in Consumers, loop'[c] = "handling"
      PROVE  runs'[cur'[c].job] > 0
  <2>1. CASE loop[c] = "handling" /\ cur'[c] = cur[c]
    <3>1. PICK j \in Jobs : j = cur[c].job /\ runs[j] > 0
      BY <2>1 DEF TypeInv, InHand, Message, LossInv
    <3>2. runs[j] \in Nat /\ runs'[j] \in Nat /\ runs'[j] >= runs[j]
      BY DEF TypeInv, TypeOK
    <3> QED
      BY <2>1, <3>1, <3>2
  <2> QED
    BY <1>3, <2>1
<1>4. ASSUME NEW c \in Consumers, loop'[c] = "settle"
      PROVE  Resolved(cur[c])'
  <2>1. PICK m \in Message : cur'[c] = m /\ Resolved(m)'
    <3>1. CASE loop[c] = "settle" /\ cur'[c] = cur[c]
      <4>1. cur[c] \in Message /\ Resolved(cur[c])
        BY <3>1, ZenonT(30) DEF TypeInv, InHand, LossInv
      <4>2. PICK m \in Message : m = cur[c]
        BY <4>1, ZenonT(30)
      <4>3. Resolved(m)
        BY <4>1, <4>2
      <4> QED
        BY <1>1, <3>1, <4>2, <4>3, ZenonT(30)
    <3> QED
      BY <1>4, <3>1, ZenonT(30)
  <2> QED
    BY <2>1 DEF Resolved
<1> QED
  BY <1>1, <1>2, <1>3, <1>4 DEF LossInv

(* A process that is down has no retry goroutine. *)
DownInv == main = "down" => retries = {}

(* The retry goroutines die with their process. *)
LEMMA DownStep ==
  ASSUME DownInv, [Next]_vars
  PROVE  DownInv'
<1>1. CASE Alive /\ main' = main
  BY <1>1 DEF Alive, DownInv
<1>2. CASE UNCHANGED <<main, retries>>
  BY <1>2 DEF DownInv
<1>3. ASSUME MainStep PROVE DownInv'
  BY <1>3 DEF MainStep, Shutdown, ShutdownDone, ShutdownTimeout, CloseQueue, Exit, Crash, Die, Boot, DownInv
<1>4. ASSUME NEW c \in Consumers, LoopStep(c)
      PROVE  Alive /\ main' = main
  BY <1>4, ZenonT(30) DEF LoopStep, Receive, HandlerOk, HandlerFail, Settle, LoopStop, LoopLost, Reconnect,
              ReconnectHalt
<1>5. ASSUME NEW c \in Consumers, ConsumeStep(c)
      PROVE  UNCHANGED <<main, retries>>
  BY <1>5 DEF ConsumeStep, Consume, ConsumeStop
<1>6. ASSUME NEW r \in retries, RetryStep(r)
      PROVE  Alive /\ main' = main
  BY <1>6 DEF RetryStep, RetryFire, RetryCancel, RetryCheck, RetryPublish
<1>7. ASSUME NEW c \in Consumers, Deliver(c) \/ ChannelDrop(c)
      PROVE  UNCHANGED <<main, retries>>
  BY <1>7 DEF Deliver, ChannelDrop, workerVars
<1>8. ASSUME NEW j \in Jobs, Dispatch(j)
      PROVE  UNCHANGED <<main, retries>>
  BY <1>8 DEF Dispatch, workerVars
<1> QED
  BY <1>1, <1>2, <1>3, <1>4, <1>5, <1>6, <1>7, <1>8 DEF Next, vars, workerVars

(* Every step keeps LossInv. *)
LEMMA LossStep ==
  ASSUME TypeInv, TypeInv', DownInv, LossInv, [Next]_vars
  PROVE  LossInv'
<1> USE DEF TypeInv
<1>0. \A j \in Jobs : runs[j] >= runs[j]
  BY DEF TypeOK
<1>t. /\ runs \in [Jobs -> Nat] /\ cur \in [Consumers -> Message \cup {None}]
      /\ loop \in [Consumers -> {"none", "select", "handling", "settle", "reconnect", "ended"}]
  BY DEF TypeOK
<1>1. ASSUME NEW j \in Jobs, Dispatch(j)
      PROVE  LossInv'
  <2> DEFINE m == [mid |-> FreshMid, job |-> j, attempts |-> 0]
  <2>1. Held \subseteq Held' /\ m \in Held'
    BY <1>1 DEF Dispatch, Held, workerVars
  <2>2. /\ finished' = finished /\ dropped' = dropped /\ runs' = runs
        /\ retries' = retries /\ loop' = loop /\ cur' = cur
    BY <1>1 DEF Dispatch, workerVars
  <2>3. /\ \A i \in accepted : \/ i \in finished'
                               \/ \E n \in Held' : n.job = i
                               \/ i \in dropped' /\ runs'[i] > 0
        /\ \A n \in Message : Resolved(n) => Resolved(n)'
    BY <1>0, <2>1, <2>2, ResolvedPreserved DEF LossInv
  <2>4. NoSilentLoss'
    BY <1>1, <2>1, <2>3 DEF NoSilentLoss, Dispatch
  <2>5. \A c \in Consumers : loop[c] = "settle" => Resolved(cur[c])'
    <3> SUFFICES ASSUME NEW c \in Consumers, loop[c] = "settle" PROVE Resolved(cur[c])'
      OBVIOUS
    <3>1. PICK n \in Message : n = cur[c] /\ Resolved(n)
      BY DEF InHand, LossInv
    <3> QED
      BY <2>2, <2>3, <3>1 DEF Resolved
  <2> QED
    BY <2>2, <2>4, <2>5 DEF LossInv
<1>2. ASSUME Held \subseteq Held', UNCHANGED <<accepted, finished, dropped, runs, retries, cur>>,
             \A c \in Consumers : loop'[c] \in {"handling", "settle"} => loop'[c] = loop[c]
      PROVE  LossInv'
  BY <1>0, <1>2, LossFromParts, ZenonT(30)
<1>3. ASSUME NEW c \in Consumers, Deliver(c)
      PROVE  LossInv'
  <2>1. PICK m \in queue : queue' = queue \ {m} /\ unacked' = [unacked EXCEPT ![c] = @ \cup {m}]
    BY <1>3, ZenonT(30) DEF Deliver
  <2>2. m \in unacked'[c] /\ \A d \in Consumers : unacked[d] \subseteq unacked'[d]
    BY <2>1 DEF TypeOK
  <2>3. retries' = retries
    BY <1>3 DEF Deliver, workerVars
  <2>4. Held \subseteq Held'
    BY <2>1, <2>2, <2>3 DEF Held
  <2> QED
    BY <1>2, <1>3, <2>4 DEF Deliver, workerVars, historyVars
<1>4. ASSUME NEW c \in Consumers, ChannelDrop(c) \/ LoopStop(c)
      PROVE  LossInv'
  <2>1. Held' = Held
    BY <1>4, HeldAfterClose DEF ChannelDrop, LoopStop, workerVars
  <2> QED
    BY <1>2, <1>4, <2>1 DEF ChannelDrop, LoopStop, workerVars, TypeOK
<1>5. ASSUME NEW c \in Consumers,
             ConsumeStep(c) \/ LoopLost(c) \/ Reconnect(c) \/ ReconnectHalt(c)
      PROVE  LossInv'
  <2>1. UNCHANGED <<queue, unacked, retries, accepted, finished, dropped, runs, cur>>
    BY <1>5 DEF ConsumeStep, Consume, ConsumeStop, LoopLost, Reconnect, ReconnectHalt,
                brokerVars, historyVars
  <2>2. Held' = Held
    BY <2>1 DEF Held
  <2>3. \A d \in Consumers : loop'[d] \in {"handling", "settle"} => loop'[d] = loop[d]
    BY <1>5, ZenonT(30) DEF ConsumeStep, Consume, ConsumeStop, LoopLost, Reconnect, ReconnectHalt, TypeOK
  <2> QED
    BY <1>2, <2>1, <2>2, <2>3
<1>6. ASSUME NEW c \in Consumers, Receive(c)
      PROVE  LossInv'
  <2>1. Held' = Held /\ retries' = retries
    <3>1. UNCHANGED <<queue, unacked, retries>>
      BY <1>6 DEF Receive
    <3> QED
      BY <3>1 DEF Held
  <2>2. PICK m \in buf[c] :
          /\ cur' = [cur EXCEPT ![c] = m]
          /\ \/ /\ loop' = [loop EXCEPT ![c] = "handling"]
                /\ runs' = [runs EXCEPT ![m.job] = @ + 1]
                /\ finished' = finished
             \/ /\ loop' = [loop EXCEPT ![c] = "settle"]
                /\ finished' = finished \cup {m.job}
                /\ runs' = runs
    BY <1>6, ZenonT(30) DEF Receive
  <2>3. m \in Message /\ m.job \in Jobs
    <3>1. m \in Message
      BY DEF TypeOK
    <3> QED
      BY <3>1 DEF Message
  <2>4. \A j \in Jobs : runs'[j] >= runs[j]
    BY <1>t, <2>2, <2>3
  <2>5. CASE loop' = [loop EXCEPT ![c] = "handling"]
    <3>1. runs'[m.job] > 0 /\ cur'[c] = m
      <4>1. loop'[c] = "handling"
        BY <1>t, <2>5
      <4>2. runs' = [runs EXCEPT ![m.job] = @ + 1]
        BY <1>t, <2>2, <4>1
      <4> QED
        BY <1>t, <2>2, <2>3, <4>2
    <3>2. \A d \in Consumers : d # c => cur'[d] = cur[d] /\ loop'[d] = loop[d]
      BY <2>2, <2>5 DEF TypeOK
    <3>3. loop'[c] = "handling"
      BY <2>5 DEF TypeOK
    <3> QED
      BY <1>6, <2>1, <2>2, <2>4, <3>1, <3>2, <3>3, LossFromParts DEF Receive
  <2>6. CASE loop' = [loop EXCEPT ![c] = "settle"] /\ finished' = finished \cup {m.job}
    <3>1. Resolved(m)' /\ cur'[c] = m
      BY <2>2, <2>6 DEF TypeOK, Resolved
    <3>2. \A d \in Consumers : d # c => cur'[d] = cur[d] /\ loop'[d] = loop[d]
      BY <2>2, <2>6 DEF TypeOK
    <3>3. loop'[c] = "settle"
      BY <2>6 DEF TypeOK
    <3> QED
      BY <1>6, <2>1, <2>2, <2>3, <2>4, <2>6, <3>1, <3>2, <3>3, LossFromParts, ZenonT(30) DEF Receive
  <2> QED
    BY <2>2, <2>5, <2>6
<1>7. ASSUME NEW c \in Consumers, HandlerOk(c)
      PROVE  LossInv'
  <2>1. Held' = Held /\ retries' = retries /\ cur' = cur
    BY <1>7 DEF HandlerOk, Held, brokerVars
  <2>2. PICK m \in Message : m = cur[c]
    BY <1>7, ZenonT(30) DEF HandlerOk, InHand
  <2>3. Resolved(m)'
    BY <1>7, <2>2 DEF HandlerOk, Resolved
  <2>4. \A d \in Consumers : d # c => loop'[d] = loop[d]
    BY <1>7 DEF HandlerOk, TypeOK
  <2>5. loop'[c] = "settle"
    BY <1>7 DEF HandlerOk, TypeOK
  <2> QED
    BY <1>0, <1>7, <2>1, <2>2, <2>3, <2>4, <2>5, LossFromParts DEF HandlerOk
<1>8. ASSUME NEW c \in Consumers, HandlerFail(c)
      PROVE  LossInv'
  <2>1. PICK m \in Message : m = cur[c]
    BY <1>8 DEF HandlerFail, InHand
  <2> DEFINE n == IncrementAttempts(m, FreshMid)
             q == [msg |-> n, stage |-> "backoff"]
  <2>2. /\ n.job = m.job /\ n.attempts > m.attempts /\ m.job \in Jobs
        /\ runs[m.job] > 0
    <3>1. m.job \in Jobs /\ m.attempts \in Nat
      BY DEF Message
    <3>2. runs[m.job] > 0
      BY <1>8, <2>1, ZenonT(30) DEF HandlerFail, LossInv
    <3> QED
      BY <3>1, <3>2 DEF IncrementAttempts
  <2>3. /\ UNCHANGED <<queue, unacked, accepted, dropped, runs, cur>>
        /\ loop' = [loop EXCEPT ![c] = "settle"]
        /\ \/ retries' = retries \cup {q} /\ finished' = finished
           \/ retries' = retries /\ finished' = finished \cup {n.job}
    BY <1>8, <2>1 DEF HandlerFail, RetryJob, brokerVars
  <2>4. Held \subseteq Held' /\ finished \subseteq finished'
    BY <2>3, ZenonT(30) DEF Held
  <2>5. Resolved(m)'
    <3>1. CASE retries' = retries \cup {q}
      <4>1. n \in {r.msg : r \in retries'}
        <5>1. q \in retries' /\ q.msg = n
          BY <3>1
        <5> HIDE DEF n, q
        <5> QED
          BY <5>1
      <4>2. n \in Held'
        <5> HIDE DEF n, q
        <5> QED
          BY <4>1 DEF Held
      <4> QED
        BY <2>2, <4>2 DEF Resolved
    <3>2. CASE finished' = finished \cup {n.job}
      BY <2>2, <3>2 DEF Resolved
    <3> QED
      BY <2>3, <3>1, <3>2
  <2>6. \A d \in Consumers : d # c => loop'[d] = loop[d]
    BY <2>3, ZenonT(30) DEF TypeOK
  <2>7. loop'[c] = "settle"
    BY <2>3, ZenonT(30) DEF TypeOK
  <2>8. \A r \in retries' : r \in retries \/ runs'[r.msg.job] > 0
    <3>1. q.msg.job = m.job
      BY <2>2
    <3> HIDE DEF n, q
    <3>2. \A r \in retries' : r \in retries \/ r = q
      BY <2>3
    <3>3. runs'[q.msg.job] > 0
      BY <2>2, <2>3, <3>1, ZenonT(30)
    <3> QED
      BY <3>2, <3>3
  <2> HIDE DEF n, q
  <2>9. \A d \in Consumers : loop'[d] = "handling" => loop[d] = "handling" /\ cur'[d] = cur[d]
    BY <2>3, <2>6, <2>7
  <2>10. \A d \in Consumers : loop'[d] = "settle" =>
           (loop[d] = "settle" /\ cur'[d] = cur[d]) \/ \E k \in Message : cur'[d] = k /\ Resolved(k)'
    BY <2>1, <2>3, <2>5, <2>6
  <2>11. /\ accepted' = accepted /\ dropped \subseteq dropped'
         /\ \A j \in Jobs : runs'[j] >= runs[j]
    BY <1>t, <2>3
  <2> QED
    BY <1>0, <2>3, <2>4, <2>8, <2>9, <2>10, <2>11, LossFromParts, ZenonT(30)
<1>9. ASSUME NEW c \in Consumers, Settle(c)
      PROVE  LossInv'
  <2>1. PICK m \in Message : m = cur[c] /\ Resolved(m)
    BY <1>9 DEF Settle, InHand, LossInv
  <2>2. /\ UNCHANGED <<queue, retries, accepted, finished, dropped, runs>>
        /\ unacked' = [unacked EXCEPT ![c] = @ \ {m}]
        /\ loop' = [loop EXCEPT ![c] = "select"]
        /\ cur' = [cur EXCEPT ![c] = None]
    BY <1>9, <2>1 DEF Settle, historyVars
  <2>3. \A n \in Held : n \in Held' \/ n = m
    BY <2>2 DEF Held, TypeOK
  <2>4. Resolved(m)'
    <3>1. CASE \E n \in Held : n.job = m.job /\ n.attempts > m.attempts
      <4>1. PICK n \in Held : n.job = m.job /\ n.attempts > m.attempts
        BY <3>1
      <4>2. n # m
        BY <4>1 DEF Message
      <4> QED
        BY <2>3, <4>1, <4>2 DEF Resolved
    <3> QED
      BY <2>1, <2>2, <3>1, ZenonT(30) DEF Resolved
  <2>5. \A d \in Consumers : d # c => loop'[d] = loop[d] /\ cur'[d] = cur[d]
    BY <2>2 DEF TypeOK
  <2>6. loop'[c] = "select"
    BY <2>2 DEF TypeOK
  <2> QED
    BY <1>0, <2>2, <2>3, <2>4, <2>5, <2>6, LossFromParts
<1>10. ASSUME NEW r \in retries, RetryStep(r)
       PROVE  LossInv'
  <2>1. /\ r.msg \in Message /\ r.msg.job \in Jobs /\ runs[r.msg.job] > 0
    BY DEF TypeOK, Message, LossInv
  <2>2. UNCHANGED <<unacked, loop, cur, accepted, finished, runs>>
    BY <1>10 DEF RetryStep, RetryFire, RetryCancel, RetryCheck, RetryPublish, brokerVars, historyVars
  <2>3. \A n \in Held : \/ n \in queue \cup (UNION {unacked[c] : c \in Consumers})
                       \/ \E s \in retries : n = s.msg
    BY DEF Held
  <2>4. ASSUME RetryExit(r), queue \subseteq queue',
               dropped \subseteq dropped',
               r.msg \in queue' \/ r.msg.job \in dropped'
        PROVE  LossInv'
    <3>1. \A n \in Held : n \in Held' \/ n = r.msg
      BY <2>2, <2>3, <2>4, ZenonT(30) DEF RetryExit, Held
    <3>2. r.msg \in Held' \/ Resolved(r.msg)'
      BY <2>1, <2>2, <2>4 DEF Held, Resolved
    <3> QED
      BY <1>0, <2>2, <2>4, <3>1, <3>2, LossFromParts, ZenonT(30) DEF RetryExit
  <2>5. ASSUME NEW stage, RetryMove(r, stage), UNCHANGED <<queue, dropped>>
        PROVE  LossInv'
    <3> DEFINE q == [msg |-> r.msg, stage |-> stage]
    <3>1. retries' = (retries \ {r}) \cup {q} /\ q.msg = r.msg
      BY <2>5 DEF RetryMove
    <3>2. \A s \in retries : \E t \in retries' : t.msg = s.msg
      BY <3>1, ZenonT(30)
    <3>3. Held \subseteq Held'
      BY <2>2, <2>3, <2>5, <3>2 DEF Held
    <3>4. \A s \in retries' : s \in retries \/ runs'[s.msg.job] > 0
      BY <2>1, <2>2, <3>1
    <3> QED
      BY <1>0, <2>2, <2>5, <3>3, <3>4, LossFromParts
  <2>6. CASE RetryFire(r)
    BY <2>5, <2>6 DEF RetryFire, brokerVars, historyVars
  <2>7. CASE RetryCancel(r)
    BY <2>4, <2>7 DEF RetryCancel, brokerVars
  <2>8. CASE RetryCheck(r)
    BY <2>4, <2>5, <2>8 DEF RetryCheck, brokerVars
  <2>9. CASE RetryPublish(r)
    BY <2>4, <2>9 DEF RetryPublish
  <2> QED
    BY <1>10, <2>6, <2>7, <2>8, <2>9 DEF RetryStep
<1>11. ASSUME MainStep
       PROVE  LossInv'
  <2>1. CASE Shutdown \/ ShutdownDone \/ ShutdownTimeout
    <3>1. UNCHANGED <<queue, unacked, retries, accepted, finished, dropped, runs, cur, loop>>
      BY <2>1 DEF Shutdown, ShutdownDone, ShutdownTimeout, brokerVars, historyVars
    <3>2. Held' = Held
      BY <3>1 DEF Held
    <3> QED
      BY <1>2, <3>1, <3>2
  <2>2. CASE CloseQueue
    <3>1. Held' = Held
      BY <2>2, HeldAfterClose DEF CloseQueue
    <3> QED
      BY <1>2, <2>2, <3>1 DEF CloseQueue
  <2>3. CASE Die
    <3>1. ASSUME NEW n \in Held
          PROVE  n \in Held' \/ Resolved(n)'
      <4>1. CASE n \in queue \cup (UNION {unacked[c] : c \in Consumers})
        BY <2>3, <4>1, ZenonT(30) DEF Die, CloseChannels, PutBack, Held
      <4>2. CASE n \in {r.msg : r \in retries}
        <5>1. PICK r \in retries : n = r.msg
          BY <4>2
        <5>2. runs[n.job] > 0 /\ n.job \in dropped' /\ runs' = runs
          BY <2>3, <5>1 DEF Die, LossInv
        <5> QED
          BY <5>2 DEF Resolved
      <4> QED
        BY <4>1, <4>2 DEF Held
    <3>2. \A c \in Consumers : loop'[c] = "ended"
      BY <2>3 DEF Die
    <3> QED
      BY <1>0, <2>3, <3>1, <3>2, LossFromParts DEF Die
  <2>4. CASE Boot
    <3>1. Held' = queue \cup (UNION {unacked[c] : c \in Consumers})
      BY <2>4, ZenonT(30) DEF Boot, Held, brokerVars
    <3>2. Held' = Held
      BY <2>4, <3>1, ZenonT(30) DEF Boot, Held, DownInv
    <3>3. \A c \in Consumers : loop'[c] = "none"
      BY <2>4 DEF Boot
    <3>4. UNCHANGED <<accepted, finished, dropped, runs>> /\ retries' = {}
      BY <2>4 DEF Boot, historyVars
    <3> QED
      BY <1>0, <3>2, <3>3, <3>4, LossFromParts
  <2> QED
    BY <1>11, <2>1, <2>2, <2>3, <2>4 DEF MainStep, Exit, Crash
<1>12. CASE UNCHANGED vars
  <2>1. Held' = Held
    BY <1>12 DEF vars, brokerVars, workerVars, Held
  <2> QED
    BY <1>2, <1>12, <2>1 DEF vars, workerVars, historyVars
<1> QED
  BY <1>1, <1>3, <1>4, <1>5, <1>6, <1>7, <1>8, <1>9, <1>10, <1>11, <1>12 DEF Next, LoopStep

(* A job the broker took never vanishes before it is finished, except as a *)
(* retry after its handler ran: whatever crashes, drops and shutdowns      *)
(* happen in whatever order.                                               *)
THEOREM JobsNotLost == Spec => []NoSilentLoss
<1> DEFINE IInv == TypeInv /\ DownInv /\ LossInv
<1>1. Init => IInv
  <2>1. Init => LossInv /\ DownInv
    BY DEF Init, Started, LossInv, DownInv, NoSilentLoss
  <2> QED
    BY <2>1, TypeInit
<1>2. IInv /\ [Next]_vars => IInv'
  BY TypeStep, DownStep, LossStep
<1>3. IInv => NoSilentLoss
  BY DEF LossInv
<1> QED
  BY <1>1, <1>2, <1>3, PTL DEF Spec

-----------------------------------------------------------------------------
(* No step makes a body with more attempts than its max_retry allows. *)
LEMMA AttemptsStep ==
  ASSUME TypeInv, DownInv, AttemptsBounded, [Next]_vars
  PROVE  AttemptsBounded'
<1> USE DEF TypeInv
<1>0. ASSUME Held' \subseteq Held
      PROVE  AttemptsBounded'
  BY <1>0 DEF AttemptsBounded
<1>1. ASSUME NEW j \in Jobs, Dispatch(j)
      PROVE  AttemptsBounded'
  <2> DEFINE m == [mid |-> FreshMid, job |-> j, attempts |-> 0]
  <2>1. \A n \in Held' : n \in Held \/ n = m
    BY <1>1 DEF Dispatch, Held, workerVars
  <2> QED
    BY <2>1 DEF AttemptsBounded
<1>2. ASSUME NEW c \in Consumers, HandlerFail(c)
      PROVE  AttemptsBounded'
  <2> DEFINE m == IncrementAttempts(cur[c], FreshMid)
  <2>1. CASE CanRetry(m) /\ RetryJob(m)
    <3>1. \A n \in Held' : n \in Held \/ n = m
      <4>1. UNCHANGED <<queue, unacked>>
        BY <1>2 DEF HandlerFail, brokerVars
      <4>2. \A s \in retries' : s \in retries \/ s.msg = m
        BY <2>1 DEF RetryJob
      <4> HIDE DEF m
      <4> QED
        BY <4>1, <4>2, ZenonT(30) DEF Held
    <3> QED
      BY <2>1, <3>1, ZenonT(30) DEF AttemptsBounded, CanRetry
  <2>2. CASE UNCHANGED retries
    BY <1>0, <1>2, <2>2, ZenonT(30) DEF HandlerFail, Held, brokerVars
  <2> QED
    BY <1>2, <2>1, <2>2 DEF HandlerFail
<1>3. ASSUME NEW c \in Consumers, Deliver(c)
      PROVE  AttemptsBounded'
  <2>1. PICK m \in queue : queue' = queue \ {m} /\ unacked' = [unacked EXCEPT ![c] = @ \cup {m}]
    BY <1>3, ZenonT(30) DEF Deliver
  <2>2. Held' \subseteq Held
    <3>1. \A d \in Consumers : unacked'[d] \subseteq unacked[d] \cup {m}
      BY <2>1 DEF TypeOK
    <3>2. retries' = retries
      BY <1>3 DEF Deliver, workerVars
    <3> QED
      BY <2>1, <3>1, <3>2 DEF Held
  <2> QED
    BY <1>0, <2>2
<1>4. ASSUME NEW C \in SUBSET Consumers, CloseChannels(C), retries' \subseteq retries
      PROVE  AttemptsBounded'
  <2>1. queue' \cup (UNION {unacked'[c] : c \in Consumers})
          \subseteq queue \cup (UNION {unacked[c] : c \in Consumers})
    BY <1>4 DEF CloseChannels, PutBack, TypeOK
  <2>2. Held' \subseteq Held
    BY <1>4, <2>1, ZenonT(30) DEF Held
  <2> QED
    BY <1>0, <2>2
<1>5. ASSUME NEW c \in Consumers, ChannelDrop(c) \/ LoopStop(c)
      PROVE  AttemptsBounded'
  BY <1>4, <1>5 DEF ChannelDrop, LoopStop, workerVars
<1>6. ASSUME queue' \subseteq queue, retries' \subseteq retries,
             unacked' \in [Consumers -> SUBSET Message],
             \A c \in Consumers : unacked'[c] \subseteq unacked[c]
      PROVE  AttemptsBounded'
  BY <1>0, <1>6 DEF Held
<1>7. ASSUME NEW c \in Consumers,
             \/ ConsumeStep(c) \/ Receive(c) \/ HandlerOk(c) \/ Settle(c)
             \/ LoopLost(c) \/ Reconnect(c) \/ ReconnectHalt(c)
      PROVE  AttemptsBounded'
  <2>1. CASE Settle(c)
    BY <1>6, <2>1 DEF Settle, TypeOK
  <2>2. CASE Consume(c) \/ Receive(c) \/ LoopLost(c) \/ Reconnect(c)
    <3>1. UNCHANGED <<queue, unacked, retries>>
      BY <2>2, ZenonT(30) DEF Consume, Receive, LoopLost, Reconnect
    <3> QED
      BY <1>6, <3>1 DEF TypeOK
  <2>3. CASE ConsumeStop(c) \/ HandlerOk(c) \/ ReconnectHalt(c)
    <3>1. UNCHANGED <<queue, unacked, retries>>
      BY <2>3, ZenonT(30) DEF ConsumeStop, HandlerOk, ReconnectHalt, brokerVars
    <3> QED
      BY <1>6, <3>1 DEF TypeOK
  <2> QED
    BY <1>7, <2>1, <2>2, <2>3 DEF ConsumeStep
<1>8. ASSUME NEW r \in retries, RetryStep(r)
      PROVE  AttemptsBounded'
  <2>1. unacked' = unacked /\ (queue' = queue \/ queue' = queue \cup {r.msg})
    BY <1>8, ZenonT(30) DEF RetryStep, RetryFire, RetryCancel, RetryCheck, RetryPublish, brokerVars
  <2>2. \A s \in retries' : \E t \in retries : s.msg = t.msg
    <3>1. CASE RetryExit(r)
      BY <3>1 DEF RetryExit
    <3>2. CASE \E x \in Stages : RetryMove(r, x)
      BY <3>2 DEF RetryMove
    <3> QED
      BY <1>8, <3>1, <3>2, ZenonT(30) DEF RetryStep, RetryFire, RetryCancel, RetryCheck, RetryPublish, Stages
  <2>3. Held' \subseteq Held
    BY <2>1, <2>2 DEF Held
  <2> QED
    BY <1>0, <2>3
<1>9. ASSUME MainStep
      PROVE  AttemptsBounded'
  <2>1. CASE Shutdown \/ ShutdownDone \/ ShutdownTimeout \/ Boot
    BY <1>6, <2>1, ZenonT(30) DEF Shutdown, ShutdownDone, ShutdownTimeout, Boot, brokerVars, TypeOK
  <2>2. CASE CloseQueue \/ Die
    BY <1>4, <2>2, ZenonT(30) DEF CloseQueue, Die
  <2> QED
    BY <1>9, <2>1, <2>2 DEF MainStep, Exit, Crash
<1>10. CASE UNCHANGED vars
  BY <1>6, <1>10, ZenonT(30) DEF vars, brokerVars, workerVars, TypeOK
<1> QED
  BY <1>1, <1>2, <1>3, <1>5, <1>7, <1>8, <1>9, <1>10 DEF Next, LoopStep

(* No queued, delivered or waiting body has used up its max_retry. *)
THEOREM AttemptsStayBounded == Spec => []AttemptsBounded
<1>1. Init => TypeInv /\ DownInv /\ AttemptsBounded
  <2>1. Init => Held = {}
    <3> SUFFICES ASSUME Init PROVE Held = {}
      OBVIOUS
    <3>1. queue = {} /\ retries = {} /\ \A c \in Consumers : unacked[c] = {}
      BY DEF Init, Started
    <3> QED
      BY <3>1, ZenonT(30) DEF Held
  <2> QED
    BY <2>1, TypeInit, ZenonT(30) DEF AttemptsBounded, DownInv, Init, Started
<1>2. TypeInv /\ DownInv /\ AttemptsBounded /\ [Next]_vars => (TypeInv /\ DownInv /\ AttemptsBounded)'
  BY TypeStep, DownStep, AttemptsStep
<1> QED
  BY <1>1, <1>2, PTL DEF Spec

-----------------------------------------------------------------------------
(* Where a copy of a job body can be while runs of its job may still come  *)
(* of it: ready in the broker, delivered to c and not yet taken, in c's    *)
(* handler, or in a retry goroutine.                                       *)
Places == {"queue", "buffer", "hand", "retry"}

At(p, c, m) ==
  \/ p = "queue" /\ c = None /\ m \in queue
  \/ p = "buffer" /\ c \in Consumers /\ m \in buf[c] /\ m \in unacked[c]
  \/ p = "hand" /\ c \in Consumers /\ loop[c] = "handling" /\ m = cur[c]
  \/ p = "retry" /\ c = None /\ \E r \in retries : r.msg = m

(* The attempts a copy has used: a handler has been called for the one in  *)
(* its hand already.                                                       *)
Used(p, m) == IF p = "hand" THEN m.attempts + 1 ELSE m.attempts

Block(p, c, m, j) == {<<p, c, m, i>> : i \in Used(p, m) + 1 .. MaxRuns(j)}

(* The runs the copies of j may still cause without another lost ack. *)
Credit(j) ==
  {t \in Places \X (Consumers \cup {None}) \X Message \X (1 .. MaxRuns(j)) :
     At(t[1], t[2], t[3]) /\ t[3].job = j /\ t[4] > Used(t[1], t[3])}

Within(j) ==
  /\ IsFiniteSet(Credit(j))
  /\ runs[j] + Cardinality(Credit(j)) <= MaxRuns(j) * (1 + lostAcks[j])

(* What a consumer holds: a delivery it has not acked is in its buffer or  *)
(* in its hand, and a closed channel has none.                             *)
HoldAt(c) ==
  /\ unacked[c] \subseteq buf[c] \cup {cur[c]}
  /\ ~open[c] => unacked[c] = {}
  /\ loop[c] \notin {"handling", "settle"} => cur[c] = None
  /\ consume[c] = "registering" => loop[c] = "none"
  /\ main = "down" => ~open[c]

HoldInv == \A c \in Consumers : HoldAt(c)

(* Every copy is of an accepted job and within its max_retry, also one     *)
(* left in the buffer of a closed channel.                                 *)
Sound(m) == m.job \in accepted /\ (m.attempts = 0 \/ m.attempts < MaxRetry[m.job])

SoundInv ==
  /\ \A m \in Held : Sound(m)
  /\ \A c \in Consumers : \A m \in buf[c] : Sound(m)
  /\ \A c \in Consumers : cur[c] # None => Sound(cur[c])
  /\ \A j \in Jobs : runs[j] > 0 => j \in accepted

RunsInv == HoldInv /\ SoundInv /\ \A j \in Jobs : Within(j)

-----------------------------------------------------------------------------
(* A set that gives up R and takes in at most N. *)
LEMMA CardExchange ==
  ASSUME NEW S, IsFiniteSet(S), NEW R, R \subseteq S, NEW N, IsFiniteSet(N),
         NEW T, T \subseteq (S \ R) \cup N
  PROVE  /\ IsFiniteSet(T) /\ IsFiniteSet(R)
         /\ Cardinality(T) \in Nat /\ Cardinality(S) \in Nat
         /\ Cardinality(R) \in Nat /\ Cardinality(N) \in Nat
         /\ Cardinality(T) + Cardinality(R) <= Cardinality(S) + Cardinality(N)
<1>1. IsFiniteSet(R) /\ IsFiniteSet(S \ R) /\ Cardinality(S \ R) = Cardinality(S) - Cardinality(R)
  <2>1. S \cap R = R
    OBVIOUS
  <2>2. IsFiniteSet(R)
    BY FS_Subset
  <2>3. IsFiniteSet(S \ R) /\ Cardinality(S \ R) = Cardinality(S) - Cardinality(S \cap R)
    BY FS_Difference
  <2> QED
    BY <2>1, <2>2, <2>3
<1>2. IsFiniteSet((S \ R) \cup N) /\ IsFiniteSet((S \ R) \cap N)
  BY <1>1, FS_Union, FS_Intersection
<1>3. Cardinality((S \ R) \cup N) = Cardinality(S \ R) + Cardinality(N) - Cardinality((S \ R) \cap N)
  BY <1>1, FS_Union
<1>4. IsFiniteSet(T) /\ Cardinality(T) <= Cardinality((S \ R) \cup N)
  BY <1>2, FS_Subset
<1>5. /\ Cardinality(T) \in Nat /\ Cardinality(S) \in Nat /\ Cardinality(R) \in Nat
      /\ Cardinality(N) \in Nat /\ Cardinality((S \ R) \cap N) \in Nat
      /\ Cardinality(S \ R) \in Nat
  BY <1>1, <1>2, <1>4, FS_CardinalityType
<1> QED
  BY <1>1, <1>3, <1>4, <1>5, SMTT(30)

(* The image of a finite set has at most as many elements. *)
LEMMA ImageCard ==
  ASSUME NEW S, IsFiniteSet(S), NEW f, f = [x \in S |-> f[x]], NEW T, T = {f[x] : x \in S}
  PROVE  IsFiniteSet(T) /\ Cardinality(T) <= Cardinality(S)
<1>1. f \in Surjection(S, T)
  BY DEF Surjection
<1> QED
  BY <1>1, FS_Surjection

(* Every job may run at least once. *)
LEMMA MaxRunsNat == ASSUME NEW j \in Jobs PROVE MaxRuns(j) \in Nat \ {0}
BY JobInputs, SMTT(30) DEF MaxRuns

(* The runs one copy may still cause. *)
LEMMA BlockCard ==
  ASSUME NEW p \in Places, NEW c, NEW m \in Message, NEW j \in Jobs
  PROVE  /\ IsFiniteSet(Block(p, c, m, j))
         /\ Cardinality(Block(p, c, m, j)) =
              IF Used(p, m) >= MaxRuns(j) THEN 0 ELSE MaxRuns(j) - Used(p, m)
<1> DEFINE I == Used(p, m) + 1 .. MaxRuns(j)
           f == [i \in I |-> <<p, c, m, i>>]
<1>1. Used(p, m) \in Nat /\ MaxRuns(j) \in Nat
  BY MaxRunsNat DEF Used, Message
<1>2. IsFiniteSet(I) /\ Cardinality(I) = IF Used(p, m) + 1 > MaxRuns(j) THEN 0 ELSE MaxRuns(j) - Used(p, m)
  <2>1. Used(p, m) + 1 \in Int /\ MaxRuns(j) \in Int
    BY <1>1
  <2>2. IsFiniteSet(I) /\ Cardinality(I) = IF Used(p, m) + 1 > MaxRuns(j) THEN 0 ELSE MaxRuns(j) - (Used(p, m) + 1) + 1
    BY <2>1, FS_Interval
  <2> QED
    BY <1>1, <2>2, SMTT(30)
<1>3. f \in Bijection(I, Block(p, c, m, j))
  BY DEF Bijection, Injection, IsInjective, Surjection, Block
<1>4. IsFiniteSet(Block(p, c, m, j)) /\ Cardinality(Block(p, c, m, j)) = Cardinality(I)
  <2> HIDE DEF I, f
  <2> QED
    BY <1>2, <1>3, FS_Bijection DEF ExistsBijection
<1> QED
  BY <1>1, <1>2, <1>4, SMTT(30)

(* The runs left over in one copy are credited to its job. *)
LEMMA BlockCredit ==
  ASSUME NEW j \in Jobs, NEW p \in Places, NEW c \in Consumers \cup {None}, NEW m \in Message,
         m.job = j, At(p, c, m)
  PROVE  Block(p, c, m, j) \subseteq Credit(j)
<1>1. Used(p, m) \in Nat /\ MaxRuns(j) \in Nat
  BY MaxRunsNat DEF Used, Message
<1>2. ASSUME NEW i \in Used(p, m) + 1 .. MaxRuns(j)
      PROVE  <<p, c, m, i>> \in Credit(j)
  <2>1. i \in 1 .. MaxRuns(j) /\ i > Used(p, m)
    BY <1>1, SMTT(30)
  <2> QED
    BY <2>1 DEF Credit
<1> QED
  BY <1>2 DEF Block

(* A step that calls d handlers and loses k acks keeps a job within its    *)
(* bound when the runs it takes from the credit pay for what it adds.      *)
LEMMA WithinStep ==
  ASSUME TypeOK, TypeOK', NEW j \in Jobs, Within(j),
         NEW R, R \subseteq Credit(j), NEW N, IsFiniteSet(N),
         Credit(j)' \subseteq (Credit(j) \ R) \cup N,
         NEW d \in Nat, runs'[j] = runs[j] + d,
         NEW k \in Nat, lostAcks'[j] = lostAcks[j] + k,
         Cardinality(N) + d <= Cardinality(R) + MaxRuns(j) * k
  PROVE  Within(j)'
<1> DEFINE S == Credit(j)
           T == Credit(j)'
<1>1. /\ IsFiniteSet(T)
      /\ Cardinality(T) \in Nat /\ Cardinality(S) \in Nat
      /\ Cardinality(R) \in Nat /\ Cardinality(N) \in Nat
      /\ Cardinality(T) + Cardinality(R) <= Cardinality(S) + Cardinality(N)
  <2>1. IsFiniteSet(S) /\ R \subseteq S /\ T \subseteq (S \ R) \cup N
    BY DEF Within
  <2> HIDE DEF S, T
  <2> QED
    BY <2>1, CardExchange
<1>2. runs[j] + Cardinality(S) <= MaxRuns(j) * (1 + lostAcks[j])
  BY DEF Within
<1>3. runs[j] \in Nat /\ lostAcks[j] \in Nat /\ MaxRuns(j) \in Nat
  BY MaxRunsNat DEF TypeOK
<1>4. MaxRuns(j) * (1 + lostAcks'[j]) = MaxRuns(j) * (1 + lostAcks[j]) + MaxRuns(j) * k
  <2> DEFINE x == MaxRuns(j)
             y == lostAcks[j]
  <2>1. x \in Nat /\ y \in Nat /\ lostAcks'[j] = y + k
    BY <1>3
  <2> HIDE DEF x, y
  <2>2. x * (1 + (y + k)) = x * (1 + y) + x * k
    BY <2>1, SMTT(30)
  <2> QED
    BY <2>1, <2>2 DEF x, y
<1>5. MaxRuns(j) * (1 + lostAcks[j]) \in Nat /\ MaxRuns(j) * k \in Nat
  BY <1>3, SMTT(30)
<1>6. runs'[j] + Cardinality(T) <= MaxRuns(j) * (1 + lostAcks'[j])
  BY <1>1, <1>2, <1>3, <1>4, <1>5, SMTT(30)
<1> QED
  BY <1>1, <1>6 DEF Within

(* The credit is that of the copies there are. *)
LEMMA CreditMember ==
  ASSUME NEW j \in Jobs, NEW t
  PROVE  /\ t \in Credit(j) <=>
              \E p \in Places, c \in Consumers \cup {None}, m \in Message :
                At(p, c, m) /\ m.job = j /\ t \in Block(p, c, m, j)
         /\ t \in Credit(j)' <=>
              \E p \in Places, c \in Consumers \cup {None}, m \in Message :
                At(p, c, m)' /\ m.job = j /\ t \in Block(p, c, m, j)
<1>0. MaxRuns(j) \in Nat /\ \A p \in Places, m \in Message : Used(p, m) \in Nat
  BY MaxRunsNat DEF Used, Message
<1>1. ASSUME t \in Credit(j) \/ t \in Credit(j)'
      PROVE  /\ t = <<t[1], t[2], t[3], t[4]>>
             /\ t[1] \in Places /\ t[2] \in Consumers \cup {None} /\ t[3] \in Message
             /\ t[3].job = j /\ t \in Block(t[1], t[2], t[3], j)
  <2>1. /\ t = <<t[1], t[2], t[3], t[4]>> /\ t[4] \in 1 .. MaxRuns(j)
        /\ t[1] \in Places /\ t[2] \in Consumers \cup {None} /\ t[3] \in Message
        /\ t[3].job = j /\ t[4] > Used(t[1], t[3])
    BY <1>1 DEF Credit
  <2>2. t[4] \in Used(t[1], t[3]) + 1 .. MaxRuns(j)
    BY <1>0, <2>1
  <2> QED
    BY <2>1, <2>2 DEF Block
<1>2. ASSUME NEW p \in Places, NEW c \in Consumers \cup {None}, NEW m \in Message,
             m.job = j, t \in Block(p, c, m, j)
      PROVE  /\ At(p, c, m) => t \in Credit(j)
             /\ At(p, c, m)' => t \in Credit(j)'
  <2>1. PICK i \in Used(p, m) + 1 .. MaxRuns(j) : t = <<p, c, m, i>>
    BY <1>2 DEF Block
  <2>2. i \in 1 .. MaxRuns(j) /\ i > Used(p, m)
    BY <1>0
  <2> QED
    BY <1>2, <2>1, <2>2 DEF Credit
<1>3. t \in Credit(j) => At(t[1], t[2], t[3])
  BY DEF Credit
<1>4. t \in Credit(j)' => At(t[1], t[2], t[3])'
  BY DEF Credit
<1> QED
  BY <1>1, <1>2, <1>3, <1>4

(* The runs of one copy are told from those of another. *)
LEMMA BlockApart ==
  ASSUME NEW p, NEW c, NEW m, NEW q, NEW d, NEW n, NEW j, NEW t,
         t \in Block(p, c, m, j), t \in Block(q, d, n, j)
  PROVE  p = q /\ c = d /\ m = n
BY DEF Block

(* No new copy, no handler called. *)
LEMMA NoNewCopy ==
  ASSUME TypeOK, TypeOK', NEW j \in Jobs, Within(j),
         \A p \in Places, c \in Consumers \cup {None}, m \in Message : At(p, c, m)' => At(p, c, m),
         runs'[j] = runs[j], NEW k \in Nat, lostAcks'[j] = lostAcks[j] + k
  PROVE  Within(j)'
<1>1. Credit(j)' \subseteq (Credit(j) \ {}) \cup {}
  BY CreditMember
<1>2. IsFiniteSet({}) /\ Cardinality({}) = 0
  BY FS_EmptySet
<1>3. runs[j] \in Nat /\ MaxRuns(j) * k \in Nat
  BY MaxRunsNat, SMTT(30) DEF TypeOK
<1>4. runs'[j] = runs[j] + 0 /\ Cardinality({}) + 0 <= Cardinality({}) + MaxRuns(j) * k
  BY <1>2, <1>3, SMTT(30)
<1>5. {} \subseteq Credit(j)
  OBVIOUS
<1> QED
  BY <1>1, <1>2, <1>4, <1>5, WithinStep

(* The copy m at <<p, c>> becomes the copy n at <<q, e>>, and no other     *)
(* copy comes into being.                                                  *)
Becomes(p, c, m, q, e, n) ==
  /\ At(p, c, m)
  /\ \A x \in Places, y \in Consumers \cup {None}, z \in Message :
       At(x, y, z)' => \/ At(x, y, z) /\ <<x, y, z>> # <<p, c, m>>
                       \/ <<x, y, z>> = <<q, e, n>>

(* A copy that moves on takes its remaining runs along; a handler that is  *)
(* called for it (d = 1) is paid for by one of them.                       *)
LEMMA CopyMoves ==
  ASSUME TypeOK, TypeOK', NEW j \in Jobs, Within(j),
         NEW p \in Places, NEW c \in Consumers \cup {None}, NEW m \in Message,
         NEW q \in Places, NEW e \in Consumers \cup {None}, NEW n \in Message,
         Becomes(p, c, m, q, e, n),
         m.job = n.job, NEW d \in {0, 1}, Used(q, n) = Used(p, m) + d,
         d = 1 => Used(p, m) < MaxRuns(m.job),
         runs'[j] = IF j = m.job THEN runs[j] + d ELSE runs[j],
         lostAcks'[j] = lostAcks[j]
  PROVE  Within(j)'
<1> USE DEF Becomes
<1>0. runs[j] \in Nat /\ lostAcks[j] \in Nat /\ MaxRuns(j) \in Nat /\ Used(p, m) \in Nat /\ d \in Nat
  BY MaxRunsNat DEF TypeOK, Used, Message
<1>1. CASE j = m.job
  <2> DEFINE R == Block(p, c, m, j)
             N == Block(q, e, n, j)
  <2>1. R \subseteq Credit(j)
    BY <1>1, BlockCredit
  <2>2. IsFiniteSet(N) /\ Cardinality(N) + d <= Cardinality(R)
    <3>1. /\ IsFiniteSet(N)
          /\ Cardinality(R) = IF Used(p, m) >= MaxRuns(j) THEN 0 ELSE MaxRuns(j) - Used(p, m)
          /\ Cardinality(N) = IF Used(q, n) >= MaxRuns(j) THEN 0 ELSE MaxRuns(j) - Used(q, n)
      BY BlockCard
    <3> HIDE DEF R, N
    <3> QED
      BY <1>0, <1>1, <3>1, SMTT(30)
  <2>3. Credit(j)' \subseteq (Credit(j) \ R) \cup N
    <3> SUFFICES ASSUME NEW t \in Credit(j)', t \notin N
                 PROVE  t \in Credit(j) \ R
      OBVIOUS
    <3>1. PICK x \in Places, y \in Consumers \cup {None}, z \in Message :
            At(x, y, z)' /\ z.job = j /\ t \in Block(x, y, z, j)
      BY CreditMember, ZenonT(30)
    <3>2. At(x, y, z) /\ <<x, y, z>> # <<p, c, m>>
      <4>1. <<x, y, z>> # <<q, e, n>>
        BY <3>1, ZenonT(30)
      <4> QED
        BY <3>1, <4>1, ZenonT(30)
    <3>3. t \in Credit(j)
      BY <3>1, <3>2, CreditMember, ZenonT(30)
    <3>4. t \notin R
      BY <3>1, <3>2, BlockApart, ZenonT(30)
    <3> QED
      BY <3>3, <3>4
  <2>4. /\ runs'[j] = runs[j] + d /\ lostAcks'[j] = lostAcks[j] + 0
        /\ Cardinality(N) + d <= Cardinality(R) + MaxRuns(j) * 0
    <3>1. Cardinality(R) \in Nat
      <4>1. Cardinality(R) = IF Used(p, m) >= MaxRuns(j) THEN 0 ELSE MaxRuns(j) - Used(p, m)
        BY BlockCard
      <4> HIDE DEF R
      <4> QED
        BY <1>0, <4>1, SMTT(30)
    <3> HIDE DEF R, N
    <3>2. \A x \in Nat : x + MaxRuns(j) * 0 = x
      BY <1>0, SMTT(30)
    <3>3. runs'[j] = runs[j] + d /\ lostAcks'[j] = lostAcks[j] + 0
      BY <1>0, <1>1, SMTT(30)
    <3>4. Cardinality(R) + MaxRuns(j) * 0 = Cardinality(R)
      BY <3>1, <3>2
    <3> QED
      BY <2>2, <3>3, <3>4
  <2> HIDE DEF R, N
  <2> QED
    BY <1>0, <2>1, <2>2, <2>3, <2>4, WithinStep
<1>2. CASE j # m.job
  <2>1. ASSUME NEW t \in Credit(j)' PROVE t \in Credit(j)
    <3>1. PICK x \in Places, y \in Consumers \cup {None}, z \in Message :
            At(x, y, z)' /\ z.job = j /\ t \in Block(x, y, z, j)
      BY CreditMember, ZenonT(30)
    <3>2. At(x, y, z)
      BY <1>2, <3>1, ZenonT(30)
    <3> QED
      BY <3>1, <3>2, CreditMember, ZenonT(30)
  <2>2. Credit(j)' \subseteq (Credit(j) \ {}) \cup {}
    BY <2>1
  <2>3. IsFiniteSet({}) /\ Cardinality({}) = 0 /\ {} \subseteq Credit(j)
    BY FS_EmptySet
  <2>4. /\ runs'[j] = runs[j] + 0 /\ lostAcks'[j] = lostAcks[j] + 0
        /\ Cardinality({}) + 0 <= Cardinality({}) + MaxRuns(j) * 0
    BY <1>0, <1>2, <2>3, SMTT(30)
  <2> QED
    BY <2>2, <2>3, <2>4, WithinStep
<1> QED
  BY <1>1, <1>2

(* A copy that only changes place. *)
LEMMA CopyPasses ==
  ASSUME TypeOK, TypeOK', NEW j \in Jobs, Within(j),
         NEW p \in Places, NEW c \in Consumers \cup {None}, NEW m \in Message,
         NEW q \in Places, NEW e \in Consumers \cup {None}, NEW n \in Message,
         Becomes(p, c, m, q, e, n), m.job = n.job, Used(q, n) = Used(p, m),
         runs'[j] = runs[j], lostAcks'[j] = lostAcks[j]
  PROVE  Within(j)'
<1>1. runs[j] \in Nat /\ Used(p, m) \in Nat
  BY DEF TypeOK, Used, Message
<1>2. /\ Used(q, n) = Used(p, m) + 0 /\ (0 = 1 => Used(p, m) < MaxRuns(m.job))
      /\ runs'[j] = IF j = m.job THEN runs[j] + 0 ELSE runs[j]
  BY <1>1, SMTT(30)
<1> QED
  BY <1>2, CopyMoves

(* A copy taken from the buffer of a closed channel is one more: its runs, *)
(* the one that starts included, are paid for by the ack that is lost.     *)
LEMMA StaleCopy ==
  ASSUME TypeOK, TypeOK', NEW j \in Jobs, Within(j),
         NEW q \in Places, NEW e \in Consumers \cup {None}, NEW n \in Message,
         \A x \in Places, y \in Consumers \cup {None}, z \in Message :
           At(x, y, z)' => At(x, y, z) \/ <<x, y, z>> = <<q, e, n>>,
         NEW d \in {0, 1}, Used(q, n) >= d,
         runs'[j] = IF j = n.job THEN runs[j] + d ELSE runs[j],
         lostAcks'[j] = IF j = n.job THEN lostAcks[j] + 1 ELSE lostAcks[j]
  PROVE  Within(j)'
<1>0. /\ runs[j] \in Nat /\ lostAcks[j] \in Nat /\ MaxRuns(j) \in Nat \ {0}
      /\ Used(q, n) \in Nat /\ d \in Nat
  BY MaxRunsNat DEF TypeOK, Used, Message
<1> DEFINE N == IF j = n.job THEN Block(q, e, n, j) ELSE {}
           k == IF j = n.job THEN 1 ELSE 0
           r == IF j = n.job THEN d ELSE 0
<1>1. IsFiniteSet(N) /\ Cardinality(N) + r <= MaxRuns(j) * k
  <2>1. CASE j = n.job
    <3>1. IsFiniteSet(N) /\ Cardinality(N) = IF Used(q, n) >= MaxRuns(j) THEN 0 ELSE MaxRuns(j) - Used(q, n)
      BY <2>1, BlockCard
    <3> HIDE DEF N
    <3>2. MaxRuns(j) * 1 = MaxRuns(j) /\ k = 1 /\ r = d
      BY <1>0, <2>1, SMTT(30)
    <3> HIDE DEF k, r
    <3>3. Cardinality(N) + d <= MaxRuns(j)
      BY <1>0, <3>1, SMTT(30)
    <3> QED
      BY <3>1, <3>2, <3>3
  <2>2. CASE j # n.job
    <3>1. IsFiniteSet(N) /\ Cardinality(N) = 0
      BY <2>2, FS_EmptySet
    <3> HIDE DEF N
    <3>2. MaxRuns(j) * 0 = 0 /\ k = 0 /\ r = 0
      BY <1>0, <2>2, SMTT(30)
    <3> HIDE DEF k, r
    <3> QED
      BY <3>1, <3>2, SMTT(30)
  <2> QED
    BY <2>1, <2>2
<1>2. Credit(j)' \subseteq (Credit(j) \ {}) \cup N
  <2> SUFFICES ASSUME NEW t \in Credit(j)', t \notin N
               PROVE  t \in Credit(j)
    OBVIOUS
  <2>1. PICK x \in Places, y \in Consumers \cup {None}, z \in Message :
          At(x, y, z)' /\ z.job = j /\ t \in Block(x, y, z, j)
    BY CreditMember, ZenonT(30)
  <2>2. <<x, y, z>> # <<q, e, n>>
    BY <2>1
  <2> QED
    BY <2>1, <2>2, CreditMember, ZenonT(30)
<1>3. /\ runs'[j] = runs[j] + r /\ lostAcks'[j] = lostAcks[j] + k
      /\ Cardinality(N) + r <= Cardinality({}) + MaxRuns(j) * k
  <2>1. Cardinality({}) = 0 /\ Cardinality(N) \in Nat
    BY <1>1, FS_EmptySet, FS_CardinalityType
  <2> HIDE DEF N
  <2> QED
    BY <1>0, <1>1, <2>1, SMTT(30)
<1>4. r \in Nat /\ k \in Nat /\ {} \subseteq Credit(j)
  BY <1>0
<1> HIDE DEF N, r, k
<1> QED
  BY <1>1, <1>2, <1>3, <1>4, WithinStep

(* Channels that close put their deliveries back: those still in a buffer  *)
(* move to the queue, and those handled are paid for by their lost acks.   *)
LEMMA CopiesPutBack ==
  ASSUME TypeOK, TypeOK', HoldInv, NEW j \in Jobs, Within(j),
         NEW C \in SUBSET Consumers, CloseChannels(C),
         \A c \in Consumers : buf'[c] \subseteq buf[c],
         \A p \in {"hand", "retry"}, c \in Consumers \cup {None}, m \in Message :
           At(p, c, m)' => At(p, c, m),
         runs'[j] = runs[j]
  PROVE  Within(j)'
<1> DEFINE M == MaxRuns(j)
           R == {t \in Credit(j) : t[1] = "buffer" /\ t[2] \in C}
           f == [t \in R |-> <<"queue", None, t[3], t[4]>>]
           N1 == {f[t] : t \in R}
           H == {c \in C : cur[c] # None /\ cur[c] \in unacked[c] /\ cur[c].job = j}
           L == H \X (1 .. M)
           g == [l \in L |-> <<"queue", None, cur[l[1]], l[2]>>]
           N2 == {g[l] : l \in L}
           k == HandledAgain(C, j)
<1>1. /\ IsFiniteSet(R) /\ R \subseteq Credit(j) /\ Cardinality(R) \in Nat
      /\ IsFiniteSet(N1) /\ Cardinality(N1) <= Cardinality(R) /\ Cardinality(N1) \in Nat
  <2>1. R \subseteq Credit(j) /\ IsFiniteSet(Credit(j))
    BY DEF Within
  <2>2. IsFiniteSet(R)
    <3> HIDE DEF R
    <3> QED
      BY <2>1, FS_Subset
  <2>3. f = [t \in R |-> f[t]]
    OBVIOUS
  <2>4. IsFiniteSet(N1) /\ Cardinality(N1) <= Cardinality(R)
    <3> HIDE DEF R, f
    <3> QED
      BY <2>2, <2>3, ImageCard
  <2> HIDE DEF R, N1
  <2> QED
    BY <2>1, <2>2, <2>4, FS_CardinalityType
<1>2. /\ M \in Nat /\ k \in Nat /\ M * k \in Nat
      /\ IsFiniteSet(N2) /\ Cardinality(N2) <= M * k /\ Cardinality(N2) \in Nat
  <2>1. H \subseteq Consumers /\ IsFiniteSet(H) /\ Cardinality(H) = k
    <3>1. H \subseteq Consumers
      OBVIOUS
    <3>2. Cardinality(H) = k
      BY DEF HandledAgain
    <3>3. IsFiniteSet(H)
      BY <3>1, ConsumersFinite, FS_Subset
    <3> QED
      BY <3>1, <3>2, <3>3
  <2>2. k \in Nat
    BY HandledAgainNat
  <2>3. M \in Nat /\ IsFiniteSet(1 .. M) /\ Cardinality(1 .. M) = M
    <3>1. M \in Nat /\ 1 \in Int /\ M \in Int
      BY MaxRunsNat
    <3> HIDE DEF M
    <3>2. IsFiniteSet(1 .. M) /\ Cardinality(1 .. M) = IF 1 > M THEN 0 ELSE M - 1 + 1
      BY <3>1, FS_Interval
    <3> QED
      BY <3>1, <3>2, SMTT(30)
  <2>4. IsFiniteSet(L) /\ Cardinality(L) = k * M
    <3> HIDE DEF H, M, k
    <3> QED
      BY <2>1, <2>3, FS_Product
  <2>5. g = [l \in L |-> g[l]]
    OBVIOUS
  <2>6. IsFiniteSet(N2) /\ Cardinality(N2) <= Cardinality(L)
    <3> HIDE DEF L, g
    <3> QED
      BY <2>4, <2>5, ImageCard
  <2>7. Cardinality(N2) \in Nat
    <3> HIDE DEF N2
    <3> QED
      BY <2>6, FS_CardinalityType
  <2> HIDE DEF N2, L, k, M
  <2>8. k * M = M * k /\ M * k \in Nat
    BY <2>2, <2>3, SMTT(30)
  <2> QED
    BY <2>2, <2>3, <2>4, <2>6, <2>7, <2>8
<1>3. IsFiniteSet(N1 \cup N2) /\ Cardinality(N1 \cup N2) + 0 <= Cardinality(R) + M * k
  <2> HIDE DEF N1, N2, R, M, k
  <2>1. /\ IsFiniteSet(N1 \cup N2)
        /\ Cardinality(N1 \cup N2) = Cardinality(N1) + Cardinality(N2) - Cardinality(N1 \cap N2)
    BY <1>1, <1>2, FS_Union
  <2>2. Cardinality(N1 \cap N2) \in Nat
    BY <1>1, FS_Intersection, FS_CardinalityType
  <2> QED
    BY <1>1, <1>2, <2>1, <2>2, SMTT(30)
<1>4. Credit(j)' \subseteq (Credit(j) \ R) \cup (N1 \cup N2)
  <2> SUFFICES ASSUME NEW t \in Credit(j)'
               PROVE  t \in Credit(j) \ R \/ t \in N1 \/ t \in N2
    OBVIOUS
  <2>1. PICK x \in Places, y \in Consumers \cup {None}, z \in Message :
          At(x, y, z)' /\ z.job = j /\ t \in Block(x, y, z, j)
    BY CreditMember, ZenonT(30)
  <2>2. PICK i \in Used(x, z) + 1 .. MaxRuns(j) : t = <<x, y, z, i>>
    BY <2>1 DEF Block
  <2>3. ASSUME At(x, y, z), ~(x = "buffer" /\ y \in C)
        PROVE  t \in Credit(j) \ R
    <3>1. t \in Credit(j)
      BY <2>1, <2>3, CreditMember, ZenonT(30)
    <3>2. t[1] = x /\ t[2] = y
      BY <2>2
    <3> QED
      BY <2>3, <3>1, <3>2
  <2>4. CASE x = "buffer"
    <3>1. y \in Consumers /\ z \in buf'[y] /\ z \in unacked'[y]
      BY <2>1, <2>4 DEF At
    <3>2. y \notin C /\ z \in unacked[y] /\ z \in buf[y]
      BY <3>1 DEF CloseChannels
    <3> QED
      BY <2>3, <2>4, <3>1, <3>2 DEF At
  <2>5. CASE x \in {"hand", "retry"}
    BY <2>1, <2>3, <2>5
  <2>6. CASE x = "queue"
    <3>1. y = None /\ z \in queue'
      BY <2>1, <2>6 DEF At
    <3>2. CASE z \in queue
      BY <2>3, <2>6, <3>1, <3>2 DEF At
    <3>3. CASE z \in PutBack(C)
      <4>1. PICK c \in C : z \in unacked[c]
        BY <3>3 DEF PutBack
      <4>2. z # None
        BY NoneIsNoMessage
      <4>3. CASE z \in buf[c]
        <5> DEFINE u == <<"buffer", c, z, i>>
        <5>1. At("buffer", c, z) /\ "buffer" \in Places
          BY <4>1, <4>3 DEF At, Places
        <5>2. u \in Block("buffer", c, z, j)
          BY <2>2, <2>6 DEF Block, Used
        <5>3. u \in Credit(j)
          BY <2>1, <5>1, <5>2, CreditMember
        <5>4. u \in R /\ f[u] = t
          BY <2>2, <2>6, <3>1, <5>3
        <5> QED
          BY <5>4, ZenonT(30)
      <4>4. CASE z = cur[c]
        <5>1. c \in H
          BY <2>1, <4>1, <4>2, <4>4
        <5>2. i \in 1 .. M
          <6>1. Used(x, z) \in Nat /\ M \in Nat
            BY <1>2, <2>6 DEF Used, Message
          <6> QED
            BY <6>1
        <5>3. <<c, i>> \in L /\ g[<<c, i>>] = t
          BY <2>2, <2>6, <3>1, <4>4, <5>1, <5>2
        <5> QED
          BY <5>3, ZenonT(30)
      <4> QED
        BY <4>1, <4>3, <4>4 DEF HoldInv, HoldAt
    <3> QED
      BY <3>1, <3>2, <3>3 DEF CloseChannels
  <2> QED
    BY <2>4, <2>5, <2>6 DEF Places
<1>5. runs'[j] = runs[j] + 0 /\ lostAcks'[j] = lostAcks[j] + k
  BY SMTT(30) DEF TypeOK, CloseChannels
<1> HIDE DEF N1, N2, R, k
<1> QED
  BY <1>1, <1>2, <1>3, <1>4, <1>5, WithinStep

-----------------------------------------------------------------------------
(* Every step leaves an unacked delivery in a buffer or in a hand. *)
LEMMA HoldStep ==
  ASSUME TypeInv, TypeInv', HoldInv, [Next]_vars
  PROVE  HoldInv'
<1> USE DEF TypeInv, HoldInv, HoldAt
<1>1. ASSUME NEW c \in Consumers, HoldAt(c),
             UNCHANGED <<unacked[c], buf[c], cur[c], open[c], loop[c], consume[c]>>,
             main' = "down" => main = "down"
      PROVE  HoldAt(c)'
  BY <1>1 DEF HoldAt
<1>2. ASSUME UNCHANGED <<unacked, buf, cur, open, loop, consume>>, main' = "down" => main = "down"
      PROVE  HoldInv'
  BY <1>1, <1>2 DEF HoldAt
<1>3. ASSUME NEW c \in Consumers, Deliver(c)
      PROVE  HoldInv'
  <2>1. PICK m \in queue : /\ unacked' = [unacked EXCEPT ![c] = @ \cup {m}]
                           /\ buf' = [buf EXCEPT ![c] = @ \cup {m}]
    BY <1>3, ZenonT(30) DEF Deliver
  <2>2. open[c] /\ UNCHANGED <<cur, open, loop, consume, main>>
    BY <1>3 DEF Deliver, workerVars
  <2> QED
    BY <2>1, <2>2 DEF TypeOK
<1>4. ASSUME NEW C \in SUBSET Consumers, CloseChannels(C),
             UNCHANGED <<buf, cur, loop, consume, main>>
      PROVE  HoldInv'
  BY <1>4 DEF CloseChannels, TypeOK
<1>5. ASSUME NEW c \in Consumers, ChannelDrop(c)
      PROVE  HoldInv'
  BY <1>4, <1>5 DEF ChannelDrop, workerVars
<1>6. ASSUME NEW c \in Consumers, ConsumeStep(c)
      PROVE  HoldInv'
  <2>1. CASE Consume(c)
    BY <2>1 DEF Consume, Alive, TypeOK
  <2>2. CASE ConsumeStop(c)
    BY <2>2 DEF ConsumeStop, brokerVars, TypeOK
  <2> QED
    BY <1>6, <2>1, <2>2 DEF ConsumeStep
<1>7. ASSUME NEW c \in Consumers, LoopStep(c)
      PROVE  HoldInv'
  <2>0. main' = main /\ main # "down" /\ consume' = consume /\ loop[c] # "none"
    BY <1>7, ZenonT(30) DEF LoopStep, Receive, HandlerOk, HandlerFail, Settle, LoopStop, LoopLost,
                       Reconnect, ReconnectHalt, Alive
  <2>1. CASE Receive(c)
    <3>1. PICK m \in buf[c] : cur' = [cur EXCEPT ![c] = m] /\ buf' = [buf EXCEPT ![c] = @ \ {m}]
      BY <2>1, ZenonT(30) DEF Receive
    <3>2. loop'[c] \in {"handling", "settle"} /\ \A d \in Consumers \ {c} : loop'[d] = loop[d]
      BY <2>1 DEF Receive, TypeOK
    <3>3. cur[c] = None /\ UNCHANGED <<unacked, open>> /\ None \notin unacked[c]
      BY <2>1, NoneIsNoMessage DEF Receive, TypeOK
    <3> QED
      BY <2>0, <3>1, <3>2, <3>3 DEF TypeOK
  <2>2. CASE HandlerOk(c) \/ HandlerFail(c)
    <3>1. UNCHANGED <<unacked, buf, cur, open>> /\ loop' = [loop EXCEPT ![c] = "settle"]
      BY <2>2, ZenonT(30) DEF HandlerOk, HandlerFail, brokerVars
    <3>2. loop[c] = "handling"
      BY <2>2, ZenonT(30) DEF HandlerOk, HandlerFail
    <3> QED
      BY <2>0, <3>1, <3>2 DEF TypeOK
  <2>3. CASE Settle(c)
    BY <2>0, <2>3 DEF Settle, TypeOK
  <2>4. CASE LoopStop(c)
    BY <2>0, <2>4 DEF LoopStop, CloseChannels, TypeOK
  <2>5. CASE LoopLost(c)
    BY <2>0, <2>5 DEF LoopLost, TypeOK
  <2>6. CASE Reconnect(c)
    BY <2>0, <2>6 DEF Reconnect, TypeOK
  <2>7. CASE ReconnectHalt(c)
    BY <2>0, <2>7 DEF ReconnectHalt, brokerVars, TypeOK
  <2> QED
    BY <1>7, <2>1, <2>2, <2>3, <2>4, <2>5, <2>6, <2>7 DEF LoopStep
<1>8. ASSUME NEW r \in retries, RetryStep(r)
      PROVE  HoldInv'
  <2>1. UNCHANGED <<unacked, buf, cur, open, loop, consume, main>>
    BY <1>8, ZenonT(30) DEF RetryStep, RetryFire, RetryCancel, RetryCheck, RetryPublish, brokerVars
  <2> QED
    BY <1>2, <2>1
<1>9. ASSUME MainStep
      PROVE  HoldInv'
  <2>1. CASE Shutdown \/ ShutdownDone \/ ShutdownTimeout
    BY <1>2, <2>1, ZenonT(30) DEF Shutdown, ShutdownDone, ShutdownTimeout, brokerVars
  <2>2. CASE CloseQueue
    BY <1>4, <2>2 DEF CloseQueue
  <2>3. CASE Die
    BY <2>3 DEF Die, CloseChannels
  <2>4. CASE Boot
    BY <2>4 DEF Boot, brokerVars
  <2> QED
    BY <1>9, <2>1, <2>2, <2>3, <2>4 DEF MainStep, Exit, Crash
<1>10. CASE UNCHANGED vars
  BY <1>2, <1>10, ZenonT(30) DEF vars, brokerVars, workerVars
<1>11. ASSUME NEW j \in Jobs, Dispatch(j)
       PROVE  HoldInv'
  BY <1>2, <1>11, ZenonT(30) DEF Dispatch, workerVars
<1> QED
  BY <1>3, <1>5, <1>6, <1>7, <1>8, <1>9, <1>10, <1>11 DEF Next

(* What keeps every copy sound: it is an old one, or is sound when made. *)
LEMMA SoundFromParts ==
  ASSUME TypeOK, TypeOK', SoundInv, accepted \subseteq accepted',
         \A m \in Held' : m \in Held \/ Sound(m)',
         \A c \in Consumers : \A m \in buf'[c] : m \in buf[c] \/ m \in Held,
         \A c \in Consumers : cur'[c] = None \/ cur'[c] = cur[c] \/ cur'[c] \in buf[c],
         \A j \in Jobs : runs'[j] > 0 => runs[j] > 0 \/ j \in accepted'
  PROVE  SoundInv'
<1>1. \A m : Sound(m) => Sound(m)'
  BY DEF Sound
<1> HIDE DEF Held, Sound
<1>2. \A m \in Held' : Sound(m)'
  BY <1>1 DEF SoundInv
<1>3. \A c \in Consumers : \A m \in buf'[c] : Sound(m)'
  BY <1>1 DEF SoundInv
<1>4. ASSUME NEW c \in Consumers, cur'[c] # None
      PROVE  Sound(cur[c])'
  <2>1. PICK m : m = cur'[c] /\ (m = cur[c] \/ m \in buf[c])
    BY <1>4
  <2>2. Sound(m)'
    BY <1>1, <1>4, <2>1 DEF SoundInv
  <2> QED
    BY <2>1, <2>2 DEF Sound
<1>5. \A j \in Jobs : runs'[j] > 0 => j \in accepted'
  BY DEF SoundInv
<1> QED
  BY <1>2, <1>3, <1>4, <1>5 DEF SoundInv

(* Every step makes only copies of accepted jobs within their max_retry. *)
LEMMA SoundStep ==
  ASSUME TypeInv, TypeInv', SoundInv, [Next]_vars
  PROVE  SoundInv'
<1> USE DEF TypeInv
<1>1. ASSUME accepted' = accepted, runs' = runs, Held' \subseteq Held,
             \A c \in Consumers : buf'[c] \subseteq buf[c],
             \A c \in Consumers : cur'[c] = None \/ cur'[c] = cur[c]
      PROVE  SoundInv'
  BY <1>1, SoundFromParts, ZenonT(30)
<1>2. ASSUME accepted' = accepted, runs' = runs, queue' \subseteq queue, retries' = retries,
             \A c \in Consumers : unacked'[c] \subseteq unacked[c],
             \A c \in Consumers : buf'[c] \subseteq buf[c],
             \A c \in Consumers : cur'[c] = None \/ cur'[c] = cur[c]
      PROVE  SoundInv'
  <2>1. Held' \subseteq Held
    BY <1>2 DEF Held
  <2> QED
    BY <1>1, <1>2, <2>1
<1>3. ASSUME NEW C \in SUBSET Consumers, CloseChannels(C), retries' \subseteq retries
      PROVE  Held' \subseteq Held
  <2>1. queue' \cup (UNION {unacked'[c] : c \in Consumers})
          \subseteq queue \cup (UNION {unacked[c] : c \in Consumers})
    BY <1>3 DEF CloseChannels, PutBack, TypeOK
  <2> QED
    BY <1>3, <2>1, ZenonT(30) DEF Held
<1>4. ASSUME NEW j \in Jobs, Dispatch(j)
      PROVE  SoundInv'
  <2>1. accepted' = accepted \cup {j} /\ UNCHANGED <<unacked, buf, cur, retries, runs>>
    BY <1>4 DEF Dispatch, workerVars
  <2>2. PICK m : queue' = queue \cup {m} /\ m.job = j /\ m.attempts = 0
    <3> DEFINE m == [mid |-> FreshMid, job |-> j, attempts |-> 0]
    <3>1. queue' = queue \cup {m} /\ m.job = j /\ m.attempts = 0
      BY <1>4 DEF Dispatch
    <3> HIDE DEF m
    <3> QED
      BY <3>1
  <2>3. Sound(m)'
    BY <2>1, <2>2 DEF Sound
  <2>4. \A n \in Held' : n \in Held \/ Sound(n)'
    BY <2>1, <2>2, <2>3 DEF Held
  <2>5. SoundInv'
    BY <2>1, <2>4, SoundFromParts
  <2> QED
    BY <2>5
<1>5. ASSUME NEW c \in Consumers, Deliver(c)
      PROVE  SoundInv'
  <2>1. PICK m \in queue : /\ queue' = queue \ {m}
                           /\ unacked' = [unacked EXCEPT ![c] = @ \cup {m}]
                           /\ buf' = [buf EXCEPT ![c] = @ \cup {m}]
    BY <1>5, ZenonT(30) DEF Deliver
  <2>2. UNCHANGED <<cur, retries, accepted, runs>>
    BY <1>5 DEF Deliver, workerVars, historyVars
  <2>3. /\ \A d \in Consumers : unacked'[d] \subseteq unacked[d] \cup {m}
        /\ \A d \in Consumers : buf'[d] \subseteq buf[d] \cup {m}
    BY <2>1 DEF TypeOK
  <2>4. Held' \subseteq Held /\ m \in Held
    BY <2>1, <2>2, <2>3 DEF Held
  <2> QED
    BY <2>2, <2>3, <2>4, SoundFromParts
<1>6. ASSUME NEW c \in Consumers, ChannelDrop(c)
      PROVE  SoundInv'
  BY <1>1, <1>3, <1>6 DEF ChannelDrop, workerVars
<1>7. ASSUME NEW c \in Consumers, ConsumeStep(c)
      PROVE  SoundInv'
  BY <1>2, <1>7, ZenonT(30) DEF ConsumeStep, Consume, ConsumeStop, brokerVars, historyVars
<1>8. ASSUME NEW c \in Consumers, Receive(c)
      PROVE  SoundInv'
  <2>1. PICK m \in buf[c] : /\ cur' = [cur EXCEPT ![c] = m]
                            /\ buf' = [buf EXCEPT ![c] = @ \ {m}]
                            /\ runs' = [runs EXCEPT ![m.job] = @ + 1] \/ runs' = runs
    BY <1>8, ZenonT(30) DEF Receive
  <2>2. UNCHANGED <<queue, unacked, retries, accepted>>
    BY <1>8 DEF Receive
  <2>3. Held' = Held
    BY <2>2 DEF Held
  <2>4. m.job \in accepted
    BY DEF SoundInv, Sound
  <2>5. \A j \in Jobs : runs'[j] > 0 => runs[j] > 0 \/ j \in accepted'
    BY <2>1, <2>2, <2>4 DEF TypeOK
  <2>6. /\ \A d \in Consumers : buf'[d] \subseteq buf[d]
        /\ \A d \in Consumers : cur'[d] = cur[d] \/ cur'[d] \in buf[d]
    BY <2>1 DEF TypeOK
  <2> QED
    BY <2>2, <2>3, <2>5, <2>6, SoundFromParts
<1>9. ASSUME NEW c \in Consumers, HandlerFail(c)
      PROVE  SoundInv'
  <2>1. UNCHANGED <<queue, unacked, buf, cur, accepted, runs>>
    BY <1>9 DEF HandlerFail, brokerVars
  <2>2. ASSUME NEW m, m = IncrementAttempts(cur[c], FreshMid), CanRetry(m), RetryJob(m)
        PROVE  SoundInv'
    <3>1. cur[c] \in Message
      BY <1>9 DEF HandlerFail, InHand
    <3>2. cur[c] # None /\ m.job = cur[c].job
      BY <2>2, <3>1, NoneIsNoMessage DEF IncrementAttempts
    <3>3. Sound(m)'
      BY <2>1, <2>2, <3>2 DEF SoundInv, Sound, CanRetry
    <3>4. \A s \in retries' : s \in retries \/ s.msg = m
      BY <2>2 DEF RetryJob
    <3>5. \A n \in Held' : n \in Held \/ Sound(n)'
      BY <2>1, <3>3, <3>4, ZenonT(30) DEF Held
    <3> QED
      BY <2>1, <3>5, SoundFromParts
  <2>3. CASE UNCHANGED retries
    BY <1>2, <2>1, <2>3
  <2> QED
    BY <1>9, <2>2, <2>3 DEF HandlerFail
<1>10. ASSUME NEW c \in Consumers,
              HandlerOk(c) \/ Settle(c) \/ LoopLost(c) \/ Reconnect(c) \/ ReconnectHalt(c)
       PROVE  SoundInv'
  <2>1. /\ UNCHANGED <<queue, retries, accepted, runs>>
        /\ UNCHANGED unacked \/ unacked' = [unacked EXCEPT ![c] = @ \ {cur[c]}]
        /\ UNCHANGED buf \/ buf' = [buf EXCEPT ![c] = {}]
        /\ UNCHANGED cur \/ cur' = [cur EXCEPT ![c] = None]
    BY <1>10, ZenonT(30) DEF HandlerOk, Settle, LoopLost, Reconnect, ReconnectHalt, brokerVars, historyVars
  <2>2. /\ \A d \in Consumers : unacked'[d] \subseteq unacked[d]
        /\ \A d \in Consumers : buf'[d] \subseteq buf[d]
        /\ \A d \in Consumers : cur'[d] = None \/ cur'[d] = cur[d]
    BY <2>1 DEF TypeOK
  <2> QED
    BY <1>2, <2>1, <2>2
<1>11. ASSUME NEW c \in Consumers, LoopStop(c)
       PROVE  SoundInv'
  <2>1. \A d \in Consumers : buf'[d] \subseteq buf[d]
    BY <1>11 DEF LoopStop, TypeOK
  <2>2. Held' \subseteq Held
    BY <1>3, <1>11 DEF LoopStop
  <2> QED
    BY <1>1, <1>11, <2>1, <2>2, ZenonT(30) DEF LoopStop
<1>12. ASSUME NEW r \in retries, RetryStep(r)
       PROVE  SoundInv'
  <2>1. UNCHANGED <<unacked, buf, cur, accepted, runs>> /\ (queue' = queue \/ queue' = queue \cup {r.msg})
    BY <1>12, ZenonT(30) DEF RetryStep, RetryFire, RetryCancel, RetryCheck, RetryPublish, brokerVars, historyVars
  <2>2. \A s \in retries' : \E t \in retries : s.msg = t.msg
    <3>1. CASE RetryExit(r)
      BY <3>1 DEF RetryExit
    <3>2. CASE \E x \in Stages : RetryMove(r, x)
      BY <3>2 DEF RetryMove
    <3> QED
      BY <1>12, <3>1, <3>2, ZenonT(30) DEF RetryStep, RetryFire, RetryCancel, RetryCheck, RetryPublish, Stages
  <2>3. Held' \subseteq Held
    BY <2>1, <2>2 DEF Held
  <2> QED
    BY <1>1, <2>1, <2>3
<1>13. ASSUME MainStep
       PROVE  SoundInv'
  <2>1. CASE Shutdown \/ ShutdownDone \/ ShutdownTimeout
    BY <1>2, <2>1, ZenonT(30) DEF Shutdown, ShutdownDone, ShutdownTimeout, brokerVars, historyVars
  <2>2. CASE CloseQueue
    BY <1>1, <1>3, <2>2, ZenonT(30) DEF CloseQueue
  <2>3. CASE Die
    <3>1. Held' \subseteq Held
      BY <1>3, <2>3 DEF Die
    <3>2. \A c \in Consumers : buf'[c] \subseteq buf[c] /\ cur'[c] = None
      BY <2>3 DEF Die
    <3> QED
      BY <1>1, <2>3, <3>1, <3>2, ZenonT(30) DEF Die
  <2>4. CASE Boot
    <3>1. retries' = {} /\ UNCHANGED <<queue, unacked, buf, accepted, runs>> /\ \A c \in Consumers : cur'[c] = None
      BY <2>4 DEF Boot, brokerVars, historyVars
    <3>2. Held' \subseteq Held
      BY <3>1 DEF Held
    <3> QED
      BY <1>1, <3>1, <3>2, ZenonT(30)
  <2> QED
    BY <1>13, <2>1, <2>2, <2>3, <2>4 DEF MainStep, Exit, Crash
<1>14. CASE UNCHANGED vars
  BY <1>2, <1>14, ZenonT(30) DEF vars, brokerVars, workerVars, historyVars
<1> QED
  BY <1>4, <1>5, <1>6, <1>7, <1>8, <1>9, <1>10, <1>11, <1>12, <1>13, <1>14 DEF Next, LoopStep

-----------------------------------------------------------------------------
(* Every step pays for the runs it adds. *)
LEMMA CreditStep ==
  ASSUME TypeInv, TypeInv', WgInv, RunsInv, [Next]_vars, NEW j \in Jobs
  PROVE  Within(j)'
<1> USE DEF TypeInv
<1>0. Within(j) /\ HoldInv /\ runs[j] \in Nat /\ lostAcks[j] \in Nat
  BY DEF RunsInv, TypeOK
<1>1. ASSUME queue' \subseteq queue,
             \A c \in Consumers : unacked'[c] \subseteq unacked[c] /\ buf'[c] \subseteq buf[c],
             \A c \in Consumers : loop'[c] = "handling" => loop[c] = "handling" /\ cur'[c] = cur[c],
             \A r \in retries' : \E s \in retries : s.msg = r.msg,
             runs' = runs, lostAcks' = lostAcks
      PROVE  Within(j)'
  <2>1. \A p \in Places, c \in Consumers \cup {None}, m \in Message : At(p, c, m)' => At(p, c, m)
    BY <1>1 DEF At
  <2>2. runs'[j] = runs[j] /\ lostAcks'[j] = lostAcks[j] + 0
    BY <1>0, <1>1
  <2> QED
    BY <1>0, <2>1, <2>2, NoNewCopy
<1>2. ASSUME NEW k \in Jobs, Dispatch(k)
      PROVE  Within(j)'
  <2>1. UNCHANGED <<unacked, buf, loop, cur, retries, runs, lostAcks>> /\ k \notin accepted
    BY <1>2 DEF Dispatch, workerVars
  <2>2. PICK n \in Message : queue' = queue \cup {n} /\ n.job = k /\ n.attempts = 0
    <3> DEFINE m == [mid |-> FreshMid, job |-> k, attempts |-> 0]
    <3>1. m \in Message /\ m.job = k /\ m.attempts = 0
      BY <1>2, FreshMidFree DEF Dispatch, Message
    <3>2. queue' = queue \cup {m}
      BY <1>2 DEF Dispatch
    <3> HIDE DEF m
    <3> QED
      BY <3>1, <3>2
  <2>3. ASSUME NEW x \in Places, NEW y \in Consumers \cup {None}, NEW z \in Message, At(x, y, z)'
        PROVE  At(x, y, z) \/ <<x, y, z>> = <<"queue", None, n>>
    BY <2>1, <2>2, <2>3 DEF At
  <2>4. CASE j # k
    <3>1. ASSUME NEW t \in Credit(j)' PROVE t \in Credit(j)
      <4>1. PICK x \in Places, y \in Consumers \cup {None}, z \in Message :
              At(x, y, z)' /\ z.job = j /\ t \in Block(x, y, z, j)
        BY CreditMember, ZenonT(30)
      <4>2. At(x, y, z)
        BY <2>2, <2>3, <2>4, <4>1
      <4> QED
        BY <4>1, <4>2, CreditMember, ZenonT(30)
    <3>2. IsFiniteSet({}) /\ Cardinality({}) = 0
      BY FS_EmptySet
    <3>3. /\ runs'[j] = runs[j] + 0 /\ lostAcks'[j] = lostAcks[j] + 0
          /\ Cardinality({}) + 0 <= Cardinality({}) + MaxRuns(j) * 0
      BY <1>0, <2>1, <3>2, MaxRunsNat, SMTT(30)
    <3>4. Credit(j)' \subseteq (Credit(j) \ {}) \cup {} /\ {} \subseteq Credit(j)
      BY <3>1
    <3> QED
      BY <1>0, <3>2, <3>3, <3>4, WithinStep, SMTT(30)
  <2>5. CASE j = k
    <3> DEFINE N == Block("queue", None, n, j)
    <3>1. ASSUME NEW x \in Places, NEW y \in Consumers \cup {None}, NEW z \in Message,
                 At(x, y, z), z.job = j
          PROVE  FALSE
      <4>1. z \in Held \/ \E c \in Consumers : z \in buf[c] \/ z = cur[c]
        BY <3>1 DEF At, Held
      <4>2. Sound(z)
        BY <4>1, NoneIsNoMessage DEF RunsInv, SoundInv
      <4> QED
        BY <2>1, <2>5, <3>1, <4>2 DEF Sound
    <3>2. Credit(j)' \subseteq N
      <4> SUFFICES ASSUME NEW t \in Credit(j)' PROVE t \in N
        OBVIOUS
      <4>1. PICK x \in Places, y \in Consumers \cup {None}, z \in Message :
              At(x, y, z)' /\ z.job = j /\ t \in Block(x, y, z, j)
        BY CreditMember, ZenonT(30)
      <4>2. <<x, y, z>> = <<"queue", None, n>>
        BY <2>3, <3>1, <4>1
      <4> QED
        BY <4>1, <4>2
    <3>3. IsFiniteSet(N) /\ Cardinality(N) <= MaxRuns(j)
      <4>1. "queue" \in Places /\ Used("queue", n) = 0 /\ MaxRuns(j) \in Nat \ {0}
        BY <2>2, MaxRunsNat DEF Places, Used
      <4> QED
        BY <4>1, BlockCard
    <3> HIDE DEF N
    <3>4. IsFiniteSet(Credit(j)') /\ Cardinality(Credit(j)') <= Cardinality(N)
      BY <3>2, <3>3, FS_Subset
    <3>5. Cardinality(Credit(j)') \in Nat /\ Cardinality(N) \in Nat
      BY <3>3, <3>4, FS_CardinalityType
    <3>6. runs'[j] = 0 /\ lostAcks'[j] = lostAcks[j]
      BY <1>0, <2>1, <2>5 DEF RunsInv, SoundInv
    <3>7. MaxRuns(j) <= MaxRuns(j) * (1 + lostAcks[j]) /\ MaxRuns(j) * (1 + lostAcks[j]) \in Nat
      BY <1>0, MaxRunsNat, SMTT(30)
    <3>8. runs'[j] + Cardinality(Credit(j)') <= MaxRuns(j) * (1 + lostAcks'[j])
      BY <3>3, <3>4, <3>5, <3>6, <3>7, MaxRunsNat, SMTT(30)
    <3> QED
      BY <3>4, <3>8 DEF Within
  <2> QED
    BY <2>4, <2>5
<1>3. ASSUME NEW c \in Consumers, Deliver(c)
      PROVE  Within(j)'
  <2>1. PICK m \in queue : /\ queue' = queue \ {m}
                           /\ unacked' = [unacked EXCEPT ![c] = @ \cup {m}]
                           /\ buf' = [buf EXCEPT ![c] = @ \cup {m}]
    BY <1>3, ZenonT(30) DEF Deliver
  <2>2. UNCHANGED <<loop, cur, retries, runs, lostAcks>>
    BY <1>3 DEF Deliver, workerVars, historyVars
  <2>3. m \in Message /\ At("queue", None, m) /\ "queue" \in Places /\ "buffer" \in Places
    BY DEF At, Places, TypeOK
  <2>4. ASSUME NEW x \in Places, NEW y \in Consumers \cup {None}, NEW z \in Message, At(x, y, z)'
        PROVE  \/ At(x, y, z) /\ <<x, y, z>> # <<"queue", None, m>>
               \/ <<x, y, z>> = <<"buffer", c, m>>
    BY <2>1, <2>2, <2>4 DEF At, TypeOK
  <2>5. Used("buffer", m) = Used("queue", m) /\ runs'[j] = runs[j] /\ lostAcks'[j] = lostAcks[j]
    BY <2>2 DEF Used
  <2>6. Becomes("queue", None, m, "buffer", c, m)
    BY <2>3, <2>4, ZenonT(30) DEF Becomes
  <2> QED
    BY <1>0, <2>3, <2>5, <2>6, CopyPasses, ZenonT(20)
<1>4. ASSUME NEW C \in SUBSET Consumers, CloseChannels(C),
             \A c \in Consumers : buf'[c] \subseteq buf[c],
             \A c \in Consumers : loop'[c] = "handling" => loop[c] = "handling" /\ cur'[c] = cur[c],
             retries' \subseteq retries, runs' = runs
      PROVE  Within(j)'
  <2>1. \A p \in {"hand", "retry"}, c \in Consumers \cup {None}, m \in Message :
          At(p, c, m)' => At(p, c, m)
    BY <1>4 DEF At
  <2> QED
    BY <1>0, <1>4, <2>1, CopiesPutBack
<1>5. ASSUME NEW c \in Consumers, ChannelDrop(c)
      PROVE  Within(j)'
  BY <1>4, <1>5 DEF ChannelDrop, workerVars
<1>6. ASSUME NEW c \in Consumers, LoopStop(c)
      PROVE  Within(j)'
  <2>1. /\ \A d \in Consumers : buf'[d] \subseteq buf[d]
        /\ \A d \in Consumers : loop'[d] = "handling" => loop[d] = "handling" /\ cur'[d] = cur[d]
    BY <1>6 DEF LoopStop, TypeOK
  <2> QED
    BY <1>4, <1>6, <2>1 DEF LoopStop
<1>7. ASSUME NEW c \in Consumers, Receive(c)
      PROVE  Within(j)'
  <2>1. PICK m \in buf[c] :
          /\ cur' = [cur EXCEPT ![c] = m]
          /\ buf' = [buf EXCEPT ![c] = @ \ {m}]
          /\ lostAcks' = IF m \in unacked[c] THEN lostAcks ELSE [lostAcks EXCEPT ![m.job] = @ + 1]
          /\ \/ loop' = [loop EXCEPT ![c] = "handling"] /\ runs' = [runs EXCEPT ![m.job] = @ + 1]
             \/ loop' = [loop EXCEPT ![c] = "settle"] /\ runs' = runs
    BY <1>7, ZenonT(30) DEF Receive
  <2>2. UNCHANGED <<queue, unacked, retries>> /\ loop[c] = "select"
    BY <1>7 DEF Receive
  <2>3. /\ m \in Message /\ m.job \in Jobs /\ m.attempts \in Nat
        /\ "buffer" \in Places /\ "hand" \in Places
    BY DEF Places, Message, TypeOK
  <2>4. CASE loop' = [loop EXCEPT ![c] = "handling"] /\ runs' = [runs EXCEPT ![m.job] = @ + 1]
    <3>1. runs'[j] = (IF j = m.job THEN runs[j] + 1 ELSE runs[j])
      BY <2>3, <2>4 DEF TypeOK
    <3>2. ASSUME NEW x \in Places, NEW y \in Consumers \cup {None}, NEW z \in Message, At(x, y, z)'
          PROVE  \/ At(x, y, z) /\ <<x, y, z>> # <<"buffer", c, m>>
                 \/ <<x, y, z>> = <<"hand", c, m>>
      BY <2>1, <2>2, <2>4, <3>2, SMTT(30) DEF At, TypeOK
    <3>3. Used("hand", m) = Used("buffer", m) + 1 /\ Used("buffer", m) = m.attempts
      BY DEF Used
    <3>4. CASE m \in unacked[c]
      <4>1. At("buffer", c, m) /\ lostAcks'[j] = lostAcks[j]
        BY <2>1, <3>4 DEF At
      <4>2. m.attempts < MaxRuns(m.job)
        <5>1. m.attempts = 0 \/ m.attempts < MaxRetry[m.job]
          BY DEF RunsInv, SoundInv, Sound
        <5> QED
          BY <2>3, <5>1, JobInputs, SMTT(30) DEF MaxRuns
      <4>3. Becomes("buffer", c, m, "hand", c, m)
        BY <3>2, <4>1, ZenonT(30) DEF Becomes
      <4> QED
        BY <1>0, <2>3, <3>1, <3>3, <4>1, <4>2, <4>3, CopyMoves, ZenonT(20)
    <3>5. CASE m \notin unacked[c]
      <4>1. lostAcks'[j] = (IF j = m.job THEN lostAcks[j] + 1 ELSE lostAcks[j])
        BY <2>1, <2>3, <3>5 DEF TypeOK
      <4>2. Used("hand", m) >= 1
        BY <2>3, <3>3
      <4> QED
        BY <1>0, <2>3, <3>1, <3>2, <4>1, <4>2, StaleCopy
    <3> QED
      BY <3>4, <3>5
  <2>5. CASE loop' = [loop EXCEPT ![c] = "settle"] /\ runs' = runs
    <3>1. \A x \in Places, y \in Consumers \cup {None}, z \in Message : At(x, y, z)' => At(x, y, z)
      BY <2>1, <2>2, <2>5, SMTT(30) DEF At, TypeOK
    <3>2. PICK k \in {0, 1} : lostAcks'[j] = lostAcks[j] + k
      BY <1>0, <2>1, <2>3 DEF TypeOK
    <3> QED
      BY <1>0, <2>5, <3>1, <3>2, NoNewCopy
  <2> QED
    BY <2>1, <2>4, <2>5
<1>8. ASSUME NEW c \in Consumers, HandlerFail(c)
      PROVE  Within(j)'
  <2>1. /\ UNCHANGED <<queue, unacked, buf, cur, runs, lostAcks>>
        /\ loop' = [loop EXCEPT ![c] = "settle"] /\ loop[c] = "handling"
    BY <1>8 DEF HandlerFail, brokerVars
  <2>2. ASSUME NEW n, n = IncrementAttempts(cur[c], FreshMid), SomeMidFree, RetryJob(n)
        PROVE  Within(j)'
    <3>1. PICK m \in Message : m = cur[c] /\ m.attempts \in Nat
      BY <2>1 DEF InHand, Message
    <3>2. n \in Message /\ n.job = m.job /\ n.attempts = m.attempts + 1
      BY <2>2, <3>1, FreshMidFree DEF IncrementAttempts, Message
    <3>3. At("hand", c, m) /\ "hand" \in Places /\ "retry" \in Places
      BY <2>1, <3>1 DEF At, Places
    <3>4. ASSUME NEW x \in Places, NEW y \in Consumers \cup {None}, NEW z \in Message, At(x, y, z)'
          PROVE  \/ At(x, y, z) /\ <<x, y, z>> # <<"hand", c, m>>
                 \/ <<x, y, z>> = <<"retry", None, n>>
      <4>1. \A s \in retries' : s \in retries \/ s.msg = n
        BY <2>2 DEF RetryJob
      <4>2. loop'[c] = "settle" /\ \A d \in Consumers : loop'[d] = "handling" => loop[d] = "handling"
        BY <2>1 DEF TypeOK
      <4> QED
        BY <2>1, <3>4, <4>1, <4>2 DEF At
    <3>5. Used("retry", n) = Used("hand", m) /\ runs'[j] = runs[j] /\ lostAcks'[j] = lostAcks[j]
      BY <2>1, <3>2 DEF Used
    <3>6. Becomes("hand", c, m, "retry", None, n)
      BY <3>3, <3>4, ZenonT(30) DEF Becomes
    <3> QED
      BY <1>0, <3>2, <3>3, <3>5, <3>6, CopyPasses, ZenonT(20)
  <2>3. CASE UNCHANGED retries
    <3>1. \A d \in Consumers : loop'[d] = "handling" => loop[d] = "handling"
      BY <2>1 DEF TypeOK
    <3> QED
      BY <1>1, <2>1, <2>3, <3>1
  <2> QED
    BY <1>8, <2>2, <2>3 DEF HandlerFail
<1>9. ASSUME NEW c \in Consumers,
             \/ ConsumeStep(c) \/ HandlerOk(c) \/ Settle(c)
             \/ LoopLost(c) \/ Reconnect(c) \/ ReconnectHalt(c)
      PROVE  Within(j)'
  <2>1. /\ UNCHANGED <<queue, retries, runs, lostAcks>>
        /\ UNCHANGED unacked \/ unacked' = [unacked EXCEPT ![c] = @ \ {cur[c]}]
        /\ UNCHANGED buf \/ buf' = [buf EXCEPT ![c] = {}]
        /\ \/ UNCHANGED cur
           \/ cur' = [cur EXCEPT ![c] = None] /\ loop' = [loop EXCEPT ![c] = "select"]
        /\ UNCHANGED loop \/ \E v \in {"select", "settle", "reconnect", "ended"} : loop' = [loop EXCEPT ![c] = v]
    BY <1>9, ZenonT(30) DEF ConsumeStep, Consume, ConsumeStop, HandlerOk, Settle, LoopLost, Reconnect,
                       ReconnectHalt, brokerVars, historyVars
  <2>2. \A d \in Consumers : unacked'[d] \subseteq unacked[d] /\ buf'[d] \subseteq buf[d]
    BY <2>1 DEF TypeOK
  <2>3. \A d \in Consumers : loop'[d] = "handling" => loop[d] = "handling" /\ cur'[d] = cur[d]
    BY <2>1 DEF TypeOK
  <2> QED
    BY <1>1, <2>1, <2>2, <2>3
<1>10. ASSUME NEW r \in retries, RetryStep(r)
       PROVE  Within(j)'
  <2>1. UNCHANGED <<unacked, buf, loop, cur, runs, lostAcks>>
    BY <1>10, ZenonT(30) DEF RetryStep, RetryFire, RetryCancel, RetryCheck, RetryPublish, brokerVars, historyVars
  <2>2. CASE queue' = queue
    <3>1. \A s \in retries' : \E t \in retries : t.msg = s.msg
      <4>1. CASE RetryExit(r)
        BY <4>1 DEF RetryExit
      <4>2. CASE \E x \in Stages : RetryMove(r, x)
        BY <4>2 DEF RetryMove
      <4> QED
        BY <1>10, <4>1, <4>2, ZenonT(30) DEF RetryStep, RetryFire, RetryCancel, RetryCheck, RetryPublish, Stages
    <3> QED
      BY <1>1, <2>1, <2>2, <3>1
  <2>3. CASE queue' = queue \cup {r.msg} /\ retries' = retries \ {r}
    <3>1. PICK m \in Message : m = r.msg /\ m.attempts \in Nat
      BY DEF TypeOK, Message
    <3>2. At("retry", None, m) /\ "retry" \in Places /\ "queue" \in Places
      BY <3>1 DEF At, Places
    <3>3. \A s \in retries' : s \in retries /\ s.msg # m
      BY <2>3, <3>1 DEF WgInv
    <3>4. ASSUME NEW x \in Places, NEW y \in Consumers \cup {None}, NEW z \in Message, At(x, y, z)'
          PROVE  \/ At(x, y, z) /\ <<x, y, z>> # <<"retry", None, m>>
                 \/ <<x, y, z>> = <<"queue", None, m>>
      BY <2>1, <2>3, <3>1, <3>3, <3>4 DEF At
    <3>5. Used("queue", m) = Used("retry", m) /\ runs'[j] = runs[j] /\ lostAcks'[j] = lostAcks[j]
      BY <2>1 DEF Used
    <3>6. Becomes("retry", None, m, "queue", None, m)
      BY <3>2, <3>4, ZenonT(30) DEF Becomes
    <3> QED
      BY <1>0, <3>2, <3>5, <3>6, CopyPasses, ZenonT(20)
  <2> QED
    BY <1>10, <2>2, <2>3, ZenonT(30) DEF RetryStep, RetryFire, RetryCancel, RetryCheck, RetryPublish,
                                    RetryExit, brokerVars
<1>11. ASSUME MainStep
       PROVE  Within(j)'
  <2>1. CASE Shutdown \/ ShutdownDone \/ ShutdownTimeout
    BY <1>1, <2>1, ZenonT(30) DEF Shutdown, ShutdownDone, ShutdownTimeout, brokerVars, historyVars
  <2>2. CASE CloseQueue
    BY <1>4, <2>2 DEF CloseQueue
  <2>3. CASE Die
    <3>1. /\ \A c \in Consumers : buf'[c] \subseteq buf[c] /\ loop'[c] # "handling"
          /\ retries' \subseteq retries /\ runs' = runs /\ CloseChannels(Consumers)
      BY <2>3 DEF Die
    <3> QED
      BY <1>4, <3>1
  <2>4. CASE Boot
    <3>1. /\ \A c \in Consumers : loop'[c] # "handling"
          /\ retries' = {} /\ UNCHANGED <<queue, unacked, buf, runs, lostAcks>>
      BY <2>4 DEF Boot, brokerVars, historyVars
    <3> QED
      BY <1>1, <3>1
  <2> QED
    BY <1>11, <2>1, <2>2, <2>3, <2>4 DEF MainStep, Exit, Crash
<1>12. CASE UNCHANGED vars
  BY <1>1, <1>12, ZenonT(30) DEF vars, brokerVars, workerVars, historyVars
<1> QED
  BY <1>2, <1>3, <1>5, <1>6, <1>7, <1>8, <1>9, <1>10, <1>11, <1>12 DEF Next, LoopStep

(* At the start there is no copy of any job. *)
LEMMA RunsInit == Init => RunsInv
<1> SUFFICES ASSUME Init PROVE RunsInv
  OBVIOUS
<1>1. /\ queue = {} /\ retries = {} /\ accepted = {} /\ main = "running"
      /\ \A c \in Consumers : /\ unacked[c] = {} /\ buf[c] = {} /\ cur[c] = None
                              /\ loop[c] = "none" /\ ~open[c]
      /\ \A j \in Jobs : runs[j] = 0 /\ lostAcks[j] = 0
  BY DEF Init, Started
<1>2. HoldInv
  BY <1>1 DEF HoldInv, HoldAt
<1>3. SoundInv
  <2>1. queue = {} /\ retries = {} /\ \A c \in Consumers : unacked[c] = {}
    BY <1>1
  <2>2. Held = {}
    BY <2>1, ZenonT(30) DEF Held
  <2> QED
    BY <1>1, <2>2 DEF SoundInv
<1>4. ASSUME NEW j \in Jobs PROVE Within(j)
  <2>1. \A p \in Places, c \in Consumers \cup {None}, m \in Message : ~At(p, c, m)
    BY <1>1 DEF At
  <2>2. Credit(j) = {}
    BY <2>1, CreditMember, ZenonT(30)
  <2>3. IsFiniteSet({}) /\ Cardinality({}) = 0
    BY FS_EmptySet
  <2>4. 0 + 0 <= MaxRuns(j) * (1 + 0)
    BY MaxRunsNat, SMTT(30)
  <2> QED
    BY <1>1, <2>2, <2>3, <2>4 DEF Within
<1> QED
  BY <1>2, <1>3, <1>4 DEF RunsInv

(* A job runs at most max_retry times, once at least, and each further     *)
(* round of runs is paid for by an ack that was lost (Worker.handleMessage *)
(* with CanRetry and retryJob, under the adapter's redelivery).            *)
THEOREM RunsStayBounded == Spec => []RunsBounded
<1>1. Init => TypeInv /\ WgInv /\ RunsInv
  BY TypeInit, WgInit, RunsInit
<1>2. TypeInv /\ WgInv /\ RunsInv /\ [Next]_vars => (TypeInv /\ WgInv /\ RunsInv)'
  <2> SUFFICES ASSUME TypeInv, WgInv, RunsInv, [Next]_vars
               PROVE  (TypeInv /\ WgInv /\ RunsInv)'
    OBVIOUS
  <2>1. TypeInv' /\ WgInv'
    BY TypeStep, WgStep
  <2>2. HoldInv' /\ SoundInv'
    BY <2>1, HoldStep, SoundStep DEF RunsInv
  <2>3. \A j \in Jobs : Within(j)'
    BY <2>1, CreditStep
  <2> QED
    BY <2>1, <2>2, <2>3 DEF RunsInv
<1>3. TypeInv /\ RunsInv => RunsBounded
  <2> SUFFICES ASSUME TypeInv, RunsInv, NEW j \in Jobs
               PROVE  runs[j] <= MaxRuns(j) * (1 + lostAcks[j])
    BY DEF RunsBounded
  <2>1. IsFiniteSet(Credit(j)) /\ runs[j] + Cardinality(Credit(j)) <= MaxRuns(j) * (1 + lostAcks[j])
    BY DEF RunsInv, Within
  <2>2. Cardinality(Credit(j)) \in Nat /\ runs[j] \in Nat /\ lostAcks[j] \in Nat /\ MaxRuns(j) \in Nat
    BY <2>1, FS_CardinalityType, MaxRunsNat DEF TypeInv, TypeOK
  <2> QED
    BY <2>1, <2>2, SMTT(30)
<1> QED
  BY <1>1, <1>2, <1>3, PTL DEF Spec

-----------------------------------------------------------------------------
(* What a consumer has taken up has run, or was given up. *)
TakenUp ==
  \A c \in Consumers : loop[c] \in {"handling", "settle"} =>
    runs[cur[c].job] > 0 \/ cur[c].job \in finished

(* Only Receive takes a delivery up, and it calls the handler or gives the *)
(* job up.                                                                 *)
LEMMA TakenUpStep ==
  ASSUME TypeInv, TypeInv', TakenUp, [Next]_vars
  PROVE  TakenUp'
<1> USE DEF TypeInv
<1>1. ASSUME finished \subseteq finished', \A j \in Jobs : runs'[j] >= runs[j],
             \A c \in Consumers : loop'[c] \in {"handling", "settle"} =>
               loop[c] \in {"handling", "settle"} /\ cur'[c] = cur[c]
      PROVE  TakenUp'
  <2> SUFFICES ASSUME NEW c \in Consumers, loop'[c] \in {"handling", "settle"}
               PROVE  runs'[cur'[c].job] > 0 \/ cur'[c].job \in finished'
    BY DEF TakenUp
  <2>1. cur[c] \in Message /\ cur'[c] = cur[c]
    BY <1>1 DEF InHand
  <2>2. cur[c].job \in Jobs /\ runs[cur[c].job] \in Nat /\ runs'[cur[c].job] \in Nat
    BY <2>1 DEF Message, TypeOK
  <2>3. runs[cur[c].job] > 0 \/ cur[c].job \in finished
    BY <1>1 DEF TakenUp
  <2> QED
    BY <1>1, <2>1, <2>2, <2>3
<1>2. ASSUME UNCHANGED <<loop, cur, runs>>, finished \subseteq finished'
      PROVE  TakenUp'
  BY <1>1, <1>2 DEF TypeOK
<1>3. ASSUME NEW c \in Consumers, Receive(c)
      PROVE  TakenUp'
  <2>1. PICK m \in buf[c] :
          /\ cur' = [cur EXCEPT ![c] = m]
          /\ IF Type[m.job] = "registered"
             THEN /\ loop' = [loop EXCEPT ![c] = "handling"]
                  /\ runs' = [runs EXCEPT ![m.job] = @ + 1]
                  /\ UNCHANGED finished
             ELSE /\ loop' = [loop EXCEPT ![c] = "settle"]
                  /\ finished' = finished \cup {m.job}
                  /\ UNCHANGED runs
    BY <1>3, ZenonT(30) DEF Receive
  <2>2. m \in Message /\ m.job \in Jobs
    BY DEF TypeOK, Message
  <2>3. finished \subseteq finished' /\ \A j \in Jobs : runs'[j] >= runs[j]
    BY <2>1, <2>2 DEF TypeOK
  <2>4. cur'[c] = m /\ (runs'[m.job] > 0 \/ m.job \in finished')
    BY <2>1, <2>2 DEF TypeOK
  <2>5. \A d \in Consumers \ {c} : loop'[d] = loop[d] /\ cur'[d] = cur[d]
    BY <2>1 DEF TypeOK
  <2>6. ASSUME NEW d \in Consumers \ {c}, loop'[d] \in {"handling", "settle"}
        PROVE  runs'[cur'[d].job] > 0 \/ cur'[d].job \in finished'
    <3>1. cur[d] \in Message /\ cur[d].job \in Jobs
      BY <2>5, <2>6 DEF InHand, Message
    <3>2. runs[cur[d].job] \in Nat /\ runs'[cur[d].job] \in Nat
      BY <3>1 DEF TypeOK
    <3>3. cur'[d] = cur[d] /\ (runs[cur[d].job] > 0 \/ cur[d].job \in finished)
      BY <2>5, <2>6 DEF TakenUp
    <3>4. runs'[cur[d].job] >= runs[cur[d].job] /\ finished \subseteq finished'
      BY <2>3, <3>1
    <3>5. runs[cur[d].job] > 0 => runs'[cur[d].job] > 0
      BY <3>2, <3>4
    <3> QED
      BY <3>3, <3>4, <3>5
  <2> QED
    BY <2>4, <2>6 DEF TakenUp
<1>4. ASSUME NEW c \in Consumers,
             \/ HandlerOk(c) \/ HandlerFail(c) \/ Settle(c) \/ LoopStop(c)
             \/ LoopLost(c) \/ Reconnect(c) \/ ReconnectHalt(c) \/ Consume(c)
      PROVE  TakenUp'
  <2>1. runs' = runs /\ finished \subseteq finished'
    BY <1>4 DEF HandlerOk, HandlerFail, Settle, LoopStop, LoopLost, Reconnect, ReconnectHalt, Consume,
                historyVars
  <2>2. \/ UNCHANGED loop /\ UNCHANGED cur
        \/ loop[c] = "handling" /\ loop' = [loop EXCEPT ![c] = "settle"] /\ UNCHANGED cur
        \/ \E v \in {"select", "reconnect", "ended"} :
             loop' = [loop EXCEPT ![c] = v] /\ (UNCHANGED cur \/ cur' = [cur EXCEPT ![c] = None])
    BY <1>4, ZenonT(30) DEF HandlerOk, HandlerFail, Settle, LoopStop, LoopLost, Reconnect, ReconnectHalt, Consume
  <2>3. \A d \in Consumers : loop'[d] \in {"handling", "settle"} =>
          loop[d] \in {"handling", "settle"} /\ cur'[d] = cur[d]
    BY <2>2 DEF TypeOK
  <2> QED
    BY <1>1, <2>1, <2>3 DEF TypeOK
<1>5. ASSUME \/ \E j \in Jobs : Dispatch(j)
             \/ \E c \in Consumers : Deliver(c) \/ ChannelDrop(c) \/ ConsumeStop(c)
             \/ \E r \in retries : RetryStep(r)
             \/ Shutdown \/ ShutdownDone \/ ShutdownTimeout \/ CloseQueue \/ UNCHANGED vars
      PROVE  TakenUp'
  <2>1. UNCHANGED <<loop, cur, runs, finished>>
    BY <1>5, ZenonT(30) DEF Dispatch, Deliver, ChannelDrop, ConsumeStop, RetryStep, RetryFire, RetryCancel,
      RetryCheck, RetryPublish, Shutdown, ShutdownDone, ShutdownTimeout, CloseQueue, vars,
      workerVars, historyVars
  <2> QED
    BY <1>2, <2>1
<1>6. ASSUME Die \/ Boot
      PROVE  TakenUp'
  BY <1>6 DEF Die, Boot, TakenUp
<1> QED
  BY <1>3, <1>4, <1>5, <1>6 DEF Next, LoopStep, ConsumeStep, MainStep, Exit, Crash

-----------------------------------------------------------------------------
(* A step that leaves the histories alone, and the jobs someone answers    *)
(* for, is invisible to whoever dispatches jobs.                           *)
LEMMA DeliveryStutter ==
  ASSUME UNCHANGED historyVars, HeldJobs' = HeldJobs
  PROVE  UNCHANGED Delivery!deliveryVars
BY DEF historyVars, Delivery!deliveryVars

(* A body that joins adds its own job to those answered for. *)
LEMMA HeldJobsJoin ==
  ASSUME NEW m, Held' = Held \cup {m}
  PROVE  HeldJobs' = HeldJobs \cup {m.job}
BY DEF HeldJobs

(* A body that leaves takes at most its own job away. *)
LEMMA HeldJobsLeave ==
  ASSUME NEW m, Held' \subseteq Held, Held \subseteq Held' \cup {m}
  PROVE  HeldJobs' \subseteq HeldJobs /\ HeldJobs \subseteq HeldJobs' \cup {m.job}
BY DEF HeldJobs

(* A retry goroutine that goes on to its next stage holds the same body. *)
LEMMA HeldAfterMove ==
  ASSUME NEW r \in retries, NEW stage, RetryMove(r, stage), UNCHANGED <<queue, unacked>>
  PROVE  Held' = Held
<1>1. {s.msg : s \in retries'} = {s.msg : s \in retries}
  <2>1. retries' = (retries \ {r}) \cup {[msg |-> r.msg, stage |-> stage]}
    BY DEF RetryMove
  <2>2. [msg |-> r.msg, stage |-> stage].msg = r.msg
    OBVIOUS
  <2> QED
    BY <2>1, <2>2
<1> QED
  BY <1>1 DEF Held

(* One that ends gives its body up, unless another copy of it is held. *)
LEMMA HeldAfterExit ==
  ASSUME NEW r \in retries, RetryExit(r), UNCHANGED <<queue, unacked>>
  PROVE  Held' \subseteq Held /\ Held \subseteq Held' \cup {r.msg}
BY DEF RetryExit, Held

(* Channels that close bring a delivery again only where it was handled. *)
LEMMA HandledAgainRan ==
  ASSUME TypeInv, HoldInv, TakenUp, NEW C \in SUBSET Consumers, NEW j \in Jobs, HandledAgain(C, j) > 0
  PROVE  runs[j] > 0 \/ j \in finished
<1> DEFINE S == {c \in C : cur[c] # None /\ cur[c] \in unacked[c] /\ cur[c].job = j}
<1>1. S # {}
  <2> SUFFICES ASSUME S = {}
               PROVE  FALSE
    OBVIOUS
  <2>1. Cardinality(S) = 0
    BY FS_EmptySet, ZenonT(30)
  <2> QED
    BY <2>1 DEF HandledAgain
<1>2. PICK c \in S : TRUE
  BY <1>1
<1>3. c \in Consumers /\ cur[c] # None /\ cur[c].job = j
  BY <1>2
<1>4. loop[c] \in {"handling", "settle"}
  BY <1>3 DEF HoldInv, HoldAt
<1> QED
  BY <1>3, <1>4 DEF TakenUp

(* Channels that close are an interruption, with or without the retries    *)
(* that go down with the process.                                          *)
LEMMA ClosingInterrupts ==
  ASSUME TypeInv, HoldInv, TakenUp, NEW C \in SUBSET Consumers, CloseChannels(C),
         UNCHANGED <<accepted, finished, runs>>,
         dropped \subseteq dropped', \A j \in dropped' \ dropped : j \in Jobs /\ runs[j] > 0,
         HeldJobs' \subseteq HeldJobs, HeldJobs \ HeldJobs' \subseteq dropped'
  PROVE  Delivery!Interrupt
<1>1. ASSUME NEW j \in Jobs
      PROVE  lostAcks'[j] >= lostAcks[j] /\ (lostAcks'[j] > lostAcks[j] => runs[j] > 0 \/ j \in finished)
  <2>1. lostAcks[j] \in Nat /\ HandledAgain(C, j) \in Nat
    BY HandledAgainNat DEF TypeInv, TypeOK
  <2>2. lostAcks'[j] = lostAcks[j] + HandledAgain(C, j)
    BY DEF CloseChannels
  <2>3. HandledAgain(C, j) > 0 => runs[j] > 0 \/ j \in finished
    BY HandledAgainRan
  <2>4. lostAcks'[j] >= lostAcks[j] /\ (lostAcks'[j] > lostAcks[j] => HandledAgain(C, j) > 0)
    BY <2>1, <2>2, SMTT(30)
  <2> QED
    BY <2>3, <2>4
<1>2. lostAcks' \in [Jobs -> Nat]
  BY CloseChannelsType DEF TypeInv
<1> QED
  BY <1>1, <1>2 DEF Delivery!Interrupt, Delivery!HasRun

(* A retry given up is an interruption too. *)
LEMMA GivingUpInterrupts ==
  ASSUME TypeInv, LossInv, NEW r \in retries, RetryExit(r), UNCHANGED <<queue, unacked>>,
         dropped' = dropped \cup {r.msg.job}, UNCHANGED <<accepted, finished, runs, lostAcks>>
  PROVE  Delivery!Interrupt
<1>1. r.msg.job \in Jobs /\ runs[r.msg.job] > 0
  BY DEF TypeInv, TypeOK, Message, LossInv
<1>2. Held' \subseteq Held /\ Held \subseteq Held' \cup {r.msg}
  BY HeldAfterExit
<1>3. HeldJobs' \subseteq HeldJobs /\ HeldJobs \subseteq HeldJobs' \cup {r.msg.job}
  BY <1>2, HeldJobsLeave
<1>4. /\ lostAcks' \in [Jobs -> Nat]
      /\ \A j \in Jobs : lostAcks'[j] >= lostAcks[j] /\ ~(lostAcks'[j] > lostAcks[j])
  BY SMTT(30) DEF TypeInv, TypeOK
<1> QED
  BY <1>1, <1>3, <1>4 DEF Delivery!Interrupt, Delivery!HasRun

-----------------------------------------------------------------------------
DeliveryInv == TypeInv /\ WgInv /\ DownInv /\ LossInv /\ RunsInv /\ TakenUp

(* A delivery that is taken up is a call the retries allow, or the end of  *)
(* a job without handler.                                                  *)
LEMMA ReceiveDelivers ==
  ASSUME DeliveryInv, DeliveryInv', NEW c \in Consumers, Receive(c)
  PROVE  \E j \in Jobs : Delivery!Run(j) \/ Delivery!Refuse(j)
<1>1. PICK m \in buf[c] :
        /\ lostAcks' = IF m \in unacked[c] THEN lostAcks ELSE [lostAcks EXCEPT ![m.job] = @ + 1]
        /\ IF Type[m.job] = "registered"
           THEN /\ runs' = [runs EXCEPT ![m.job] = @ + 1]
                /\ UNCHANGED finished
           ELSE /\ finished' = finished \cup {m.job}
                /\ UNCHANGED runs
  BY ZenonT(30) DEF Receive
<1> DEFINE j == m.job
<1>2. m \in Message /\ j \in Jobs
  BY DEF DeliveryInv, TypeInv, TypeOK, Message
<1>3. j \in accepted
  BY DEF DeliveryInv, RunsInv, SoundInv, Sound
<1>4. UNCHANGED <<queue, unacked, retries, accepted, dropped>>
  BY DEF Receive
<1>5. HeldJobs' = HeldJobs
  BY <1>4 DEF HeldJobs, Held
<1>6. Delivery!TakeUp(j)
  <2>1. CASE m \in unacked[c]
    <3>1. m \in Held
      BY <2>1 DEF Held
    <3> QED
      BY <1>1, <2>1, <3>1 DEF HeldJobs, Delivery!TakeUp
  <2>2. CASE m \notin unacked[c]
    BY <1>1, <2>2 DEF Delivery!TakeUp
  <2> QED
    BY <2>1, <2>2
<1>7. CASE Type[j] = "registered"
  <2>1. IsFiniteSet(Credit(j)') /\ runs'[j] + Cardinality(Credit(j)') <= MaxRuns(j) * (1 + lostAcks'[j])
    BY <1>2 DEF DeliveryInv, RunsInv, Within, MaxRuns
  <2>2. /\ Cardinality(Credit(j)') \in Nat
        /\ runs[j] \in Nat /\ lostAcks'[j] \in Nat /\ MaxRuns(j) \in Nat
    BY <1>2, <2>1, FS_CardinalityType, MaxRunsNat DEF DeliveryInv, TypeInv, TypeOK
  <2>3. runs' = [runs EXCEPT ![j] = @ + 1] /\ UNCHANGED finished
    BY <1>1, <1>7
  <2>4. runs'[j] = runs[j] + 1
    BY <1>2, <2>3 DEF DeliveryInv, TypeInv, TypeOK
  <2>5. MaxRuns(j) * (1 + lostAcks'[j]) \in Nat
    BY <2>2, SMTT(30)
  <2>6. runs[j] < MaxRuns(j) * (1 + lostAcks'[j])
    <3> HIDE DEF j
    <3> DEFINE b == MaxRuns(j) * (1 + lostAcks'[j])
               n == Cardinality(Credit(j)')
    <3>1. runs[j] + 1 + n <= b /\ b \in Nat /\ n \in Nat
      BY <2>1, <2>2, <2>4, <2>5
    <3> HIDE DEF b, n
    <3>2. runs[j] < b
      BY <2>2, <3>1, SMTT(30)
    <3> QED
      BY <3>2 DEF b
  <2>7. Delivery!MayRun(j, lostAcks'[j])
    BY <1>2, <2>6 DEF Delivery!MayRun
  <2>8. Delivery!Run(j)
    BY <1>2, <1>3, <1>4, <1>5, <1>6, <1>7, <2>3, <2>7 DEF Delivery!Run
  <2> QED
    BY <1>2, <2>8
<1>8. CASE Type[j] # "registered"
  <2>1. finished' = finished \cup {j} /\ UNCHANGED runs
    BY <1>1, <1>8
  <2>2. Delivery!Refuse(j)
    BY <1>2, <1>3, <1>4, <1>5, <1>6, <1>8, <2>1 DEF Delivery!Refuse
  <2> QED
    BY <1>2, <2>2
<1> QED
  BY <1>7, <1>8

(* A handler that failed is a retry the allowance has room for, or the end *)
(* of the job.                                                             *)
LEMMA FailureDelivers ==
  ASSUME DeliveryInv, NEW c \in Consumers, HandlerFail(c)
  PROVE  \E j \in Jobs : Delivery!Retry(j) \/ Delivery!Finish(j)
<1> DEFINE j == cur[c].job
           m == IncrementAttempts(cur[c], FreshMid)
<1>1. cur[c] \in Message /\ j \in Jobs /\ loop[c] = "handling" /\ runs[j] > 0
  BY DEF DeliveryInv, TypeInv, InHand, HandlerFail, Message, LossInv
<1>2. m.job = j /\ m.attempts = cur[c].attempts + 1 /\ cur[c].attempts \in Nat
  BY <1>1 DEF IncrementAttempts, Message
<1>3. UNCHANGED <<queue, unacked, accepted, dropped, runs, lostAcks>>
  BY DEF HandlerFail, brokerVars
<1>4. \/ CanRetry(m) /\ RetryJob(m) /\ UNCHANGED finished
      \/ finished' = finished \cup {m.job} /\ UNCHANGED retries
  BY DEF HandlerFail
<1> HIDE DEF m
<1>5. CASE CanRetry(m) /\ RetryJob(m) /\ UNCHANGED finished
  <2>1. Held' = Held \cup {m}
    <3>1. retries' = retries \cup {[msg |-> m, stage |-> "backoff"]}
      BY <1>5 DEF RetryJob
    <3>2. [msg |-> m, stage |-> "backoff"].msg = m
      OBVIOUS
    <3>3. {r.msg : r \in retries'} = {r.msg : r \in retries} \cup {m}
      BY <3>1, <3>2
    <3> QED
      BY <1>3, <3>3 DEF Held
  <2>2. HeldJobs' = HeldJobs \cup {j}
    BY <1>2, <2>1, HeldJobsJoin
  <2>3. At("hand", c, cur[c])
    BY <1>1 DEF At
  <2>4. Block("hand", c, cur[c], j) \subseteq Credit(j)
    BY <1>1, <2>3, BlockCredit DEF Places
  <2>5. Used("hand", cur[c]) < MaxRuns(j)
    <3>1. cur[c].attempts + 1 < MaxRetry[j] /\ MaxRetry[j] \in Nat
      BY <1>1, <1>2, <1>5, JobInputs DEF CanRetry
    <3> QED
      BY <1>2, <3>1, SMTT(30) DEF Used, MaxRuns
  <2>6. /\ IsFiniteSet(Block("hand", c, cur[c], j))
        /\ Cardinality(Block("hand", c, cur[c], j)) = MaxRuns(j) - Used("hand", cur[c])
    <3>1. "hand" \in Places /\ Used("hand", cur[c]) \in Nat /\ MaxRuns(j) \in Nat
      BY <1>1, <1>2, MaxRunsNat DEF Places, Used
    <3> HIDE DEF j
    <3>2. ~(Used("hand", cur[c]) >= MaxRuns(j))
      BY <2>5, <3>1, SMTT(30)
    <3> QED
      BY <1>1, <3>1, <3>2, BlockCard
  <2>7. IsFiniteSet(Credit(j)) /\ runs[j] + Cardinality(Credit(j)) <= MaxRuns(j) * (1 + lostAcks[j])
    BY <1>1 DEF DeliveryInv, RunsInv, Within
  <2>8. Cardinality(Block("hand", c, cur[c], j)) <= Cardinality(Credit(j))
    BY <2>4, <2>7, FS_Subset
  <2>9. /\ runs[j] \in Nat /\ lostAcks[j] \in Nat /\ MaxRuns(j) \in Nat
        /\ Cardinality(Credit(j)) \in Nat /\ Used("hand", cur[c]) \in Nat
    <3>1. runs[j] \in Nat /\ lostAcks[j] \in Nat
      BY <1>1 DEF DeliveryInv, TypeInv, TypeOK
    <3>2. MaxRuns(j) \in Nat /\ Used("hand", cur[c]) \in Nat
      BY <1>1, <1>2, MaxRunsNat DEF Used
    <3>3. Cardinality(Credit(j)) \in Nat
      BY <2>7, FS_CardinalityType
    <3> QED
      BY <3>1, <3>2, <3>3
  <2>10. runs[j] < MaxRuns(j) * (1 + lostAcks[j])
    <3>1. MaxRuns(j) * (1 + lostAcks[j]) \in Nat
      BY <2>9, SMTT(30)
    <3> HIDE DEF j
    <3> DEFINE b == MaxRuns(j) * (1 + lostAcks[j])
               n == Cardinality(Credit(j))
    <3>2. runs[j] + n <= b /\ b \in Nat /\ n \in Nat
      BY <2>7, <2>9, <3>1
    <3>3. n > 0
      <4>1. MaxRuns(j) - Used("hand", cur[c]) > 0
        BY <2>5, <2>9, SMTT(30)
      <4>2. Cardinality(Block("hand", c, cur[c], j)) \in Nat
        BY <2>6, FS_CardinalityType
      <4>3. Cardinality(Block("hand", c, cur[c], j)) > 0
        BY <2>6, <4>1
      <4> HIDE DEF b
      <4> QED
        BY <2>8, <2>9, <4>2, <4>3
    <3> HIDE DEF b, n
    <3>4. runs[j] < b
      BY <2>9, <3>2, <3>3, SMTT(30)
    <3> QED
      BY <3>4 DEF b
  <2>11. Delivery!MayRun(j, lostAcks[j])
    BY <1>1, <2>10 DEF Delivery!MayRun
  <2>12. Delivery!Retry(j)
    BY <1>1, <1>3, <1>5, <2>2, <2>11 DEF Delivery!Retry, Delivery!HasRun
  <2> QED
    BY <1>1, <2>12
<1>6. CASE finished' = finished \cup {m.job} /\ UNCHANGED retries
  <2>1. HeldJobs' = HeldJobs
    BY <1>3, <1>6 DEF HeldJobs, Held
  <2>2. Delivery!Finish(j)
    BY <1>1, <1>2, <1>3, <1>6, <2>1 DEF Delivery!Finish, Delivery!HasRun
  <2> QED
    BY <1>1, <2>2
<1> QED
  BY <1>4, <1>5, <1>6

(* An ack leaves a job with no copy only when the job has finished or a    *)
(* retry of it was given up.                                               *)
LEMMA SettleDelivers ==
  ASSUME DeliveryInv, NEW c \in Consumers, Settle(c)
  PROVE  \/ UNCHANGED Delivery!deliveryVars
         \/ \E j \in Jobs : Delivery!Settle(j)
<1> DEFINE j == cur[c].job
<1>1. cur[c] \in Message /\ j \in Jobs /\ Resolved(cur[c])
  BY DEF DeliveryInv, TypeInv, InHand, Settle, Message, LossInv
<1>2. /\ unacked' = [unacked EXCEPT ![c] = @ \ {cur[c]}]
      /\ UNCHANGED <<queue, retries, historyVars>>
  BY DEF Settle
<1>3. Held' \subseteq Held /\ Held \subseteq Held' \cup {cur[c]}
  <2>1. \A d \in Consumers : unacked'[d] \subseteq unacked[d] /\ unacked[d] \subseteq unacked'[d] \cup {cur[c]}
    BY <1>2 DEF DeliveryInv, TypeInv, TypeOK
  <2> QED
    BY <1>2, <2>1 DEF Held
<1>4. HeldJobs' \subseteq HeldJobs /\ HeldJobs \subseteq HeldJobs' \cup {j}
  BY <1>3, HeldJobsLeave
<1>5. CASE j \in HeldJobs' \/ j \notin HeldJobs
  BY <1>2, <1>4, <1>5, DeliveryStutter
<1>6. CASE j \in HeldJobs /\ j \notin HeldJobs'
  <2>1. HeldJobs' = HeldJobs \ {j}
    BY <1>4, <1>6
  <2>2. ~ \E n \in Held : n.job = j /\ n.attempts > cur[c].attempts
    <3> SUFFICES ASSUME NEW n \in Held, n.job = j, n.attempts > cur[c].attempts
                 PROVE  FALSE
      OBVIOUS
    <3>1. n # cur[c]
      BY <1>1, SMTT(30) DEF Message
    <3>2. n \in Held'
      BY <1>3, <3>1
    <3> QED
      BY <1>6, <3>2 DEF HeldJobs
  <2>3. j \in finished \cup dropped
    BY <1>1, <2>2 DEF Resolved
  <2>4. Delivery!Settle(j)
    BY <1>2, <2>1, <2>3 DEF Delivery!Settle, historyVars
  <2> QED
    BY <1>1, <2>4
<1> QED
  BY <1>5, <1>6

(* A death closes every channel and gives up every retry. *)
LEMMA DeathInterrupts ==
  ASSUME DeliveryInv, Die
  PROVE  Delivery!Interrupt
<1>1. /\ CloseChannels(Consumers) /\ retries' = {}
      /\ dropped' = dropped \cup {r.msg.job : r \in retries}
      /\ UNCHANGED <<accepted, finished, runs>>
  BY DEF Die
<1>2. \A j \in dropped' \ dropped : j \in Jobs /\ runs[j] > 0
  BY <1>1 DEF DeliveryInv, TypeInv, TypeOK, Message, LossInv
<1>3. ASSUME NEW m
      PROVE  m \in queue' \cup (UNION {unacked'[c] : c \in Consumers})
             <=> m \in queue \cup (UNION {unacked[c] : c \in Consumers})
  BY <1>1 DEF CloseChannels, PutBack, DeliveryInv, TypeInv, TypeOK
<1>4. Held' \subseteq Held /\ Held \subseteq Held' \cup {r.msg : r \in retries}
  BY <1>1, <1>3 DEF Held
<1>5. HeldJobs' \subseteq HeldJobs /\ HeldJobs \ HeldJobs' \subseteq dropped'
  BY <1>1, <1>4 DEF HeldJobs
<1> QED
  BY <1>1, <1>2, <1>5, ClosingInterrupts DEF DeliveryInv, RunsInv

-----------------------------------------------------------------------------
(* Every step of the worker, the broker and the process is a step of the   *)
(* delivery, or none of its business.                                      *)
LEMMA DeliveryStep ==
  ASSUME DeliveryInv, DeliveryInv', [Next]_vars
  PROVE  [Delivery!DeliveryNext]_(Delivery!deliveryVars)
<1>0. TypeOK /\ TypeInv /\ HoldInv /\ TakenUp /\ LossInv
  BY DEF DeliveryInv, TypeInv, RunsInv
<1>1. ASSUME NEW j \in Jobs, Dispatch(j)
      PROVE  Delivery!Accept(j)
  <2> DEFINE m == [mid |-> FreshMid, job |-> j, attempts |-> 0]
  <2>1. queue' = queue \cup {m} /\ UNCHANGED <<unacked, retries>>
    BY <1>1 DEF Dispatch, workerVars
  <2>2. m.job = j
    OBVIOUS
  <2> HIDE DEF m
  <2>3. Held' = Held \cup {m}
    BY <2>1 DEF Held
  <2>4. HeldJobs' = HeldJobs \cup {j}
    BY <2>2, <2>3, HeldJobsJoin
  <2> QED
    BY <1>1, <2>4 DEF Dispatch, Delivery!Accept
<1>2. ASSUME NEW c \in Consumers, Deliver(c)
      PROVE  UNCHANGED Delivery!deliveryVars
  <2>1. PICK m \in queue : queue' = queue \ {m} /\ unacked' = [unacked EXCEPT ![c] = @ \cup {m}]
    BY <1>2 DEF Deliver
  <2>2. UNCHANGED <<retries, historyVars>>
    BY <1>2 DEF Deliver, workerVars
  <2>3. \A n : (\E d \in Consumers : n \in unacked'[d]) <=> n = m \/ \E d \in Consumers : n \in unacked[d]
    BY <1>0, <2>1 DEF TypeOK
  <2>4. Held' = Held
    BY <2>1, <2>2, <2>3 DEF Held
  <2> QED
    BY <2>2, <2>4, DeliveryStutter DEF HeldJobs
<1>3. ASSUME NEW c \in Consumers, ChannelDrop(c) \/ LoopStop(c)
      PROVE  Delivery!Interrupt
  <2>1. CloseChannels({c}) /\ UNCHANGED <<retries, accepted, finished, dropped, runs>>
    BY <1>3 DEF ChannelDrop, LoopStop, workerVars
  <2>2. HeldJobs' = HeldJobs
    BY <1>0, <2>1, HeldAfterClose DEF HeldJobs
  <2> QED
    BY <1>0, <2>1, <2>2, ClosingInterrupts
<1>4. ASSUME CloseQueue
      PROVE  Delivery!Interrupt
  <2>1. CloseChannels(Consumers) /\ UNCHANGED <<retries, accepted, finished, dropped, runs>>
    BY <1>4 DEF CloseQueue
  <2>2. HeldJobs' = HeldJobs
    BY <1>0, <2>1, HeldAfterClose DEF HeldJobs
  <2> QED
    BY <1>0, <2>1, <2>2, ClosingInterrupts
<1>5. ASSUME NEW c \in Consumers,
             Consume(c) \/ ConsumeStop(c) \/ LoopLost(c) \/ Reconnect(c) \/ ReconnectHalt(c)
      PROVE  UNCHANGED Delivery!deliveryVars
  <2>1. UNCHANGED <<queue, unacked, retries, historyVars>>
    BY <1>5, ZenonT(30) DEF Consume, ConsumeStop, LoopLost, Reconnect, ReconnectHalt, brokerVars
  <2> QED
    BY <2>1, DeliveryStutter DEF HeldJobs, Held
<1>6. ASSUME NEW c \in Consumers, HandlerOk(c)
      PROVE  \E j \in Jobs : Delivery!Finish(j)
  <2>1. cur[c].job \in Jobs /\ runs[cur[c].job] > 0
    BY <1>0, <1>6 DEF TypeInv, InHand, HandlerOk, Message, LossInv
  <2>2. HeldJobs' = HeldJobs
    BY <1>6 DEF HandlerOk, brokerVars, HeldJobs, Held
  <2>3. Delivery!Finish(cur[c].job)
    BY <1>6, <2>1, <2>2 DEF HandlerOk, Delivery!Finish, Delivery!HasRun
  <2> QED
    BY <2>1, <2>3
<1>7. ASSUME NEW r \in retries, RetryStep(r)
      PROVE  UNCHANGED Delivery!deliveryVars \/ Delivery!Interrupt
  <2>1. \/ /\ \E stage \in Stages : RetryMove(r, stage)
           /\ UNCHANGED <<queue, unacked, historyVars>>
        \/ /\ RetryExit(r) /\ dropped' = dropped \cup {r.msg.job}
           /\ UNCHANGED <<queue, unacked, accepted, finished, runs, lostAcks>>
        \/ /\ RetryExit(r) /\ queue' = queue \cup {r.msg}
           /\ UNCHANGED <<unacked, historyVars>>
    BY <1>7 DEF RetryStep, RetryFire, RetryCancel, RetryCheck, RetryPublish, brokerVars, historyVars, Stages
  <2>2. CASE /\ \E stage \in Stages : RetryMove(r, stage)
             /\ UNCHANGED <<queue, unacked, historyVars>>
    <3>1. Held' = Held
      BY <2>2, HeldAfterMove
    <3> QED
      BY <2>2, <3>1, DeliveryStutter DEF HeldJobs
  <2>3. CASE /\ RetryExit(r) /\ dropped' = dropped \cup {r.msg.job}
             /\ UNCHANGED <<queue, unacked, accepted, finished, runs, lostAcks>>
    BY <1>0, <2>3, GivingUpInterrupts
  <2>4. CASE /\ RetryExit(r) /\ queue' = queue \cup {r.msg}
             /\ UNCHANGED <<unacked, historyVars>>
    <3>1. Held' = Held
      BY <2>4 DEF RetryExit, Held
    <3> QED
      BY <2>4, <3>1, DeliveryStutter DEF HeldJobs
  <2> QED
    BY <2>1, <2>2, <2>3, <2>4
<1>8. ASSUME Shutdown \/ ShutdownDone \/ ShutdownTimeout \/ UNCHANGED vars
      PROVE  UNCHANGED Delivery!deliveryVars
  <2>1. UNCHANGED <<queue, unacked, retries, historyVars>>
    BY <1>8 DEF Shutdown, ShutdownDone, ShutdownTimeout, vars, brokerVars, workerVars
  <2> QED
    BY <2>1, DeliveryStutter DEF HeldJobs, Held
<1>9. ASSUME Boot
      PROVE  UNCHANGED Delivery!deliveryVars
  <2>1. UNCHANGED <<queue, unacked, retries, historyVars>>
    BY <1>9 DEF Boot, Started, brokerVars, DeliveryInv, DownInv
  <2> QED
    BY <2>1, DeliveryStutter DEF HeldJobs, Held
<1>10. ASSUME NEW c \in Consumers, Receive(c)
       PROVE  \E j \in Jobs : Delivery!Run(j) \/ Delivery!Refuse(j)
  BY <1>10, ReceiveDelivers
<1>11. ASSUME NEW c \in Consumers, HandlerFail(c)
       PROVE  \E j \in Jobs : Delivery!Retry(j) \/ Delivery!Finish(j)
  BY <1>11, FailureDelivers
<1>12. ASSUME NEW c \in Consumers, Settle(c)
       PROVE  UNCHANGED Delivery!deliveryVars \/ \E j \in Jobs : Delivery!Settle(j)
  BY <1>12, SettleDelivers
<1>13. ASSUME Die
       PROVE  Delivery!Interrupt
  BY <1>13, DeathInterrupts
<1> QED
  BY <1>1, <1>2, <1>3, <1>4, <1>5, <1>6, <1>7, <1>8, <1>9, <1>10, <1>11, <1>12, <1>13
  DEF Next, LoopStep, ConsumeStep, MainStep, Exit, Crash, Delivery!DeliveryNext

(* The worker with its queue is a job delivery: whatever the channels, the *)
(* broker and the process do, an accepted job is answered for until it has *)
(* finished or a retry of it was given up after a run, and each call of a  *)
(* handler is one the retries and the lost acks allow (Worker.consume,     *)
(* handleMessage and retryJob over the RabbitMQ adapter).                  *)
THEOREM WorkerImplementsDelivery == Spec => ImplementsDelivery
<1>1. Init => DeliveryInv
  <2>1. Init => TypeInv /\ WgInv /\ RunsInv
    BY TypeInit, WgInit, RunsInit
  <2>2. Init => DownInv /\ TakenUp
    BY DEF Init, Started, DownInv, TakenUp
  <2>3. Init => LossInv
    BY DEF Init, Started, LossInv, NoSilentLoss
  <2> QED
    BY <2>1, <2>2, <2>3 DEF DeliveryInv
<1>2. DeliveryInv /\ [Next]_vars => DeliveryInv'
  <2> SUFFICES ASSUME DeliveryInv, [Next]_vars
               PROVE  DeliveryInv'
    OBVIOUS
  <2> USE DEF DeliveryInv
  <2>1. TypeInv' /\ WgInv' /\ DownInv'
    BY TypeStep, WgStep, DownStep
  <2>2. HoldInv' /\ SoundInv'
    BY <2>1, HoldStep, SoundStep DEF RunsInv
  <2>3. \A j \in Jobs : Within(j)'
    BY <2>1, CreditStep
  <2>4. LossInv' /\ TakenUp'
    BY <2>1, LossStep, TakenUpStep
  <2> QED
    BY <2>1, <2>2, <2>3, <2>4 DEF RunsInv
<1>3. Init => Delivery!DeliveryInit
  BY DEF Init, Started, HeldJobs, Held, Delivery!DeliveryInit
<1>4. DeliveryInv /\ DeliveryInv' /\ [Next]_vars => [Delivery!DeliveryNext]_(Delivery!deliveryVars)
  BY DeliveryStep
<1> QED
  BY <1>1, <1>2, <1>3, <1>4, PTL DEF Spec, ImplementsDelivery, Delivery!DeliverySpec

-----------------------------------------------------------------------------
DeliveryType ==
  /\ accepted \subseteq Jobs
  /\ runs \in [Jobs -> Nat] /\ lostAcks \in [Jobs -> Nat]

(* More lost acks leave more room. *)
LEMMA RoomGrows ==
  ASSUME NEW a \in Nat, NEW k \in Nat, NEW l \in Nat, k <= l
  PROVE  a * (1 + k) <= a * (1 + l)
<1>1. PICK d \in Nat : l = k + d
  <2>1. l - k \in Nat /\ l = k + (l - k)
    BY SMTT(30)
  <2> QED
    BY <2>1
<1>2. a * (1 + l) = a * (1 + k) + a * d
  BY <1>1, SMTT(30)
<1>3. a * d \in Nat /\ a * (1 + k) \in Nat
  BY <1>1, SMTT(30)
<1> DEFINE x == a * (1 + k)
           y == a * d
<1>4. x \in Nat /\ y \in Nat /\ a * (1 + l) = x + y
  BY <1>2, <1>3
<1> HIDE DEF x, y
<1>5. x <= x + y
  BY <1>4, SMTT(30)
<1> QED
  BY <1>4, <1>5 DEF x

(* Calls that stay within the allowance and acks that only get lost keep   *)
(* a job within it.                                                        *)
LEMMA RoomKept ==
  ASSUME DeliveryType, DeliveryType', NEW j \in Jobs,
         runs[j] <= MaxRuns(j) * (1 + lostAcks[j]),
         lostAcks[j] <= lostAcks'[j],
         \/ runs'[j] = runs[j]
         \/ runs'[j] = runs[j] + 1 /\ runs[j] < MaxRuns(j) * (1 + lostAcks'[j])
  PROVE  runs'[j] <= MaxRuns(j) * (1 + lostAcks'[j])
<1>1. /\ runs[j] \in Nat /\ lostAcks[j] \in Nat /\ lostAcks'[j] \in Nat /\ MaxRuns(j) \in Nat
  BY MaxRunsNat DEF DeliveryType
<1>2. MaxRuns(j) * (1 + lostAcks[j]) <= MaxRuns(j) * (1 + lostAcks'[j])
  BY <1>1, RoomGrows
<1>3. MaxRuns(j) * (1 + lostAcks[j]) \in Nat /\ MaxRuns(j) * (1 + lostAcks'[j]) \in Nat
  BY <1>1, SMTT(30)
<1> DEFINE x == MaxRuns(j) * (1 + lostAcks[j])
           y == MaxRuns(j) * (1 + lostAcks'[j])
<1>4. /\ x \in Nat /\ y \in Nat /\ runs[j] <= x /\ x <= y
      /\ runs'[j] = runs[j] \/ (runs'[j] = runs[j] + 1 /\ runs[j] < y)
  BY <1>2, <1>3
<1> HIDE DEF x, y
<1>5. runs'[j] <= y
  BY <1>1, <1>4, SMTT(30)
<1> QED
  BY <1>5 DEF y

(* A delivery as JobDelivery describes it never loses an accepted job      *)
(* silently, never ends a job with a handler before it has run, and never  *)
(* calls a handler more often than the retries and the lost acks allow.    *)
THEOREM DeliveryKeepsPromise == Delivery!DeliverySpec => []Delivery!Promise
<1> DEFINE Inv == DeliveryType /\ Delivery!Promise
<1>0. [j \in Jobs |-> MaxRuns(j)] \in [Jobs -> Nat]
  BY MaxRunsNat
<1>1. Delivery!DeliveryInit => Inv
  <2> SUFFICES ASSUME Delivery!DeliveryInit
               PROVE  Inv
    OBVIOUS
  <2>1. \A j \in Jobs : 0 <= MaxRuns(j) * (1 + 0)
    BY MaxRunsNat, SMTT(30)
  <2> QED
    BY <2>1 DEF Delivery!DeliveryInit, DeliveryType, Delivery!Promise
<1>2. Inv /\ [Delivery!DeliveryNext]_(Delivery!deliveryVars) => Inv'
  <2> SUFFICES ASSUME Inv, [Delivery!DeliveryNext]_(Delivery!deliveryVars)
               PROVE  Inv'
    OBVIOUS
  <2>1. DeliveryType'
    <3>1. CASE UNCHANGED Delivery!deliveryVars
      BY <3>1 DEF DeliveryType, Delivery!deliveryVars
    <3>2. CASE Delivery!Interrupt
      BY <3>2 DEF DeliveryType, Delivery!Interrupt
    <3>3. ASSUME NEW j \in Jobs,
                 \/ Delivery!Accept(j) \/ Delivery!Run(j) \/ Delivery!Refuse(j)
                 \/ Delivery!Finish(j) \/ Delivery!Retry(j) \/ Delivery!Settle(j)
          PROVE  DeliveryType'
      <4>1. /\ accepted' = accepted \/ accepted' = accepted \cup {j}
            /\ runs' = runs \/ runs' = [runs EXCEPT ![j] = @ + 1]
            /\ lostAcks' = lostAcks \/ lostAcks' = [lostAcks EXCEPT ![j] = @ + 1]
        BY <3>3, ZenonT(30) DEF Delivery!Accept, Delivery!Run, Delivery!Refuse, Delivery!Finish,
                           Delivery!Retry, Delivery!Settle, Delivery!TakeUp
      <4>2. runs[j] + 1 \in Nat /\ lostAcks[j] + 1 \in Nat
        BY DEF DeliveryType
      <4> QED
        BY <4>1, <4>2 DEF DeliveryType
    <3> QED
      BY <3>1, <3>2, <3>3 DEF Delivery!DeliveryNext
  <2>2. \A j \in Jobs : runs[j] \in Nat /\ runs'[j] \in Nat /\ lostAcks[j] \in Nat /\ lostAcks'[j] \in Nat
    BY <2>1 DEF DeliveryType
  <2>3. \A j \in Jobs : runs[j] <= runs'[j] /\ lostAcks[j] <= lostAcks'[j]
    <3>1. CASE UNCHANGED Delivery!deliveryVars
      BY <2>2, <3>1 DEF Delivery!deliveryVars
    <3>2. CASE Delivery!Interrupt
      BY <2>2, <3>2 DEF Delivery!Interrupt
    <3>3. ASSUME NEW j \in Jobs,
                 \/ Delivery!Accept(j) \/ Delivery!Run(j) \/ Delivery!Refuse(j)
                 \/ Delivery!Finish(j) \/ Delivery!Retry(j) \/ Delivery!Settle(j)
          PROVE  \A k \in Jobs : runs[k] <= runs'[k] /\ lostAcks[k] <= lostAcks'[k]
      <4>1. runs' = runs \/ runs' = [runs EXCEPT ![j] = @ + 1]
        BY <3>3 DEF Delivery!Accept, Delivery!Run, Delivery!Refuse, Delivery!Finish,
                    Delivery!Retry, Delivery!Settle
      <4>2. lostAcks' = lostAcks \/ lostAcks' = [lostAcks EXCEPT ![j] = @ + 1]
        BY <3>3 DEF Delivery!Accept, Delivery!Run, Delivery!Refuse, Delivery!Finish,
                    Delivery!Retry, Delivery!Settle, Delivery!TakeUp
      <4> QED
        BY <2>2, <4>1, <4>2, SMTT(30) DEF DeliveryType
    <3> QED
      BY <3>1, <3>2, <3>3 DEF Delivery!DeliveryNext
  <2>4. Delivery!HasRun \subseteq Delivery!HasRun'
    BY <2>2, <2>3 DEF Delivery!HasRun
  <2>5. /\ accepted' \subseteq HeldJobs' \cup finished' \cup dropped'
        /\ dropped' \cup (finished' \cap {j \in Jobs : Type[j] = "registered"}) \subseteq Delivery!HasRun'
    <3>1. CASE UNCHANGED Delivery!deliveryVars
      BY <2>4, <3>1 DEF Delivery!deliveryVars, Delivery!Promise
    <3>2. CASE Delivery!Interrupt
      BY <2>4, <3>2 DEF Delivery!Interrupt, Delivery!Promise
    <3>3. ASSUME NEW j \in Jobs,
                 \/ Delivery!Accept(j) \/ Delivery!Run(j) \/ Delivery!Refuse(j)
                 \/ Delivery!Finish(j) \/ Delivery!Retry(j) \/ Delivery!Settle(j)
          PROVE  /\ accepted' \subseteq HeldJobs' \cup finished' \cup dropped'
                 /\ dropped' \cup (finished' \cap {k \in Jobs : Type[k] = "registered"}) \subseteq Delivery!HasRun'
      BY <2>4, <3>3 DEF Delivery!Accept, Delivery!Run, Delivery!Refuse, Delivery!Finish,
                        Delivery!Retry, Delivery!Settle, Delivery!Promise
    <3> QED
      BY <3>1, <3>2, <3>3 DEF Delivery!DeliveryNext
  <2>6. ASSUME NEW k \in Jobs
        PROVE  runs'[k] <= MaxRuns(k) * (1 + lostAcks'[k])
    <3>1. \/ runs'[k] = runs[k]
          \/ runs'[k] = runs[k] + 1 /\ runs[k] < MaxRuns(k) * (1 + lostAcks'[k])
      <4>1. CASE UNCHANGED Delivery!deliveryVars \/ Delivery!Interrupt
        BY <4>1 DEF Delivery!deliveryVars, Delivery!Interrupt
      <4>2. ASSUME NEW j \in Jobs,
                   \/ Delivery!Accept(j) \/ Delivery!Refuse(j)
                   \/ Delivery!Finish(j) \/ Delivery!Retry(j) \/ Delivery!Settle(j)
            PROVE  runs'[k] = runs[k]
        BY <4>2 DEF Delivery!Accept, Delivery!Refuse, Delivery!Finish, Delivery!Retry, Delivery!Settle
      <4>3. ASSUME NEW j \in Jobs, Delivery!Run(j)
            PROVE  \/ runs'[k] = runs[k]
                   \/ runs'[k] = runs[k] + 1 /\ runs[k] < MaxRuns(k) * (1 + lostAcks'[k])
        <5>1. runs' = [runs EXCEPT ![j] = @ + 1] /\ runs[j] < [i \in Jobs |-> MaxRuns(i)][j] * (1 + lostAcks'[j])
          BY <4>3 DEF Delivery!Run, Delivery!MayRun
        <5>2. [i \in Jobs |-> MaxRuns(i)][j] = MaxRuns(j)
          OBVIOUS
        <5>3. runs[j] < MaxRuns(j) * (1 + lostAcks'[j])
          BY <5>1, <5>2
        <5> QED
          BY <5>1, <5>3 DEF DeliveryType
      <4> QED
        BY <4>1, <4>2, <4>3 DEF Delivery!DeliveryNext
    <3>2. runs[k] <= MaxRuns(k) * (1 + lostAcks[k])
      BY DEF Delivery!Promise
    <3> QED
      BY <2>1, <2>3, <3>1, <3>2, RoomKept
  <2> QED
    BY <2>1, <2>5, <2>6 DEF Delivery!Promise, MaxRuns
<1>3. Inv => Delivery!Promise
  OBVIOUS
<1> QED
  BY <1>1, <1>2, <1>3, PTL DEF Delivery!DeliverySpec
=============================================================================
