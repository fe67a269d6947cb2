---------------------------- MODULE ServerProofs ----------------------------
(***************************************************************************)
(* Theorems about what the processes run: Lifecycle, for any set of        *)
(* configurations and any number of requests, and without a bound on time; *)
(* Health, for any dependencies and timeout; SSEBroker, for any            *)
(* connections, users, topics, numbers of broadcasts and channel sizes;    *)
(* QueueConn, for any finite number of consumers and Pings, any messages,  *)
(* and any bounds on attempts and faults; PolicyWatcher, for any instances, *)
(* rules and buffer; and SmtpSend, for any number of recipients.           *)
(***************************************************************************)
EXTENDS Lifecycle, Health, SSEBroker, QueueConn, PolicyWatcher, SmtpSend, FiniteSetTheorems, TLAPS

(* A leaf is left to Zenon first, which is fast where no arithmetic is needed; *)
(* the longer limits are for slow machines.                                    *)
USE ZenonT(2), SMT, ZenonT(20), SMTT(30)

(***************************************************************************)
(* Lifecycle: start, requests and shutdown.                                *)
(***************************************************************************)
Kinds == {"none", "real", "noop", "closed"}
Doings == {"new", "running", "query", "publish", "stream", "ended"}

LifeType ==
  /\ boot \in 1..12
  /\ adapter \in [Adapters -> Kinds]
  /\ req \in [Requests -> Doings]
  /\ stop \in 0..11
  /\ elapsed \in Nat /\ since \in Nat
  /\ drained \in BOOLEAN /\ overrun \in BOOLEAN

(* Shutdown begins only in a process that serves and never turns back. *)
StopsWhenServing == stop > 0 => boot = 11

(* An enabled authorizer is there from its step of New on. *)
AuthorizerThere ==
  boot \in 8..11 /\ "authorizer" \in config => adapter["authorizer"] \in {"real", "closed"}

(* Nothing is closed in the first phase; what was passed is closed. *)
ClosedInOrder ==
  /\ stop <= 1 => \A a \in Adapters : adapter[a] # "closed"
  /\ \A k \in 1..10 : stop > k => \A a \in Adapters : a = Closings[k] => adapter[a] # "real"

(* Time runs during Shutdown only, and a phase that has used up its share  *)
(* has overrun it when it takes another tick.                              *)
OnTime ==
  /\ stop <= 1 => since = 0
  /\ stop = 0 => elapsed = 0 /\ ~overrun
  /\ stop \in 1..10 /\ ~overrun =>
       /\ since <= Offset(PhaseOf(Closings[stop]))
       /\ elapsed <= since + Share(PhaseOf(Closings[stop]))
  /\ stop = 11 /\ ~overrun => elapsed <= 20

(* Past the first phase either no request is left, or it took its share. *)
Drainage ==
  /\ stop <= 1 => ~drained
  /\ stop > 1 => IF drained THEN \A r \in Requests : ~Active(r) ELSE elapsed >= 8

LifeInv ==
  LifeType /\ StopsWhenServing /\ AuthorizerThere /\ ClosedInOrder /\ OnTime /\ Drainage

-----------------------------------------------------------------------------
(* The order in which New opens, and Shutdown closes. *)
LEMMA BootOrder ==
  Len(BootSteps) = 10 /\ \A k \in 1..10 : BootSteps[k] = "authorizer" <=> k = 7
  BY DEF BootSteps

(* The order in which Shutdown closes them. *)
LEMMA CloseOrder ==
  /\ Len(Closings) = 10
  /\ Closings[1] = "server" /\ Closings[2] = "metrics" /\ Closings[3] = "sse"
  /\ Closings[4] = "authorizer" /\ Closings[5] = "limiter" /\ Closings[6] = "cache"
  /\ Closings[7] = "queue" /\ Closings[8] = "storage" /\ Closings[9] = "database"
  /\ Closings[10] = "tracer"
  BY DEF Closings

(* The shares of the phases, and that each begins where the one before it  *)
(* ends (phaseBudget in Shutdown).                                         *)
LEMMA PhaseTable ==
  ASSUME NEW k \in 1..10
  PROVE  /\ Share(PhaseOf(Closings[k])) \in Nat /\ Offset(PhaseOf(Closings[k])) \in Nat
         /\ Offset(PhaseOf(Closings[k])) + Share(PhaseOf(Closings[k])) <= 20
         /\ k = 1 => Share(PhaseOf(Closings[k])) = 8 /\ Offset(PhaseOf(Closings[k])) = 0
<1>1. CASE k = 1 BY <1>1, CloseOrder DEF PhaseOf, Share, Offset
<1>2. CASE k = 2 BY <1>2, CloseOrder DEF PhaseOf, Share, Offset
<1>3. CASE k = 3 BY <1>3, CloseOrder DEF PhaseOf, Share, Offset
<1>4. CASE k = 4 BY <1>4, CloseOrder DEF PhaseOf, Share, Offset
<1>5. CASE k = 5 BY <1>5, CloseOrder DEF PhaseOf, Share, Offset
<1>6. CASE k = 6 BY <1>6, CloseOrder DEF PhaseOf, Share, Offset
<1>7. CASE k = 7 BY <1>7, CloseOrder DEF PhaseOf, Share, Offset
<1>8. CASE k = 8 BY <1>8, CloseOrder DEF PhaseOf, Share, Offset
<1>9. CASE k = 9 BY <1>9, CloseOrder DEF PhaseOf, Share, Offset
<1>10. CASE k = 10 BY <1>10, CloseOrder DEF PhaseOf, Share, Offset
<1> QED BY <1>1, <1>2, <1>3, <1>4, <1>5, <1>6, <1>7, <1>8, <1>9, <1>10

(* The next Close belongs to the same phase, or its phase begins when the  *)
(* share of this one ends.                                                 *)
LEMMA PhaseOrder ==
  ASSUME NEW k \in 1..9
  PROVE  \/ PhaseOf(Closings[k + 1]) = PhaseOf(Closings[k])
         \/ /\ PhaseOf(Closings[k + 1]) # PhaseOf(Closings[k])
            /\ Offset(PhaseOf(Closings[k + 1])) =
                 Offset(PhaseOf(Closings[k])) + Share(PhaseOf(Closings[k]))
<1>1. CASE k = 1 BY <1>1, CloseOrder DEF PhaseOf, Share, Offset
<1>2. CASE k = 2 BY <1>2, CloseOrder DEF PhaseOf, Share, Offset
<1>3. CASE k = 3 BY <1>3, CloseOrder DEF PhaseOf, Share, Offset
<1>4. CASE k = 4 BY <1>4, CloseOrder DEF PhaseOf, Share, Offset
<1>5. CASE k = 5 BY <1>5, CloseOrder DEF PhaseOf, Share, Offset
<1>6. CASE k = 6 BY <1>6, CloseOrder DEF PhaseOf, Share, Offset
<1>7. CASE k = 7 BY <1>7, CloseOrder DEF PhaseOf, Share, Offset
<1>8. CASE k = 8 BY <1>8, CloseOrder DEF PhaseOf, Share, Offset
<1>9. CASE k = 9 BY <1>9, CloseOrder DEF PhaseOf, Share, Offset
<1> QED BY <1>1, <1>2, <1>3, <1>4, <1>5, <1>6, <1>7, <1>8, <1>9

(* Every adapter New opens has its place in Shutdown. *)
LEMMA EveryAdapterHasItsClose ==
  ASSUME NEW a \in Adapters
  PROVE  \E k \in 1..10 : a = Closings[k]
  BY CloseOrder DEF Adapters

-----------------------------------------------------------------------------
(* Before New nothing is open and no request is served. *)
LEMMA LifeInvInit == LifeInit => LifeInv
<1> SUFFICES ASSUME LifeInit PROVE LifeInv OBVIOUS
<1>1. LifeType
  <2>1. boot \in 1..12 /\ stop \in 0..11 /\ elapsed \in Nat /\ since \in Nat
    BY DEF LifeInit
  <2>2. adapter \in [Adapters -> Kinds] /\ req \in [Requests -> Doings]
    BY DEF LifeInit, Kinds, Doings
  <2>3. drained \in BOOLEAN /\ overrun \in BOOLEAN BY ZenonT(30) DEF LifeInit
  <2> QED BY <2>1, <2>2, <2>3 DEF LifeType
<1>2. AuthorizerThere /\ StopsWhenServing /\ OnTime /\ Drainage
  BY DEF LifeInit, AuthorizerThere, StopsWhenServing, OnTime, Drainage
<1>3. ClosedInOrder BY DEF LifeInit, ClosedInOrder
<1> QED BY <1>1, <1>2, <1>3 DEF LifeInv

(* A step of New: succeeding, falling back or failing. *)
LEMMA BootKeeps ==
  ASSUME LifeInv, BootOk \/ BootFallback \/ BootFatal
  PROVE  LifeInv'
<1>1. Len(BootSteps) = 10 BY BootOrder
<1>2. /\ boot \in 1..12 /\ stop \in 0..11 /\ adapter \in [Adapters -> Kinds]
      /\ stop > 0 => boot = 11
  BY DEF LifeInv, LifeType, StopsWhenServing
<1>3. stop = 0 /\ boot \in 1..11
  BY <1>1, <1>2 DEF BootOk, BootFallback, BootFatal, Serving, Booted
<1>4. UNCHANGED <<config, req, stop, elapsed, since, drained, overrun>>
  BY DEF BootOk, BootFallback, BootFatal
<1>5. boot' \in 1..12 /\ ((boot' = boot + 1 /\ boot \in 1..10) \/ boot' = 12)
  BY <1>1, <1>3 DEF BootOk, BootFallback, BootFatal, Exited
<1>6. /\ adapter' \in [Adapters -> Kinds]
      /\ \A a \in Adapters : adapter'[a] = "closed" => adapter[a] = "closed"
  <2>1. CASE BootOk BY <2>1, <1>2 DEF BootOk, Installed, Kinds
  <2>2. CASE BootFallback
    <3>1. PICK kind \in Fallback(BootSteps[boot]) :
            adapter' = [adapter EXCEPT ![BootSteps[boot]] = kind]
      BY <2>2, ZenonT(30) DEF BootFallback
    <3>2. kind \in {"none", "noop", "real"} BY <3>1 DEF Fallback
    <3> QED BY <3>1, <3>2, <1>2, ZenonT(30) DEF Kinds
  <2>3. CASE BootFatal BY <2>3, <1>2 DEF BootFatal
  <2> QED BY <2>1, <2>2, <2>3
<1>7. AuthorizerThere'
  <2> SUFFICES ASSUME boot' \in 8..11, "authorizer" \in config
               PROVE  adapter'["authorizer"] \in {"real", "closed"}
    BY <1>4 DEF AuthorizerThere
  <2>0. boot \in 7..10 /\ "authorizer" \in Adapters BY <1>5 DEF Adapters
  <2>1. BootSteps[boot] = "authorizer" <=> boot = 7 BY BootOrder, <2>0
  <2>2. CASE BootOk
    <3>1. adapter'["authorizer"] =
            IF boot = 7 THEN Installed("authorizer") ELSE adapter["authorizer"]
      BY <2>0, <2>1, <2>2 DEF BootOk
    <3>2. Installed("authorizer") = "real" BY DEF Installed, Enabled
    <3> QED BY <3>1, <3>2, <2>0 DEF LifeInv, AuthorizerThere
  <2>3. CASE BootFallback
    <3>1. PICK kind \in Fallback(BootSteps[boot]) :
            adapter' = [adapter EXCEPT ![BootSteps[boot]] = kind]
      BY <2>3, ZenonT(30) DEF BootFallback
    <3>2. BootSteps[boot] # "authorizer" BY <3>1 DEF Fallback
    <3> QED BY <3>1, <3>2, <2>0, <2>1, <1>2 DEF LifeInv, AuthorizerThere
  <2>4. CASE BootFatal BY <2>4, <1>1 DEF BootFatal, Exited
  <2> QED BY <2>2, <2>3, <2>4
<1>8. LifeType' BY <1>4, <1>5, <1>6 DEF LifeInv, LifeType
<1>9. StopsWhenServing' BY <1>3, <1>4 DEF StopsWhenServing
<1>10. ClosedInOrder' BY <1>3, <1>4, <1>6 DEF LifeInv, ClosedInOrder
<1>11. OnTime' BY <1>3, <1>4 DEF LifeInv, OnTime
<1>12. Drainage' BY <1>3, <1>4 DEF LifeInv, Drainage
<1> QED BY <1>7, <1>8, <1>9, <1>10, <1>11, <1>12 DEF LifeInv

(* A request arrives, uses an adapter or ends. *)
LEMMA RequestKeeps ==
  ASSUME LifeInv, NEW r \in Requests, Arrive(r) \/ Use(r) \/ Finish(r)
  PROVE  LifeInv'
<1>1. UNCHANGED <<config, boot, adapter, stop, elapsed, since, drained, overrun>>
  BY DEF Arrive, Use, Finish
<1>2. PICK d \in Doings : req' = [req EXCEPT ![r] = d]
  BY DEF Arrive, Use, Finish, Doings
<1>3. req \in [Requests -> Doings] /\ stop \in 0..11 BY DEF LifeInv, LifeType
<1>4. LifeType' BY <1>1, <1>2, <1>3 DEF LifeInv, LifeType
<1>5. StopsWhenServing' /\ AuthorizerThere' /\ ClosedInOrder' /\ OnTime'
  BY <1>1 DEF LifeInv, StopsWhenServing, AuthorizerThere, ClosedInOrder, OnTime
<1>6. Drainage'
  <2>1. stop > 0 => Active(r)
    BY DEF Arrive, Use, Finish, Active
  <2> QED BY <1>1, <1>3, <2>1 DEF LifeInv, Drainage
<1> QED BY <1>4, <1>5, <1>6 DEF LifeInv

(* The signal. *)
LEMMA SignalKeeps ==
  ASSUME LifeInv, Signal
  PROVE  LifeInv'
<1>1. /\ stop = 0 /\ stop' = 1 /\ boot = 11
      /\ UNCHANGED <<config, boot, adapter, req, elapsed, since, drained, overrun>>
  BY BootOrder DEF Signal, Serving, Booted
<1>2. LifeType' BY <1>1 DEF LifeInv, LifeType
<1>3. StopsWhenServing' /\ AuthorizerThere' /\ Drainage'
  BY <1>1 DEF LifeInv, StopsWhenServing, AuthorizerThere, Drainage
<1>4. ClosedInOrder' BY <1>1 DEF LifeInv, ClosedInOrder
<1>5. OnTime' BY <1>1, PhaseTable DEF LifeInv, OnTime
<1> QED BY <1>2, <1>3, <1>4, <1>5 DEF LifeInv

(* A Close returns: the next one begins, perhaps in a new phase. *)
LEMMA CloseKeeps ==
  ASSUME LifeInv, CloseReturns
  PROVE  LifeInv'
<1>1. /\ stop \in 1..10 /\ stop' = stop + 1 /\ boot = 11
      /\ adapter' = AdapterClosed(Closings[stop])
      /\ UNCHANGED <<config, boot, req, elapsed, overrun>>
  BY CloseOrder, BootOrder DEF CloseReturns, Serving, Booted, Stopping
<1>2. /\ adapter \in [Adapters -> Kinds] /\ elapsed \in Nat /\ since \in Nat
      /\ drained \in BOOLEAN /\ overrun \in BOOLEAN
  BY DEF LifeInv, LifeType
<1>3. /\ adapter' \in [Adapters -> Kinds]
      /\ \A a \in Adapters : adapter'[a] = IF a = Closings[stop] /\ adapter[a] = "real"
                                            THEN "closed" ELSE adapter[a]
  BY <1>1, <1>2 DEF AdapterClosed, Kinds
<1>4. since' = since \/ since' = elapsed BY DEF CloseReturns
<1>5. drained' \in BOOLEAN BY <1>2, ZenonT(30) DEF CloseReturns
<1>6. LifeType' BY <1>1, <1>2, <1>3, <1>4, <1>5 DEF LifeInv, LifeType
<1>7. StopsWhenServing' BY <1>1 DEF StopsWhenServing
<1>8. AuthorizerThere' BY <1>1, <1>3 DEF LifeInv, AuthorizerThere, Adapters
<1>9. ClosedInOrder' BY <1>1, <1>3 DEF LifeInv, ClosedInOrder
<1>10. OnTime'
  <2>1. CASE overrun BY <1>1, <2>1 DEF OnTime
  <2>2. CASE ~overrun /\ stop = 10
    BY <1>1, <1>2, <2>2, PhaseTable DEF LifeInv, OnTime
  <2>3. CASE ~overrun /\ stop \in 1..9
    <3>1. /\ since <= Offset(PhaseOf(Closings[stop]))
          /\ elapsed <= since + Share(PhaseOf(Closings[stop]))
      BY <2>3 DEF LifeInv, OnTime
    <3>2. since' = IF PhaseOf(Closings[stop + 1]) = PhaseOf(Closings[stop])
                     THEN since ELSE elapsed
      BY <2>3, CloseOrder DEF CloseReturns, Phase
    <3>3. /\ Share(PhaseOf(Closings[stop])) \in Nat /\ Offset(PhaseOf(Closings[stop])) \in Nat
          /\ Share(PhaseOf(Closings[stop + 1])) \in Nat
      BY <2>3, PhaseTable
    <3>4. /\ since' <= Offset(PhaseOf(Closings[stop + 1]))
          /\ elapsed <= since' + Share(PhaseOf(Closings[stop + 1]))
      BY <1>2, <2>3, <3>1, <3>2, <3>3, PhaseOrder
    <3> QED BY <1>1, <2>3, <3>4 DEF OnTime
  <2> QED BY <1>1, <1>2, <2>1, <2>2, <2>3
<1>11. Drainage'
  <2>1. CASE stop = 1
    <3>1. drained' = \A r \in Requests : ~Active(r) BY <2>1 DEF CloseReturns
    <3>2. \A r \in Requests : Active(r)' = Active(r) BY <1>1 DEF Active
    <3>3. since = 0 BY <2>1 DEF LifeInv, OnTime
    <3>4. CASE drained'
      <4>1. \A r \in Requests : ~Active(r)' BY <3>1, <3>2, <3>4, ZenonT(30)
      <4> QED BY <1>1, <2>1, <3>4, <4>1 DEF Drainage
    <3>5. CASE ~drained'
      <4>1. Returns("server") /\ ~(\A r \in Requests : ~Active(r))
        BY <2>1, <3>1, <3>5, CloseOrder DEF CloseReturns
      <4>2. Expired BY <4>1 DEF Returns
      <4>3. Share(Phase) = 8 BY <2>1, PhaseTable DEF Phase
      <4>4. elapsed >= 8 BY <1>2, <3>3, <4>2, <4>3 DEF Expired, Deadline
      <4> QED BY <1>1, <2>1, <3>5, <4>4 DEF Drainage
    <3> QED BY <3>4, <3>5
  <2>2. CASE stop # 1
    <3>1. drained' = drained BY <2>2 DEF CloseReturns
    <3>2. \A r \in Requests : Active(r)' = Active(r) BY <1>1 DEF Active
    <3> QED BY <1>1, <2>2, <3>1, <3>2 DEF LifeInv, Drainage
  <2> QED BY <2>1, <2>2
<1> QED BY <1>6, <1>7, <1>8, <1>9, <1>10, <1>11 DEF LifeInv

(* Time passes in a Close. *)
LEMMA TickKeeps ==
  ASSUME LifeInv, ShutdownTick
  PROVE  LifeInv'
<1>1. /\ stop \in 1..10 /\ elapsed' = elapsed + 1 /\ overrun' = (overrun \/ Expired)
      /\ UNCHANGED <<config, boot, adapter, req, stop, since, drained>>
  BY CloseOrder DEF ShutdownTick, Stopping
<1>2. elapsed \in Nat /\ since \in Nat /\ overrun \in BOOLEAN BY DEF LifeInv, LifeType
<1>3. Expired \in BOOLEAN BY DEF Expired
<1>4. LifeType' BY <1>1, <1>2, <1>3 DEF LifeInv, LifeType
<1>5. StopsWhenServing' /\ AuthorizerThere' /\ ClosedInOrder'
  BY <1>1 DEF LifeInv, StopsWhenServing, AuthorizerThere, ClosedInOrder
<1>6. Drainage' BY <1>1, <1>2 DEF LifeInv, Drainage, Active
<1>7. OnTime'
  <2>1. CASE overrun' BY <1>1, <2>1 DEF LifeInv, OnTime
  <2>2. CASE ~overrun'
    <3>1. ~overrun /\ ~Expired BY <1>1, <1>2, <2>2, ZenonT(30)
    <3>2. elapsed < since + Share(PhaseOf(Closings[stop]))
      BY <1>1, <1>2, <3>1, PhaseTable DEF Expired, Phase
    <3>3. Share(PhaseOf(Closings[stop])) \in Nat BY <1>1, PhaseTable
    <3>4. elapsed' <= since + Share(PhaseOf(Closings[stop])) BY <1>1, <1>2, <3>2, <3>3
    <3> QED BY <1>1, <3>1, <3>4 DEF LifeInv, OnTime
  <2> QED BY <2>1, <2>2
<1> QED BY <1>4, <1>5, <1>6, <1>7 DEF LifeInv

-----------------------------------------------------------------------------
(* The steps of New, of the requests and of Shutdown keep the invariant,   *)
(* fair or not.                                                            *)
LEMMA LifeSafe == LifeInit /\ [][LifeNext]_lifeVars => []LifeInv
<1>1. LifeInv /\ [LifeNext]_lifeVars => LifeInv'
  <2> SUFFICES ASSUME LifeInv, [LifeNext]_lifeVars PROVE LifeInv' OBVIOUS
  <2>1. CASE BootOk \/ BootFallback \/ BootFatal BY <2>1, BootKeeps
  <2>2. CASE \E r \in Requests : Arrive(r) \/ Use(r) \/ Finish(r) BY <2>2, RequestKeeps
  <2>3. CASE Signal BY <2>3, SignalKeeps
  <2>4. CASE CloseReturns BY <2>4, CloseKeeps
  <2>5. CASE ShutdownTick BY <2>5, TickKeeps
  <2>6. CASE UNCHANGED lifeVars
    <3>1. UNCHANGED <<config, boot, adapter, req, stop, elapsed, since, drained, overrun>>
      BY <2>6 DEF lifeVars
    <3> QED BY <3>1 DEF LifeInv, LifeType, StopsWhenServing, AuthorizerThere, ClosedInOrder,
                        OnTime, Drainage, Active
  <2> QED BY <2>1, <2>2, <2>3, <2>4, <2>5, <2>6 DEF LifeNext
<1> QED BY <1>1, LifeInvInit, PTL

(* The inductive invariant: New and Shutdown keep to their order, and a    *)
(* phase to its share, in every reachable state of the application.        *)
THEOREM LifecycleInvariant == LifeSpec => []LifeInv
BY LifeSafe, PTL DEF LifeSpec

(* The application keeps to its types. *)
LEMMA LifeTypesKept == LifeInit /\ [][LifeNext]_lifeVars => []LifeTypeOK
<1> DEFINE T == config \in Configs /\ elapsed \in 0..MaxTime /\ since \in 0..MaxTime
<1>1. LifeInit => T BY LifeInputs DEF LifeInit
<1>2. T /\ [LifeNext]_lifeVars => T'
  <2> SUFFICES ASSUME T, [LifeNext]_lifeVars PROVE T' OBVIOUS
  <2>1. CASE ShutdownTick BY <2>1, LifeInputs DEF ShutdownTick
  <2>2. CASE CloseReturns BY <2>2 DEF CloseReturns
  <2>3. CASE \/ BootOk \/ BootFallback \/ BootFatal \/ Signal \/ UNCHANGED lifeVars
             \/ \E r \in Requests : Arrive(r) \/ Use(r) \/ Finish(r)
    <3>1. UNCHANGED <<config, elapsed, since>>
      BY <2>3 DEF lifeVars, BootOk, BootFallback, BootFatal, Arrive, Use, Finish, Signal
    <3> QED BY <3>1
  <2> QED BY <2>1, <2>2, <2>3 DEF LifeNext
<1>3. LifeInv /\ T => LifeTypeOK
  <2> SUFFICES ASSUME LifeInv, T PROVE LifeTypeOK OBVIOUS
  <2>1. Len(BootSteps) = 10 /\ Len(Closings) = 10 BY DEF BootSteps, Closings
  <2> QED BY <2>1 DEF LifeInv, LifeType, Kinds, Doings, LifeTypeOK
<1> QED BY <1>1, <1>2, <1>3, LifeSafe, PTL

(* An enabled authorizer is never replaced by the no-op (New).             *)
THEOREM AuthorizerAlwaysThere == LifeSpec => []AuthorizerNotReplaced
<1>1. LifeInv => AuthorizerNotReplaced
  BY BootOrder DEF LifeInv, AuthorizerThere, AuthorizerNotReplaced, Serving, Booted, Enabled
<1> QED BY <1>1, LifecycleInvariant, PTL

(* Shutdown closes whatever New opened, also when phases ran out of time.  *)
THEOREM ShutdownClosesEverything == LifeSpec => []EverythingClosed
<1>1. LifeInv => EverythingClosed
  <2> SUFFICES ASSUME LifeInv, stop > Len(Closings), NEW a \in Adapters
               PROVE  adapter[a] # "real"
    BY DEF EverythingClosed, Stopped
  <2>1. stop > 10 BY CloseOrder
  <2>2. PICK k \in 1..10 : a = Closings[k] BY EveryAdapterHasItsClose
  <2>3. stop > k BY <2>1 DEF LifeInv, LifeType
  <2> QED BY <2>2, <2>3 DEF LifeInv, ClosedInOrder
<1> QED BY <1>1, LifecycleInvariant, PTL

(* While the Closes that ignore the context return within their share, a   *)
(* slow phase takes nothing from the later ones and Shutdown meets its     *)
(* deadline.                                                               *)
THEOREM SharesAreKept == LifeSpec => []SharesKept
<1>1. LifeInv => SharesKept
  <2> SUFFICES ASSUME LifeInv PROVE SharesKept OBVIOUS
  <2>1. stop \in 0..11 /\ Len(Closings) = 10 BY CloseOrder DEF LifeInv, LifeType
  <2>2. ASSUME Stopping, ~overrun
        PROVE  since <= Offset(Phase) /\ Offset(Phase) + Share(Phase) <= Deadline
    <3>1. stop \in 1..10 BY <2>1, <2>2 DEF Stopping
    <3> QED BY <2>2, <3>1, PhaseTable DEF LifeInv, OnTime, Phase, Deadline
  <2>3. ASSUME Stopped, ~overrun PROVE elapsed <= Deadline
    BY <2>1, <2>3 DEF LifeInv, OnTime, Stopped, Deadline
  <2> QED BY <2>2, <2>3 DEF SharesKept
<1> QED BY <1>1, LifecycleInvariant, PTL

(* A request meets a closed adapter only after the server had its whole    *)
(* share to drain in.                                                      *)
THEOREM RequestsHadTheirShare == LifeSpec => []CutOffOnlyAfterDrain
<1>1. LifeInv => CutOffOnlyAfterDrain
  <2> SUFFICES ASSUME LifeInv, NEW r \in Requests, Active(r),
                      NEW a \in Adapters, adapter[a] = "closed"
               PROVE  ~drained /\ elapsed >= Share("server")
    BY DEF CutOffOnlyAfterDrain
  <2>1. stop \in 0..11 BY DEF LifeInv, LifeType
  <2>2. stop > 1 BY <2>1 DEF LifeInv, ClosedInOrder
  <2>3. Share("server") = 8 BY DEF Share
  <2> QED BY <2>2, <2>3 DEF LifeInv, Drainage
<1> QED BY <1>1, LifecycleInvariant, PTL

(***************************************************************************)
(* Health: the readiness answer.                                           *)
(***************************************************************************)
(* What is known of dependency d: it was seen in its state, its probe      *)
(* found it up or switched off, or failed on one in use that was seen down *)
(* unless the context was cancelled; and time passes only for those that   *)
(* hang.                                                                   *)
Witnessed(d) ==
  /\ dep[d] = "up" => d \in upSeen
  /\ dep[d] # "up" => d \in downSeen
  /\ d = "authz" => dep[d] = "up"
  /\ probe[d] = "ok" => d \in noop \cup upSeen
  /\ probe[d] = "failed" => d \notin noop /\ (shutting \/ d \in downSeen)
  /\ probe[d] = "new" /\ answer # "idle" => d \notin noop
  /\ probe[d] = "new" => waited = 0
  /\ probe[d] = "running" /\ waited > 0 => d \in downSeen

HealthInv ==
  /\ HealthTypeOK
  /\ answer = "idle" => waited = 0
  /\ \A d \in Deps : Witnessed(d)
  /\ AnswerTrue

(* A probe that returns tells what its dependency is: ok when it is up or  *)
(* switched off, an error when it is in use and was seen down, or the      *)
(* context was cancelled.                                                  *)
LEMMA ChecksSayWhatIs ==
  ASSUME HealthInv, NEW d \in Deps, probe[d] = "running", NEW result \in Check(d)
  PROVE  /\ result \in {"ok", "failed"}
         /\ result = "ok" => d \in noop \/ dep[d] = "up"
         /\ result = "failed" => d \notin noop /\ (shutting \/ d \in downSeen)
  <1>1. Witnessed(d) /\ waited \in Nat /\ "database" \notin noop
    BY HealthInputs DEF HealthInv, HealthTypeOK
  <1>2. ASSUME NEW givenUp \in BOOLEAN, givenUp => shutting \/ waited > 0,
               result \in RoundTrip(d, givenUp), d \notin noop
        PROVE  /\ result \in {"ok", "failed"}
               /\ result = "ok" => d \in noop \/ dep[d] = "up"
               /\ result = "failed" => d \notin noop /\ (shutting \/ d \in downSeen)
    BY <1>1, <1>2 DEF RoundTrip, Witnessed
  <1>3. CtxDone => shutting \/ waited > 0
    BY <1>1, HealthInputs DEF CtxDone
  <1>4. waited >= Heartbeat => waited > 0
    BY <1>1, HealthInputs
  <1>5. CtxDone \in BOOLEAN /\ (waited >= Heartbeat) \in BOOLEAN
    BY DEF CtxDone, HealthInv, HealthTypeOK
  <1>6. CASE d = "database"
    <2>1. result \in RoundTrip(d, CtxDone)
      BY <1>6 DEF Check, PostgresCheck
    <2> QED BY <1>1, <1>2, <1>3, <1>5, <1>6, <2>1
  <1>7. CASE d = "cache"
    <2>1. IF d \in noop THEN result = "ok" ELSE result \in RoundTrip(d, CtxDone)
      BY <1>7 DEF Check, CacheCheck
    <2> QED BY <1>2, <1>3, <1>5, <2>1
  <1>8. CASE d = "queue"
    <2>1. IF d \in noop THEN result = "ok" ELSE result \in RoundTrip(d, waited >= Heartbeat)
      BY <1>8 DEF Check, QueueCheck
    <2> QED BY <1>2, <1>4, <1>5, <2>1
  <1>9. CASE d = "authz"
    BY <1>1, <1>9 DEF Check, AuthzCheck, Witnessed
  <1> QED BY <1>6, <1>7, <1>8, <1>9, HealthInputs

(* A probe that is not done when time passes waits for a dependency that   *)
(* hangs.                                                                  *)
LEMMA WaitsForHung ==
  ASSUME HealthInv, NEW d \in Deps, Check(d) = {}
  PROVE  dep[d] = "hung"
  <1>1. dep[d] \in {"up", "down", "hung"}
    BY DEF HealthInv, HealthTypeOK
  <1>2. ASSUME NEW givenUp, RoundTrip(d, givenUp) = {} PROVE dep[d] = "hung"
    <2>1. "ok" \notin RoundTrip(d, givenUp) /\ "failed" \notin RoundTrip(d, givenUp)
      BY <1>2
    <2> QED BY <1>1, <2>1 DEF RoundTrip
  <1>3. CASE d = "database"
    BY <1>2, <1>3 DEF Check, PostgresCheck
  <1>4. CASE d = "cache"
    BY <1>2, <1>4 DEF Check, CacheCheck
  <1>5. CASE d = "queue"
    BY <1>2, <1>5 DEF Check, QueueCheck
  <1>6. CASE d = "authz"
    BY <1>6 DEF Check, AuthzCheck
  <1> QED BY <1>3, <1>4, <1>5, <1>6, HealthInputs

(* Whatever the timeouts, however the dependencies change while they are   *)
(* probed, and whenever the server shuts down.                             *)
LEMMA HealthKeeps == HealthInv /\ [HealthNext]_healthVars => HealthInv'
  <1> SUFFICES ASSUME HealthInv, [HealthNext]_healthVars PROVE HealthInv'
    OBVIOUS
  <1>0. /\ HealthTypeOK /\ AnswerTrue /\ (answer = "idle" => waited = 0)
        /\ \A d \in Deps : Witnessed(d)
    BY DEF HealthInv
  <1>1. ASSUME NEW d \in Deps, NEW result \in {"ok", "failed", "running"},
               answer = "none", probe' = [probe EXCEPT ![d] = result],
               UNCHANGED <<noop, dep, waited, shutting, answer, upSeen, downSeen, flips>>,
               result = "ok" => d \in noop \/ dep[d] = "up",
               result = "failed" => d \notin noop /\ (shutting \/ d \in downSeen),
               result = "running" => waited = 0
        PROVE  HealthInv'
    <2>1. HealthTypeOK'
      BY <1>0, <1>1 DEF HealthTypeOK
    <2>2. probe'[d] = result /\ \A e \in Deps : e # d => probe'[e] = probe[e]
      BY <1>0, <1>1 DEF HealthTypeOK
    <2>3. ASSUME NEW e \in Deps PROVE Witnessed(e)'
      BY <1>0, <1>1, <2>2 DEF Witnessed
    <2>4. AnswerTrue'
      BY <1>1 DEF AnswerTrue
    <2> QED BY <1>0, <1>1, <2>1, <2>3, <2>4 DEF HealthInv
  <1>2. ASSUME NEW d \in Deps, ProbeReturns(d) PROVE HealthInv'
    <2>1. /\ answer = "none" /\ probe[d] = "running"
          /\ UNCHANGED <<noop, dep, waited, shutting, answer, upSeen, downSeen, flips>>
      BY <1>2 DEF ProbeReturns
    <2>2. PICK result \in Check(d) : probe' = [probe EXCEPT ![d] = result]
      BY <1>2, ZenonT(30) DEF ProbeReturns
    <2> QED BY <1>1, <2>1, <2>2, ChecksSayWhatIs
  <1>3. ASSUME NEW d \in Deps, ProbeStarts(d) PROVE HealthInv'
    <2>1. /\ answer = "none" /\ probe[d] = "new"
          /\ probe' = [probe EXCEPT ![d] = IF CtxDone THEN "failed" ELSE "running"]
          /\ UNCHANGED <<noop, dep, waited, shutting, answer, upSeen, downSeen, flips>>
      BY <1>3 DEF ProbeStarts
    <2>2. d \notin noop /\ waited = 0
      BY <1>0, <2>1 DEF Witnessed
    <2>3. CtxDone => shutting
      BY <2>2, HealthInputs DEF CtxDone
    <2> QED BY <1>1, <2>1, <2>2, <2>3
  <1>4. ASSUME NEW d \in Deps, DepChanges(d) PROVE HealthInv'
    <2>1. PICK s \in {"up", "down", "hung"} \ {dep[d]} :
            /\ dep' = [dep EXCEPT ![d] = s]
            /\ upSeen' = IF s = "up" THEN upSeen \cup {d} ELSE upSeen
            /\ downSeen' = IF s # "up" THEN downSeen \cup {d} ELSE downSeen
      BY <1>4, ZenonT(30) DEF DepChanges
    <2>2. /\ flips' = flips + 1 /\ flips < MaxFlips /\ d # "authz"
          /\ UNCHANGED <<noop, probe, waited, shutting, answer>>
      BY <1>4 DEF DepChanges
    <2>3. HealthTypeOK'
      BY <1>0, <2>1, <2>2, HealthInputs DEF HealthTypeOK
    <2>4. upSeen \subseteq upSeen' /\ downSeen \subseteq downSeen'
      BY <2>1
    <2>5. ASSUME NEW e \in Deps PROVE Witnessed(e)'
      <3>1. CASE e = d
        BY <1>0, <2>1, <2>2, <2>4, <3>1 DEF HealthTypeOK, Witnessed
      <3>2. CASE e # d
        BY <1>0, <2>1, <2>2, <2>4, <3>2 DEF HealthTypeOK, Witnessed
      <3> QED BY <3>1, <3>2
    <2>6. AnswerTrue'
      BY <1>0, <2>2, <2>4 DEF AnswerTrue
    <2> QED BY <1>0, <2>2, <2>3, <2>5, <2>6 DEF HealthInv
  <1>5. ASSUME ReadinessCheck PROVE HealthInv'
    <2>1. /\ answer = "idle" /\ answer' = "none" /\ waited = 0
          /\ probe' = [d \in Deps |-> IF d \in LooksFirst THEN "new" ELSE "running"]
          /\ UNCHANGED <<noop, dep, waited, shutting, upSeen, downSeen, flips>>
      BY <1>0, <1>5 DEF ReadinessCheck
    <2>2. \A d \in LooksFirst : d \notin noop
      BY DEF LooksFirst
    <2>3. HealthTypeOK'
      BY <1>0, <2>1 DEF HealthTypeOK
    <2>4. \A d \in Deps : Witnessed(d)'
      BY <1>0, <2>1, <2>2 DEF Witnessed
    <2>5. AnswerTrue'
      BY <2>1 DEF AnswerTrue
    <2> QED BY <2>1, <2>3, <2>4, <2>5 DEF HealthInv
  <1>6. ASSUME ContextEnds PROVE HealthInv'
    BY <1>0, <1>6 DEF ContextEnds, HealthInv, HealthTypeOK, Witnessed, AnswerTrue
  <1>7. ASSUME Answer PROVE HealthInv'
    <2>1. /\ answer = "none" /\ \A d \in Deps : probe[d] \in {"ok", "failed"}
          /\ answer' = IF \E d \in Deps : probe[d] = "failed" THEN "degraded" ELSE "ready"
          /\ UNCHANGED <<noop, dep, probe, waited, shutting, upSeen, downSeen, flips>>
      BY <1>7 DEF Answer, AllReturned
    <2>2. HealthTypeOK' /\ answer' # "idle"
      BY <1>0, <2>1 DEF HealthTypeOK
    <2>3. \A d \in Deps : Witnessed(d)'
      BY <1>0, <2>1 DEF Witnessed
    <2>4. AnswerTrue'
      BY <1>0, <2>1 DEF AnswerTrue, Witnessed
    <2> QED BY <2>2, <2>3, <2>4 DEF HealthInv
  <1>8. ASSUME HealthTick PROVE HealthInv'
    <2>1. /\ answer = "none" /\ waited < Heartbeat /\ waited' = waited + 1
          /\ \A d \in Deps : probe[d] # "new" /\ (probe[d] = "running" => Check(d) = {})
          /\ UNCHANGED <<noop, dep, probe, shutting, answer, upSeen, downSeen, flips>>
      BY <1>8 DEF HealthTick
    <2>2. HealthTypeOK'
      BY <1>0, <2>1, HealthInputs DEF HealthTypeOK
    <2>3. \A d \in Deps : probe[d] = "running" => dep[d] = "hung"
      BY <2>1, WaitsForHung
    <2>4. \A d \in Deps : Witnessed(d)'
      BY <1>0, <2>1, <2>3 DEF Witnessed
    <2>5. AnswerTrue'
      BY <2>1 DEF AnswerTrue
    <2> QED BY <2>1, <2>2, <2>4, <2>5 DEF HealthInv
  <1>9. ASSUME UNCHANGED healthVars PROVE HealthInv'
    BY <1>0, <1>9 DEF healthVars, HealthInv, HealthTypeOK, Witnessed, AnswerTrue
  <1> QED BY <1>2, <1>3, <1>4, <1>5, <1>6, <1>7, <1>8, <1>9 DEF HealthNext

(* A request for the readiness keeps its invariant, fair or not. *)
LEMMA HealthSafe == HealthInit /\ [][HealthNext]_healthVars => []HealthInv
  <1>1. ASSUME HealthInit PROVE HealthInv
    <2>1. HealthTypeOK /\ waited = 0 /\ answer = "idle"
      <3>1. /\ noop \subseteq Deps \ {"database"} /\ shutting \in BOOLEAN
            /\ dep \in [Deps -> {"up", "down", "hung"}] /\ answer = "idle"
            /\ upSeen \subseteq Deps /\ downSeen \subseteq Deps
        BY <1>1 DEF HealthInit
      <3>2. probe \in [Deps -> {"new", "running", "ok", "failed"}]
        BY <1>1 DEF HealthInit
      <3>3. waited = 0 /\ waited \in 0..Heartbeat /\ flips \in 0..MaxFlips
        BY <1>1, HealthInputs DEF HealthInit
      <3> QED BY <3>1, <3>2, <3>3 DEF HealthTypeOK
    <2>2. ASSUME NEW d \in Deps PROVE Witnessed(d)
      BY <1>1 DEF HealthInit, Witnessed
    <2> QED BY <2>1, <2>2 DEF HealthInv, AnswerTrue
  <1> QED BY <1>1, HealthKeeps, PTL

(* GET /healthz/ready tells the truth: 200 means that every dependency in  *)
(* use was up at some moment of the request, 503 that one in use was down  *)
(* or hung at some moment, unless the server shuts down: for any           *)
(* dependencies, timeout and heartbeat.                                    *)
THEOREM ReadinessAnswerTrue == HealthSpec => []AnswerTrue
  <1>1. HealthInv => AnswerTrue
    BY DEF HealthInv
  <1> QED BY <1>1, HealthSafe, PTL DEF HealthSpec

(***************************************************************************)
(* SSEBroker: registry and broadcasts.                                     *)
(***************************************************************************)
(* The parts of the type invariant that the registry needs. *)
RegistryType ==
  /\ clients \in [ConnIds -> Conns \cup {NoOne}]
  /\ closed \subseteq Conns
  /\ stream \in [Conns -> {"none", "receive", "write", "leave", "ended"}]
  /\ cast \in [Casters -> [event : Events, todo : SUBSET Conns] \cup {NoOne}]
  /\ events \in Nat
  /\ brokerShut \in BOOLEAN

(* A channel is registered under its own connection, open, and read by a   *)
(* stream that has not ended; a stream that has begun and not ended reads  *)
(* a registered or a closed channel.                                       *)
OwnEntry == \A i \in ConnIds : clients[i] # NoOne => clients[i] = i

OpenEntry == \A c \in Conns : clients[c] = c =>
  c \notin closed /\ stream[c] \in {"receive", "write", "leave"}

Attached == \A c \in Conns :
  stream[c] \in {"receive", "write", "leave"} => clients[c] = c \/ c \in closed

FreshOpen == \A c \in Conns : stream[c] = "none" => c \notin closed

(* A broadcast under the lock has only registered channels left to send on. *)
CastRegistered ==
  \A b \in Casters : cast[b] # NoOne => \A c \in cast[b].todo : clients[c] = c

SseInv ==
  /\ RegistryType /\ OwnEntry /\ OpenEntry /\ Attached /\ FreshOpen /\ CastRegistered
  /\ TabsIndependent

(* Connections are identifiers of their own (uuid.NewString). *)
LEMMA ConnsAreIds == Conns \subseteq ConnIds
  BY DEF ConnIds

(* What is registered is registered under its own name. *)
LEMMA RegisteredOwn ==
  ASSUME OwnEntry, NEW c \in Registered
  PROVE  c \in Conns /\ clients[c] = c
  BY SseInputs DEF OwnEntry, Registered

(* Every set of receivers a send can choose is registered (Broadcast,      *)
(* BroadcastToTopic, SendTo).                                              *)
LEMMA TargetsRegistered ==
  ASSUME RegistryType, OwnEntry, NEW C \in CastTargets
  PROVE  C \subseteq Conns /\ \A c \in C : clients[c] = c
<1>1. CASE C = Broadcast
  BY <1>1, RegisteredOwn DEF Broadcast
<1>2. ASSUME NEW t \in Topics, C = BroadcastToTopic(t)
      PROVE  C \subseteq Conns /\ \A c \in C : clients[c] = c
  BY <1>2, RegisteredOwn DEF BroadcastToTopic
<1>3. ASSUME NEW i \in ConnIds, C = SendTo(i)
      PROVE  C \subseteq Conns /\ \A c \in C : clients[c] = c
  <2>1. C = {clients[i]} \ {NoOne} BY <1>3 DEF SendTo
  <2>2. ASSUME NEW c \in C PROVE c \in Conns /\ clients[c] = c
    <3>1. c = clients[i] /\ clients[i] # NoOne BY <2>1
    <3>2. clients[i] = i BY <3>1 DEF OwnEntry
    <3> QED BY <3>1, <3>2 DEF RegistryType
  <2> QED BY <2>2
<1> QED BY <1>1, <1>2, <1>3 DEF CastTargets

(* The initial broker (NewBroker) satisfies the invariant. *)
LEMMA SseInvInit == SseInit => SseInv
<1> SUFFICES ASSUME SseInit PROVE SseInv OBVIOUS
<1>1. RegistryType BY ZenonT(30) DEF SseInit, RegistryType
<1>2. \A c \in Conns : clients[c] = NoOne /\ c # NoOne
  BY SseInputs, ConnsAreIds, ZenonT(30) DEF SseInit
<1>3. OwnEntry /\ OpenEntry BY <1>2 DEF SseInit, OwnEntry, OpenEntry
<1>4. Attached /\ FreshOpen BY DEF SseInit, Attached, FreshOpen
<1>5. CastRegistered BY ZenonT(30) DEF SseInit, CastRegistered
<1>6. TabsIndependent BY DEF SseInit, TabsIndependent
<1> QED BY <1>1, <1>3, <1>4, <1>5, <1>6 DEF SseInv

(* Subscribe finds no entry of its own, so it closes nothing. *)
LEMMA SubscribeKeeps ==
  ASSUME SseInv, NEW c \in Conns, NEW T \in SUBSET Topics, Subscribe(c, T)
  PROVE  SseInv'
<1> USE DEF SseInv
<1>1. c \in ConnIds /\ c # NoOne BY ConnsAreIds, SseInputs
<1>2. clients[c] = NoOne BY <1>1 DEF Subscribe, OwnEntry, OpenEntry
<1>3. /\ closed' = closed /\ clients' = [clients EXCEPT ![c] = c]
      /\ stream' = [stream EXCEPT ![c] = "receive"]
      /\ UNCHANGED <<cast, events, brokerShut>>
  BY <1>2 DEF Subscribe, ConnID
<1>4. stream[c] = "none" /\ WriteLock BY DEF Subscribe
<1>5. RegistryType' BY <1>1, <1>3 DEF RegistryType
<1>6. \A d \in Conns : d # c => clients'[d] = clients[d] /\ stream'[d] = stream[d]
  BY <1>3, ConnsAreIds DEF RegistryType
<1>7. clients'[c] = c /\ stream'[c] = "receive" /\ c \notin closed
  BY <1>1, <1>3, <1>4 DEF RegistryType, FreshOpen
<1>8. OwnEntry' BY <1>1, <1>3 DEF OwnEntry, RegistryType
<1>9. OpenEntry' BY <1>3, <1>6, <1>7 DEF OpenEntry
<1>10. Attached' /\ FreshOpen' BY <1>3, <1>6, <1>7 DEF Attached, FreshOpen
<1>11. CastRegistered' BY <1>3, <1>4 DEF CastRegistered, WriteLock
<1>12. TabsIndependent' BY <1>3, <1>6, <1>7 DEF TabsIndependent, RegistryType
<1> QED BY <1>5, <1>8, <1>9, <1>10, <1>11, <1>12

(* Unsubscribe closes the stream's own channel, unless Close did before. *)
LEMMA UnsubscribeKeeps ==
  ASSUME SseInv, NEW c \in Conns, Unsubscribe(c)
  PROVE  SseInv'
<1> USE DEF SseInv
<1>1. c \in ConnIds /\ c # NoOne BY ConnsAreIds, SseInputs
<1>2. clients[c] \in {c, NoOne} BY <1>1 DEF OwnEntry
<1>3. /\ clients' = [clients EXCEPT ![c] = NoOne]
      /\ stream' = [stream EXCEPT ![c] = "ended"]
      /\ UNCHANGED <<cast, events, brokerShut>>
      /\ closed' = closed \cup ({clients[c]} \ {NoOne})
  BY DEF Unsubscribe, ConnID
<1>4. WriteLock BY DEF Unsubscribe
<1>5. closed' \subseteq closed \cup {c} /\ closed \subseteq closed' BY <1>2, <1>3
<1>6. RegistryType' BY <1>3, <1>5, ZenonT(30) DEF RegistryType
<1>7. \A d \in Conns : d # c => clients'[d] = clients[d] /\ stream'[d] = stream[d]
  BY <1>3, ConnsAreIds DEF RegistryType
<1>8. clients'[c] = NoOne /\ stream'[c] = "ended"
  BY <1>1, <1>3 DEF RegistryType
<1>9. OwnEntry' BY <1>1, <1>3 DEF OwnEntry, RegistryType
<1>10. OpenEntry' BY <1>1, <1>5, <1>7, <1>8 DEF OpenEntry
<1>11. Attached' /\ FreshOpen' BY <1>5, <1>7, <1>8 DEF Attached, FreshOpen
<1>12. CastRegistered' BY <1>3, <1>4 DEF CastRegistered, WriteLock
<1>13. TabsIndependent' BY <1>3, <1>5, <1>7, <1>8 DEF TabsIndependent, RegistryType
<1> QED BY <1>6, <1>9, <1>10, <1>11, <1>12, <1>13

(* Close waits for the broadcasts and closes what is registered. *)
LEMMA BrokerCloseKeeps ==
  ASSUME SseInv, BrokerClose
  PROVE  SseInv'
<1> USE DEF SseInv
<1>1. /\ closed' = closed \cup Registered /\ clients' = [i \in ConnIds |-> NoOne]
      /\ brokerShut' = TRUE /\ UNCHANGED <<stream, cast, events>> /\ WriteLock
  BY DEF BrokerClose
<1>2. \A c \in Conns : clients'[c] = NoOne /\ c # NoOne BY <1>1, ConnsAreIds, SseInputs
<1>3. \A c \in Conns : clients[c] = c => c \in Registered BY ConnsAreIds DEF Registered
<1>4. Registered \subseteq Conns BY DEF Registered
<1>5. RegistryType' BY <1>1, <1>4 DEF RegistryType
<1>6. OwnEntry' /\ OpenEntry' BY <1>1, <1>2 DEF OwnEntry, OpenEntry
<1>7. Attached' BY <1>1, <1>3 DEF Attached
<1>8. FreshOpen'
  <2>1. \A c \in Registered : stream[c] # "none" BY RegisteredOwn, ZenonT(30) DEF OpenEntry
  <2> QED BY <1>1, <2>1 DEF FreshOpen
<1>9. CastRegistered' BY <1>1 DEF CastRegistered, WriteLock
<1>10. TabsIndependent' BY <1>1 DEF TabsIndependent
<1> QED BY <1>5, <1>6, <1>7, <1>8, <1>9, <1>10

(* The other steps of a stream do not touch the registry. *)
LEMMA StreamKeeps ==
  ASSUME SseInv, NEW c \in Conns, Receive(c) \/ RangeEnds(c) \/ Write(c) \/ Disconnect(c)
  PROVE  SseInv'
<1> USE DEF SseInv
<1>1. UNCHANGED <<clients, closed, cast, events, brokerShut>>
  BY DEF Receive, RangeEnds, Write, Disconnect
<1>2. \/ stream' = stream
      \/ /\ stream[c] \in {"receive", "write"}
         /\ \E s \in {"receive", "write", "leave"} : stream' = [stream EXCEPT ![c] = s]
  BY DEF Receive, RangeEnds, Write, Disconnect
<1>3. RegistryType' BY <1>1, <1>2 DEF RegistryType
<1>4. \A d \in Conns : \/ stream'[d] = stream[d]
                       \/ /\ stream[d] \in {"receive", "write"}
                          /\ stream'[d] \in {"receive", "write", "leave"}
  BY <1>2 DEF RegistryType
<1>5. OwnEntry' /\ CastRegistered' BY <1>1 DEF OwnEntry, CastRegistered
<1>6. OpenEntry' BY <1>1, <1>4 DEF OpenEntry
<1>7. Attached' /\ FreshOpen' BY <1>1, <1>4 DEF Attached, FreshOpen
<1>8. TabsIndependent' BY <1>1, <1>4 DEF TabsIndependent, RegistryType
<1> QED BY <1>3, <1>5, <1>6, <1>7, <1>8

(* A broadcast begins with registered receivers and only loses some. *)
LEMMA CastKeeps ==
  ASSUME SseInv, NEW b \in Casters, StartCast(b) \/ CastStep(b)
  PROVE  SseInv'
<1> USE DEF SseInv
<1>1. UNCHANGED <<clients, closed, stream, brokerShut>>
  BY DEF StartCast, CastStep, Send, EndCast
<1>2. OwnEntry' /\ OpenEntry' /\ Attached' /\ FreshOpen' /\ TabsIndependent'
  BY <1>1 DEF OwnEntry, OpenEntry, Attached, FreshOpen, TabsIndependent
<1>3. CASE StartCast(b)
  <2>1. PICK C \in CastTargets : cast' = [cast EXCEPT ![b] = [event |-> events', todo |-> C]]
    BY <1>3, ZenonT(30) DEF StartCast
  <2>2. C \subseteq Conns /\ \A c \in C : clients[c] = c BY TargetsRegistered
  <2>3. events' \in Nat /\ events' \in Events
    BY <1>3, SseInputs DEF StartCast, Events, RegistryType
  <2>4. RegistryType' BY <1>1, <2>1, <2>2, <2>3 DEF RegistryType
  <2>5. CastRegistered' BY <1>1, <2>1, <2>2 DEF CastRegistered, RegistryType
  <2> QED BY <1>2, <2>4, <2>5
<1>4. CASE \E c \in Conns : Send(b, c)
  <2>1. PICK c \in Conns : Send(b, c) BY <1>4
  <2>2. cast[b] \in [event : Events, todo : SUBSET Conns]
    BY <2>1 DEF Send, RegistryType
  <2>3. cast' = [cast EXCEPT ![b] = [event |-> cast[b].event, todo |-> cast[b].todo \ {c}]]
    <3>1. cast' = [cast EXCEPT ![b] = [cast[b] EXCEPT !.todo = cast[b].todo \ {c}]]
      BY <2>1, ZenonT(30) DEF Send
    <3>2. ASSUME NEW r \in [event : Events, todo : SUBSET Conns], NEW T
          PROVE  [r EXCEPT !.todo = T] = [event |-> r.event, todo |-> T]
      OBVIOUS
    <3> QED BY <3>1, <3>2, <2>2, ZenonT(30)
  <2>4. events' = events BY <2>1 DEF Send
  <2>5. RegistryType' BY <1>1, <2>2, <2>3, <2>4 DEF RegistryType
  <2>6. cast[b] # NoOne BY <2>1 DEF Send
  <2>7. CastRegistered' BY <1>1, <2>2, <2>3, <2>6 DEF CastRegistered, RegistryType
  <2> QED BY <1>2, <2>5, <2>7
<1>5. CASE EndCast(b)
  <2>1. RegistryType' BY <1>1, <1>5 DEF EndCast, RegistryType
  <2>2. CastRegistered' BY <1>1, <1>5 DEF EndCast, CastRegistered, RegistryType
  <2> QED BY <1>2, <2>1, <2>2
<1> QED BY <1>3, <1>4, <1>5 DEF CastStep

(* Streams and broadcasts keep the invariant of the registry, fair or not. *)
LEMMA SseSafe == SseInit /\ [][SseNext]_sseVars => []SseInv
<1>1. SseInv /\ [SseNext]_sseVars => SseInv'
  <2> SUFFICES ASSUME SseInv, [SseNext]_sseVars PROVE SseInv' OBVIOUS
  <2>1. CASE UNCHANGED sseVars
    BY <2>1 DEF sseVars, SseInv, RegistryType, OwnEntry, OpenEntry, Attached, FreshOpen,
                CastRegistered, TabsIndependent
  <2>2. CASE SseNext
    BY <2>2, SubscribeKeeps, UnsubscribeKeeps, BrokerCloseKeeps, StreamKeeps, CastKeeps
       DEF SseNext, StreamStep
  <2> QED BY <2>1, <2>2
<1> QED BY <1>1, SseInvInit, PTL

(* The invariant of the registry holds throughout. *)
THEOREM RegistryInvariant == SseSpec => []SseInv
BY SseSafe, PTL DEF SseSpec

(* The rest of the types: no channel holds more than its buffer, and a     *)
(* stream that writes has an event in hand.                                *)
ChannelType ==
  /\ topics \in [Conns -> SUBSET Topics]
  /\ chan \in [Conns -> Seq(Events)] /\ \A c \in Conns : Len(chan[c]) <= Buffer
  /\ gone \subseteq Conns
  /\ hand \in [Conns -> Events \cup {NoOne}]
  /\ \A c \in Conns : stream[c] = "write" => hand[c] \in Events
  /\ events \in 0..MaxBroadcasts
  /\ accepted \in [Conns -> SUBSET Events] /\ written \in [Conns -> SUBSET Events]

(* The steps of a stream keep them. *)
LEMMA StreamTypesKept ==
  ASSUME SseInv, ChannelType, NEW c \in Conns,
         \/ \E T \in SUBSET Topics : Subscribe(c, T)
         \/ StreamStep(c) \/ Disconnect(c)
  PROVE  ChannelType'
<1> USE DEF ChannelType
<1>1. stream \in [Conns -> {"none", "receive", "write", "leave", "ended"}]
  BY DEF SseInv, RegistryType
<1>2. ASSUME NEW T \in SUBSET Topics, Subscribe(c, T) PROVE ChannelType'
  BY <1>1, <1>2 DEF Subscribe
<1>3. CASE Receive(c)
  <2> DEFINE s == chan[c]
  <2>1. s \in Seq(Events) /\ s # <<>> /\ Len(s) <= Buffer BY <1>3 DEF Receive
  <2>2. Head(s) \in Events /\ Tail(s) \in Seq(Events) /\ Len(Tail(s)) = Len(s) - 1 BY <2>1, SMTT(30)
  <2>3. Len(s) \in Nat BY <2>1, SMTT(30)
  <2>4. Len(Tail(s)) <= Buffer BY <2>1, <2>2, <2>3, SseInputs, SMTT(30)
  <2>5. /\ hand' = [hand EXCEPT ![c] = Head(s)] /\ chan' = [chan EXCEPT ![c] = Tail(s)]
        /\ stream' = [stream EXCEPT ![c] = "write"]
        /\ UNCHANGED <<topics, gone, events, accepted, written>>
    BY <1>3 DEF Receive
  <2> HIDE DEF s
  <2>6. chan' \in [Conns -> Seq(Events)] /\ \A d \in Conns : Len(chan'[d]) <= Buffer
    BY <2>2, <2>4, <2>5
  <2>7. /\ hand' \in [Conns -> Events \cup {NoOne}]
        /\ \A d \in Conns : stream'[d] = "write" => hand'[d] \in Events
    BY <1>1, <2>2, <2>5
  <2> QED BY <2>5, <2>6, <2>7
<1>4. CASE RangeEnds(c) \/ Unsubscribe(c) \/ Disconnect(c)
  BY <1>1, <1>4 DEF RangeEnds, Unsubscribe, Disconnect
<1>5. CASE Write(c)
  <2>1. hand[c] \in Events BY <1>5 DEF Write
  <2>2. written' \in [Conns -> SUBSET Events]
    <3>1. written' = written \/ written' = [written EXCEPT ![c] = written[c] \cup {hand[c]}]
      BY <1>5 DEF Write
    <3>2. written[c] \cup {hand[c]} \in SUBSET Events BY <2>1
    <3> QED BY <3>1, <3>2
  <2>3. \A d \in Conns : stream'[d] = "write" => hand'[d] \in Events BY <1>1, <1>5 DEF Write
  <2> QED BY <1>5, <2>2, <2>3 DEF Write
<1> QED BY <1>2, <1>3, <1>4, <1>5 DEF StreamStep

(* The steps of a broadcast keep them: a full channel is skipped (Send). *)
LEMMA CastTypesKept ==
  ASSUME SseInv, ChannelType, NEW b \in Casters, StartCast(b) \/ CastStep(b)
  PROVE  ChannelType'
<1> USE DEF ChannelType
<1>1. CASE StartCast(b)
  <2>1. events' \in 0..MaxBroadcasts
    BY <1>1, SseInputs DEF StartCast
  <2>2. UNCHANGED <<topics, chan, stream, hand, gone, accepted, written>>
    BY <1>1 DEF StartCast
  <2> QED BY <2>1, <2>2
<1>2. ASSUME NEW c \in Conns, Send(b, c) PROVE ChannelType'
  <2>1. cast[b].event \in Events BY <1>2 DEF Send, SseInv, RegistryType
  <2>2. chan[c] \in Seq(Events) /\ Len(chan[c]) \in Nat OBVIOUS
  <2>3. CASE Len(chan[c]) < Buffer
    <3> DEFINE s == Append(chan[c], cast[b].event)
    <3>1. s \in Seq(Events) /\ Len(s) = Len(chan[c]) + 1 BY <2>1, <2>2, SMTT(30)
    <3>2. Len(s) <= Buffer BY <2>2, <2>3, <3>1, SseInputs, SMTT(30)
    <3>3. chan' = [chan EXCEPT ![c] = s] /\ accepted' = [accepted EXCEPT ![c] = @ \cup {cast[b].event}]
      BY <1>2, <2>3 DEF Send
    <3> HIDE DEF s
    <3>4. chan' \in [Conns -> Seq(Events)] /\ \A d \in Conns : Len(chan'[d]) <= Buffer
      BY <3>1, <3>2, <3>3
    <3>5. accepted' \in [Conns -> SUBSET Events] BY <2>1, <3>3
    <3> QED BY <1>2, <3>4, <3>5 DEF Send
  <2>4. CASE ~(Len(chan[c]) < Buffer) BY <1>2, <2>4 DEF Send
  <2> QED BY <2>3, <2>4
<1>3. CASE EndCast(b) BY <1>3 DEF EndCast
<1> QED BY <1>1, <1>2, <1>3 DEF CastStep

(* The broker keeps to its types, the bound on the channels included. *)
LEMMA SseTypesKept == SseInit /\ [][SseNext]_sseVars => []SseTypeOK
<1>1. SseInit => ChannelType BY SseInputs DEF SseInit, ChannelType
<1>2. SseInv /\ ChannelType /\ [SseNext]_sseVars => ChannelType'
  <2> SUFFICES ASSUME SseInv, ChannelType, [SseNext]_sseVars PROVE ChannelType' OBVIOUS
  <2>1. CASE BrokerClose \/ UNCHANGED sseVars BY <2>1 DEF BrokerClose, sseVars, ChannelType
  <2> QED BY <2>1, StreamTypesKept, CastTypesKept DEF SseNext
<1>3. SseInv /\ ChannelType => SseTypeOK BY DEF SseInv, RegistryType, ChannelType, SseTypeOK
<1> QED BY <1>1, <1>2, <1>3, SseSafe, PTL

(* Whom a broadcast still has to send to is registered, and its channel open. *)
LEMMA RegistryKeepsOpen == SseInv => NoSendOnClosed
<1> SUFFICES ASSUME SseInv, NEW b \in Casters, cast[b] # NoOne, NEW c \in cast[b].todo
             PROVE  c \notin closed
  BY DEF NoSendOnClosed
<1>1. c \in Conns BY DEF SseInv, RegistryType
<1> QED BY <1>1 DEF SseInv, CastRegistered, OpenEntry

(* No broadcast ever sends on a closed channel, which would panic.         *)
THEOREM NeverSendsOnClosed == SseSpec => []NoSendOnClosed
BY RegistryKeepsOpen, RegistryInvariant, PTL

(* No stream reads a channel that nobody can send on or close any more.    *)
THEOREM NoStreamOrphaned == SseSpec => []NoOrphanStream
<1>1. SseInv => NoOrphanStream
  <2> SUFFICES ASSUME SseInv, NEW c \in Conns, stream[c] \in {"receive", "write"}
               PROVE  c \in Registered \cup closed
    BY DEF NoOrphanStream
  <2> QED BY ConnsAreIds DEF SseInv, Attached, Registered
<1> QED BY <1>1, RegistryInvariant, PTL

(* Until the broker is closed only a stream's own end closes its channel.  *)
THEOREM TabsStayIndependent == SseSpec => []TabsIndependent
<1>1. SseInv => TabsIndependent BY DEF SseInv
<1> QED BY <1>1, RegistryInvariant, PTL


(***************************************************************************)
(* QueueConn: connections and channels.                                    *)
(***************************************************************************)
ConsumerPcs == {"idle", "drain", "backoff", "dial", "install", "reopen", "halted", "stopped"}
MaybeConn == ConnIdx \cup {NoConn}

ConnTypes ==
  /\ open \subseteq ConnIdx /\ conn \in ConnIdx
  /\ cpc \in [Consumers -> ConsumerPcs]
  /\ chOf \in [Consumers -> MaybeConn]
  /\ fresh \in [Consumers -> MaybeConn]
  /\ ping \in [Pings -> MaybeConn]
  /\ unread \in [ConnIdx -> SUBSET Messages]

(* A consumer holds a connection of its own exactly between dialling and   *)
(* installing it.                                                          *)
FreshWhileInstalling == \A c \in Consumers : fresh[c] = NoConn <=> cpc[c] # "install"

(* Nothing is unread on a connection that is closed. *)
UnreadIsOpen == \A i \in ConnIdx : unread[i] # {} => i \in open

(* The publisher channel was refused, or is there. *)
ChannelThere == ~qclosed => pubOpen \/ refused = conn

ConnInv ==
  /\ ConnTypes
  /\ FreshWhileInstalling
  /\ NoLeakedConnection
  /\ UnreadIsOpen
  /\ ChannelThere
  /\ LostOnlyWhenDropped

-----------------------------------------------------------------------------
(* A function on a finite set has no more values than the set has elements. *)
LEMMA FewValues ==
  ASSUME NEW S, IsFiniteSet(S), NEW f, f = [x \in S |-> f[x]]
  PROVE  /\ IsFiniteSet({f[x] : x \in S})
         /\ Cardinality({f[x] : x \in S}) <= Cardinality(S)
         /\ Cardinality({f[x] : x \in S}) \in Nat
<1> DEFINE T == {f[x] : x \in S}
<1>1. f \in Surjection(S, T) BY DEF Surjection
<1>2. IsFiniteSet(T) /\ Cardinality(T) <= Cardinality(S) BY <1>1, FS_Surjection
<1> QED BY <1>2, FS_CardinalityType

(* The union of two finite sets has at most as many elements as both. *)
LEMMA UnionBound ==
  ASSUME NEW S, IsFiniteSet(S), NEW T, IsFiniteSet(T), NEW m \in Nat, NEW n \in Nat,
         Cardinality(S) <= m, Cardinality(T) <= n
  PROVE  IsFiniteSet(S \cup T) /\ Cardinality(S \cup T) <= m + n
<1>1. Cardinality(S) \in Nat /\ Cardinality(T) \in Nat BY FS_CardinalityType
<1>2. IsFiniteSet(S \cap T) BY FS_Intersection
<1>3. Cardinality(S \cap T) \in Nat BY <1>2, FS_CardinalityType
<1>4. /\ IsFiniteSet(S \cup T)
      /\ Cardinality(S \cup T) = Cardinality(S) + Cardinality(T) - Cardinality(S \cap T)
  BY FS_Union
<1> QED BY <1>1, <1>3, <1>4

(* There is always a number for a new connection: what the fields refer to *)
(* is the current connection, and at most two for each consumer and one    *)
(* for each Ping.                                                          *)
LEMMA NewConnIsNew ==
  ASSUME ConnTypes, NoLeakedConnection, UnreadIsOpen
  PROVE  NewConn \in ConnIdx
<1> DEFINE k == Cardinality(Consumers)
           g == Cardinality(Pings)
           A == {chOf[c] : c \in Consumers}
           B == {fresh[c] : c \in Consumers}
           P == {ping[p] : p \in Pings}
           Used == ((A \cup B) \cup P) \cup {conn}
<1>1. k \in Nat /\ g \in Nat BY QueueInputs, FS_CardinalityType
<1>2. IsFiniteSet(A) /\ Cardinality(A) <= k BY QueueInputs, FewValues DEF ConnTypes
<1>3. IsFiniteSet(B) /\ Cardinality(B) <= k BY QueueInputs, FewValues DEF ConnTypes
<1>4. IsFiniteSet(P) /\ Cardinality(P) <= g BY QueueInputs, FewValues DEF ConnTypes
<1>5. IsFiniteSet({conn}) /\ Cardinality({conn}) <= 1
  <2>1. IsFiniteSet({conn}) /\ Cardinality({conn}) = 1 BY FS_Singleton, ZenonT(30)
  <2> QED BY <2>1
<1> HIDE DEF k, g, A, B, P
<1>6. IsFiniteSet(A \cup B) /\ Cardinality(A \cup B) <= k + k BY <1>1, <1>2, <1>3, UnionBound
<1>7. IsFiniteSet((A \cup B) \cup P) /\ Cardinality((A \cup B) \cup P) <= (k + k) + g
  <2> DEFINE S == A \cup B
             m == k + k
  <2>1. m \in Nat /\ IsFiniteSet(S) /\ Cardinality(S) <= m BY <1>1, <1>6
  <2> HIDE DEF S, m
  <2>2. IsFiniteSet(S \cup P) /\ Cardinality(S \cup P) <= m + g BY <1>1, <1>4, <2>1, UnionBound
  <2> QED BY <2>2 DEF S, m
<1>8. IsFiniteSet(Used) /\ Cardinality(Used) <= ((k + k) + g) + 1
  <2> DEFINE S == (A \cup B) \cup P
             m == (k + k) + g
  <2>1. m \in Nat /\ IsFiniteSet(S) /\ Cardinality(S) <= m BY <1>1, <1>7
  <2> HIDE DEF S, m
  <2>2. IsFiniteSet(S \cup {conn}) /\ Cardinality(S \cup {conn}) <= m + 1
    BY <1>5, <2>1, UnionBound, ZenonT(30)
  <2> QED BY <2>2 DEF S, m
<1>9. IsFiniteSet(ConnIdx) /\ Cardinality(ConnIdx) = 2 + 2 * k + g
  <2>1. ConnIdx = 1..(2 + 2 * k + g) BY DEF ConnIdx, k, g
  <2> QED BY <1>1, <2>1, FS_Interval
<1>10. ~(ConnIdx \subseteq Used)
  <2> SUFFICES ASSUME ConnIdx \subseteq Used PROVE FALSE OBVIOUS
  <2> HIDE DEF Used
  <2>1. Cardinality(ConnIdx) <= Cardinality(Used) BY <1>8, FS_Subset
  <2>2. Cardinality(Used) \in Nat BY <1>8, FS_CardinalityType
  <2> QED BY <1>1, <1>8, <1>9, <2>1, <2>2
<1>11. PICK i \in ConnIdx : i \notin Used BY <1>10
<1>12. i \in Unused BY <1>11 DEF Unused, UnreadIsOpen, NoLeakedConnection, A, B, P
<1>13. NewConn \in Unused BY <1>12 DEF NewConn
<1> QED BY <1>13 DEF Unused
(* The connections that redials have just opened. *)
Held == {fresh[c] : c \in Consumers}

(* NoLeakedConnection, one connection at a time. *)
LEMMA LeakForm ==
  NoLeakedConnection
    <=> \A x \in open : x \in Held \/ (x = conn /\ (qclosed => lateInstall))
<1>1. CASE qclosed /\ ~lateInstall BY <1>1 DEF NoLeakedConnection, Held
<1>2. CASE ~(qclosed /\ ~lateInstall) BY <1>2 DEF NoLeakedConnection, Held
<1> QED BY <1>1, <1>2

(* The same for the next state. *)
LEMMA LeakFormNext ==
  NoLeakedConnection'
    <=> \A x \in open' : x \in Held' \/ (x = conn' /\ (qclosed' => lateInstall'))
<1>1. CASE qclosed' /\ ~lateInstall' BY <1>1 DEF NoLeakedConnection, Held
<1>2. CASE ~(qclosed' /\ ~lateInstall') BY <1>2 DEF NoLeakedConnection, Held
<1> QED BY <1>1, <1>2

-----------------------------------------------------------------------------
(* newRabbitMQ has one connection, and nobody uses it yet. *)
LEMMA ConnInvInit == QueueInit => ConnInv
<1> SUFFICES ASSUME QueueInit PROVE ConnInv OBVIOUS
<1>1. 1 \in ConnIdx
  <2>1. Cardinality(Consumers) \in Nat /\ Cardinality(Pings) \in Nat
    BY QueueInputs, FS_CardinalityType
  <2> QED BY <2>1 DEF ConnIdx
<1>2. ConnTypes BY <1>1 DEF QueueInit, ConnTypes, MaybeConn, ConsumerPcs
<1>3. FreshWhileInstalling BY DEF QueueInit, FreshWhileInstalling
<1>4. NoLeakedConnection BY DEF QueueInit, NoLeakedConnection
<1>5. UnreadIsOpen BY DEF QueueInit, UnreadIsOpen
<1>6. ChannelThere BY DEF QueueInit, ChannelThere
<1>7. LostOnlyWhenDropped BY DEF QueueInit, LostOnlyWhenDropped
<1> QED BY <1>2, <1>3, <1>4, <1>5, <1>6, <1>7 DEF ConnInv

(* A consumer that neither dials nor installs, a Ping, and Cancel change   *)
(* no connection and no message.                                           *)
LEMMA ConnectionsAlone ==
  ASSUME ConnInv, UNCHANGED <<open, conn, pubOpen, qclosed, fresh, messageVars, refused, lateInstall>>,
         cpc' \in [Consumers -> ConsumerPcs], chOf' \in [Consumers -> MaybeConn],
         ping' \in [Pings -> MaybeConn],
         \A c \in Consumers : cpc[c] = "install" <=> cpc'[c] = "install"
  PROVE  ConnInv'
<1>1. ConnTypes' BY DEF ConnInv, ConnTypes, messageVars
<1>2. FreshWhileInstalling' BY DEF ConnInv, FreshWhileInstalling
<1>3. NoLeakedConnection' BY DEF ConnInv, NoLeakedConnection
<1>4. UnreadIsOpen' BY DEF ConnInv, UnreadIsOpen, messageVars
<1>5. ChannelThere' BY DEF ConnInv, ChannelThere
<1>6. LostOnlyWhenDropped' BY DEF ConnInv, LostOnlyWhenDropped, messageVars
<1> QED BY <1>1, <1>2, <1>3, <1>4, <1>5, <1>6 DEF ConnInv

(* A consumer opens, loses or gives up its channel. *)
LEMMA ConsumersKeep ==
  ASSUME ConnInv, NEW c \in Consumers,
         QConsume(c) \/ ChannelLost(c) \/ ConsumerStops(c) \/ BackoffOver(c) \/ AttemptFails(c)
           \/ Reopen(c) \/ ConsumerChannelDrops(c)
  PROVE  ConnInv'
<1> USE DEF ConsumerPcs
<1>1. /\ UNCHANGED <<open, conn, pubOpen, qclosed, fresh, messageVars, refused, lateInstall, ping>>
      /\ cpc[c] # "install"
  BY DEF QConsume, ChannelLost, ConsumerStops, BackoffOver, AttemptFails, Reopen,
         ConsumerChannelDrops, OpenConsumer, TryAgain
<1>2. PICK s \in ConsumerPcs \ {"install"} : cpc' = [cpc EXCEPT ![c] = s]
  <2>1. CASE ConsumerChannelDrops(c)
    <3>1. cpc' = [cpc EXCEPT ![c] = "drain"]
      BY <2>1 DEF ConsumerChannelDrops, ConnInv, ConnTypes
    <3> QED BY <3>1, ZenonT(30)
  <2>2. CASE ~ConsumerChannelDrops(c)
    BY <2>2 DEF QConsume, ChannelLost, ConsumerStops, BackoffOver, AttemptFails, Reopen,
                OpenConsumer, TryAgain
  <2> QED BY <2>1, <2>2
<1>3. \/ chOf' = chOf \/ chOf' = [chOf EXCEPT ![c] = NoConn] \/ chOf' = [chOf EXCEPT ![c] = conn]
  BY DEF QConsume, ChannelLost, ConsumerStops, BackoffOver, AttemptFails, Reopen,
         ConsumerChannelDrops, OpenConsumer, TryAgain
<1>4. ConnTypes BY DEF ConnInv
<1>5. cpc' \in [Consumers -> ConsumerPcs] BY <1>2, <1>4 DEF ConnTypes
<1>6. chOf' \in [Consumers -> MaybeConn] BY <1>3, <1>4 DEF ConnTypes, MaybeConn
<1>7. ping' \in [Pings -> MaybeConn] BY <1>1, <1>4 DEF ConnTypes
<1>8. \A d \in Consumers : cpc[d] = "install" <=> cpc'[d] = "install"
  BY <1>1, <1>2, <1>4 DEF ConnTypes
<1> QED BY <1>1, <1>5, <1>6, <1>7, <1>8, ConnectionsAlone

(* Ping looks at the connection, and the context is cancelled. *)
LEMMA WatchersKeep ==
  ASSUME ConnInv, Cancel \/ \E p \in Pings : PingStarts(p) \/ PingEnds(p)
  PROVE  ConnInv'
<1>1. UNCHANGED <<open, conn, pubOpen, qclosed, fresh, messageVars, refused, lateInstall, cpc, chOf>>
  BY DEF Cancel, PingStarts, PingEnds, consumerVars
<1>2. ConnTypes BY DEF ConnInv
<1>3. ping' \in [Pings -> MaybeConn]
  BY <1>2 DEF ConnTypes, MaybeConn, Cancel, PingStarts, PingEnds
<1>4. cpc' \in [Consumers -> ConsumerPcs] /\ chOf' \in [Consumers -> MaybeConn]
  BY <1>1, <1>2 DEF ConnTypes
<1> QED BY <1>1, <1>3, <1>4, ConnectionsAlone

(* redial opens a connection, which its consumer holds. *)
LEMMA DialKeeps == ASSUME ConnInv, NEW c \in Consumers, Dial(c) PROVE ConnInv'
<1> DEFINE n == NewConn
<1>1. ConnTypes BY DEF ConnInv
<1>2. n \in ConnIdx BY NewConnIsNew DEF ConnInv
<1>3. n # NoConn BY <1>2, QueueInputs
<1>4. /\ cpc[c] = "dial" /\ fresh' = [fresh EXCEPT ![c] = n] /\ open' = open \cup {n}
      /\ cpc' = [cpc EXCEPT ![c] = "install"]
      /\ UNCHANGED <<conn, pubOpen, qclosed, chOf, ping, refused, lateInstall>>
      /\ UNCHANGED <<unread, stored, published, dropped>>
  BY DEF Dial, messageVars
<1> HIDE DEF n
<1>5. ConnTypes' BY <1>1, <1>2, <1>4 DEF ConnTypes, MaybeConn, ConsumerPcs
<1>6. /\ fresh[c] = NoConn /\ fresh'[c] = n /\ \A d \in Consumers : d # c => fresh'[d] = fresh[d]
      /\ cpc'[c] = "install" /\ \A d \in Consumers : d # c => cpc'[d] = cpc[d]
  BY <1>1, <1>4 DEF ConnTypes, ConnInv, FreshWhileInstalling
<1>7. FreshWhileInstalling' BY <1>3, <1>6 DEF ConnInv, FreshWhileInstalling
<1>8. NoLeakedConnection'
  <2>1. NoConn \notin open BY <1>1, QueueInputs DEF ConnTypes
  <2>2. \A x \in open : x \in Held => x \in Held' BY <1>6, <2>1 DEF Held
  <2>3. \A x \in open : x \in Held \/ (x = conn /\ (qclosed => lateInstall))
    BY LeakForm DEF ConnInv
  <2>4. n \in Held' BY <1>6 DEF Held
  <2>5. \A x \in open' : x \in Held' \/ (x = conn' /\ (qclosed' => lateInstall'))
    BY <1>4, <2>2, <2>3, <2>4
  <2> QED BY <2>5, LeakFormNext
<1>9. UnreadIsOpen' BY <1>4 DEF ConnInv, UnreadIsOpen
<1>10. ChannelThere' BY <1>4 DEF ConnInv, ChannelThere
<1>11. LostOnlyWhenDropped' BY <1>4 DEF ConnInv, LostOnlyWhenDropped
<1> QED BY <1>5, <1>7, <1>8, <1>9, <1>10, <1>11 DEF ConnInv
(* LostOnlyWhenDropped, one message at a time. *)
LEMMA LostForm ==
  LostOnlyWhenDropped
    <=> \A m \in published : \/ m \in stored \/ m \in dropped
                             \/ \E i \in open : m \in unread[i]
  BY DEF LostOnlyWhenDropped

(* The messages of a connection that is closed in order are stored. *)
LEMMA ChannelsCloseInOrder ==
  ASSUME ConnInv, NEW i \in ConnIdx, open' = open \ {i} \/ open' = open, CloseConn(i)
  PROVE  /\ unread' \in [ConnIdx -> SUBSET Messages]
         /\ UnreadIsOpen' /\ LostOnlyWhenDropped'
<1>1. ConnTypes BY DEF ConnInv
<1>2. /\ unread' = [unread EXCEPT ![i] = {}] /\ published' = published /\ dropped' = dropped
      /\ stored' = stored \cup (IF i \in open THEN unread[i] ELSE {})
  BY DEF CloseConn
<1>3. unread' \in [ConnIdx -> SUBSET Messages] /\ unread'[i] = {}
      /\ \A j \in ConnIdx : j # i => unread'[j] = unread[j]
  BY <1>1, <1>2 DEF ConnTypes
<1>4. UnreadIsOpen' BY <1>3 DEF ConnInv, UnreadIsOpen
<1>5. ASSUME NEW m \in published'
      PROVE  m \in stored' \/ m \in dropped' \/ \E j \in open' : m \in unread'[j]
  <2>1. m \in stored \/ m \in dropped \/ \E j \in open : m \in unread[j]
    BY <1>2, LostForm DEF ConnInv
  <2>2. CASE m \in stored \/ m \in dropped BY <1>2, <2>2
  <2>3. ASSUME NEW j \in open, m \in unread[j]
        PROVE  m \in stored' \/ \E k \in open' : m \in unread'[k]
    <3>1. CASE j = i BY <1>2, <2>3, <3>1
    <3>2. CASE j # i
      <4>1. j \in open' /\ j \in ConnIdx BY <1>1, <3>2 DEF ConnTypes
      <4> QED BY <1>3, <2>3, <3>2, <4>1
    <3> QED BY <3>1, <3>2
  <2> QED BY <2>1, <2>2, <2>3
<1>6. LostOnlyWhenDropped' BY <1>5 DEF LostOnlyWhenDropped
<1> QED BY <1>3, <1>4, <1>6

(* redial, under the mutex: the fresh connection takes the place of one    *)
(* that is closed.                                                         *)
LEMMA InstallKeeps == ASSUME ConnInv, NEW c \in Consumers, Install(c) PROVE ConnInv'
<1>1. ConnTypes BY DEF ConnInv
<1>2. /\ cpc[c] = "install" /\ conn' = fresh[c] /\ pubOpen' = TRUE
      /\ fresh' = [fresh EXCEPT ![c] = NoConn] /\ cpc' = [cpc EXCEPT ![c] = "reopen"]
      /\ lateInstall' = (lateInstall \/ qclosed)
      /\ UNCHANGED <<qclosed, chOf, ping>>
      /\ open' = open \ {conn} /\ CloseConn(conn)
  BY DEF Install, Replaced
<1>3. conn \in ConnIdx BY <1>1 DEF ConnTypes
<1>4. unread' \in [ConnIdx -> SUBSET Messages] /\ UnreadIsOpen' /\ LostOnlyWhenDropped'
  BY <1>2, <1>3, ChannelsCloseInOrder
<1>5. fresh[c] \in ConnIdx
  BY <1>1, <1>2 DEF ConnInv, ConnTypes, FreshWhileInstalling, MaybeConn
<1>6. ConnTypes' BY <1>1, <1>2, <1>4, <1>5 DEF ConnTypes, MaybeConn, ConsumerPcs
<1>7. /\ fresh'[c] = NoConn /\ \A d \in Consumers : d # c => fresh'[d] = fresh[d]
      /\ cpc'[c] = "reopen" /\ \A d \in Consumers : d # c => cpc'[d] = cpc[d]
  BY <1>1, <1>2 DEF ConnTypes
<1>8. FreshWhileInstalling' BY <1>7 DEF ConnInv, FreshWhileInstalling
<1>9. NoLeakedConnection'
  <2>1. \A x \in open' : x \in open /\ x # conn BY <1>2
  <2>2. \A x \in open' : x \in Held BY <2>1, LeakForm DEF ConnInv
  <2>3. \A x \in open' : x \in Held' \/ x = conn' BY <1>2, <1>7, <2>2 DEF Held
  <2>4. qclosed' => lateInstall' BY <1>2, ZenonT(30)
  <2> QED BY <2>3, <2>4, LeakFormNext
<1>10. ChannelThere' BY <1>2 DEF ChannelThere
<1> QED BY <1>4, <1>6, <1>8, <1>9, <1>10 DEF ConnInv

(* Close. *)
LEMMA QCloseKeeps == ASSUME ConnInv, QClose PROVE ConnInv'
<1>1. ConnTypes BY DEF ConnInv
<1>2. /\ ~qclosed /\ qclosed' = TRUE /\ open' = open \ {conn} /\ CloseConn(conn)
      /\ UNCHANGED <<conn, cpc, chOf, fresh, ping, lateInstall>>
  BY DEF QClose, consumerVars
<1>3. conn \in ConnIdx BY <1>1 DEF ConnTypes
<1>4. unread' \in [ConnIdx -> SUBSET Messages] /\ UnreadIsOpen' /\ LostOnlyWhenDropped'
  BY <1>2, <1>3, ChannelsCloseInOrder
<1>5. ConnTypes' BY <1>1, <1>2, <1>4 DEF ConnTypes
<1>6. FreshWhileInstalling' BY <1>2 DEF ConnInv, FreshWhileInstalling
<1>7. NoLeakedConnection'
  <2>1. \A x \in open' : x \in open /\ x # conn BY <1>2
  <2>2. \A x \in open' : x \in Held BY <2>1, LeakForm DEF ConnInv
  <2>3. Held' = Held BY <1>2 DEF Held
  <2> QED BY <2>2, <2>3, LeakFormNext
<1>8. ChannelThere' BY <1>2 DEF ChannelThere
<1> QED BY <1>4, <1>5, <1>6, <1>7, <1>8 DEF ConnInv
(* What the broker does to messages leaves the connections and the         *)
(* consumers as they are.                                                  *)
LEMMA MessagesMove ==
  ASSUME ConnInv, UNCHANGED <<conn, qclosed, cpc, chOf, fresh, ping, lateInstall>>,
         open' \subseteq open, unread' \in [ConnIdx -> SUBSET Messages],
         UnreadIsOpen', ChannelThere', LostOnlyWhenDropped'
  PROVE  ConnInv'
<1>1. ConnTypes' BY DEF ConnInv, ConnTypes
<1>2. FreshWhileInstalling' BY DEF ConnInv, FreshWhileInstalling
<1>3. NoLeakedConnection'
  <2>1. Held' = Held BY DEF Held
  <2>2. \A x \in open : x \in Held \/ (x = conn /\ (qclosed => lateInstall))
    BY LeakForm DEF ConnInv
  <2> QED BY <2>1, <2>2, LeakFormNext
<1> QED BY <1>1, <1>2, <1>3 DEF ConnInv

(* Publish writes to the current connection, which is open. *)
LEMMA PublishKeeps == ASSUME ConnInv, NEW m \in Messages, QPublish(m) PROVE ConnInv'
<1>1. ConnTypes BY DEF ConnInv
<1>2. /\ conn \in open /\ published' = published \cup {m}
      /\ unread' = [unread EXCEPT ![conn] = unread[conn] \cup {m}]
      /\ UNCHANGED <<open, conn, pubOpen, qclosed, cpc, chOf, fresh, ping, lateInstall>>
      /\ UNCHANGED <<stored, dropped, refused>>
  BY DEF QPublish, consumerVars
<1>3. /\ unread' \in [ConnIdx -> SUBSET Messages] /\ unread'[conn] = unread[conn] \cup {m}
      /\ \A j \in ConnIdx : j # conn => unread'[j] = unread[j]
  BY <1>1, <1>2 DEF ConnTypes
<1>4. UnreadIsOpen' BY <1>2, <1>3 DEF ConnInv, UnreadIsOpen
<1>5. ChannelThere' BY <1>2 DEF ConnInv, ChannelThere
<1>6. \A j \in open : unread[j] \subseteq unread'[j] BY <1>1, <1>3 DEF ConnTypes
<1>7. ASSUME NEW x \in published'
      PROVE  x \in stored' \/ x \in dropped' \/ \E j \in open' : x \in unread'[j]
  <2>1. CASE x = m BY <1>2, <1>3, <2>1
  <2>2. CASE x \in published
    <3>1. x \in stored \/ x \in dropped \/ \E j \in open : x \in unread[j]
      BY <2>2, LostForm DEF ConnInv
    <3> QED BY <1>2, <1>6, <3>1
  <2> QED BY <1>2, <2>1, <2>2
<1>8. LostOnlyWhenDropped' BY <1>7 DEF LostOnlyWhenDropped
<1> QED BY <1>2, <1>3, <1>4, <1>5, <1>8, MessagesMove

(* The broker reads what was published, or closes the publisher channel.   *)
LEMMA ReadsKeep ==
  ASSUME ConnInv, DeclareRefused \/ \E i \in ConnIdx : BrokerReads(i)
  PROVE  ConnInv'
<1>1. ConnTypes BY DEF ConnInv
<1>2. CASE DeclareRefused
  <2>1. /\ conn \in open /\ stored' = stored \cup unread[conn]
        /\ unread' = [unread EXCEPT ![conn] = {}] /\ refused' = conn
        /\ UNCHANGED <<open, conn, qclosed, cpc, chOf, fresh, ping, lateInstall>>
        /\ UNCHANGED <<published, dropped>>
    BY <1>2 DEF DeclareRefused, consumerVars
  <2>2. CloseConn(conn) BY <2>1 DEF CloseConn
  <2>3. unread' \in [ConnIdx -> SUBSET Messages] /\ UnreadIsOpen' /\ LostOnlyWhenDropped'
    BY <1>1, <2>1, <2>2, ChannelsCloseInOrder DEF ConnTypes
  <2>4. ChannelThere' BY <2>1 DEF ChannelThere
  <2> QED BY <2>1, <2>3, <2>4, MessagesMove
<1>3. ASSUME NEW i \in ConnIdx, BrokerReads(i) PROVE ConnInv'
  <2>1. /\ CloseConn(i)
        /\ UNCHANGED <<open, conn, pubOpen, qclosed, cpc, chOf, fresh, ping, refused, lateInstall>>
    BY <1>3 DEF BrokerReads, consumerVars
  <2>2. unread' \in [ConnIdx -> SUBSET Messages] /\ UnreadIsOpen' /\ LostOnlyWhenDropped'
    BY <2>1, ChannelsCloseInOrder
  <2>3. ChannelThere' BY <2>1 DEF ConnInv, ChannelThere
  <2> QED BY <2>1, <2>2, <2>3, MessagesMove
<1> QED BY <1>2, <1>3

(* A connection that drops takes its unread messages with it. *)
LEMMA DropKeeps == ASSUME ConnInv, NEW i \in ConnIdx, ConnectionDrops(i) PROVE ConnInv'
<1>1. ConnTypes BY DEF ConnInv
<1>2. /\ open' = open \ {i} /\ dropped' = dropped \cup unread[i]
      /\ unread' = [unread EXCEPT ![i] = {}]
      /\ UNCHANGED <<conn, pubOpen, qclosed, cpc, chOf, fresh, ping, refused, lateInstall>>
      /\ UNCHANGED <<stored, published>>
  BY DEF ConnectionDrops, consumerVars
<1>3. /\ unread' \in [ConnIdx -> SUBSET Messages] /\ unread'[i] = {}
      /\ \A j \in ConnIdx : j # i => unread'[j] = unread[j]
  BY <1>1, <1>2 DEF ConnTypes
<1>4. UnreadIsOpen' BY <1>2, <1>3 DEF ConnInv, UnreadIsOpen
<1>5. ChannelThere' BY <1>2 DEF ConnInv, ChannelThere
<1>6. ASSUME NEW x \in published'
      PROVE  x \in stored' \/ x \in dropped' \/ \E j \in open' : x \in unread'[j]
  <2>1. x \in stored \/ x \in dropped \/ \E j \in open : x \in unread[j]
    BY <1>2, LostForm DEF ConnInv
  <2>2. ASSUME NEW j \in open, x \in unread[j]
        PROVE  x \in dropped' \/ \E k \in open' : x \in unread'[k]
    <3>1. j \in ConnIdx BY <1>1 DEF ConnTypes
    <3> QED BY <1>2, <1>3, <2>2, <3>1
  <2> QED BY <1>2, <2>1, <2>2
<1>7. LostOnlyWhenDropped' BY <1>6 DEF LostOnlyWhenDropped
<1> QED BY <1>2, <1>3, <1>4, <1>5, <1>7, MessagesMove

-----------------------------------------------------------------------------
(* The steps of the adapter and of the broker keep the invariant, fair or  *)
(* not.                                                                    *)
LEMMA QueueSafe == QueueInit /\ [][QueueNext]_queueVars => []ConnInv
<1>1. QueueInit => ConnInv BY ConnInvInit
<1>2. ConnInv /\ [QueueNext]_queueVars => ConnInv'
  <2> SUFFICES ASSUME ConnInv, [QueueNext]_queueVars PROVE ConnInv' OBVIOUS
  <2>1. ASSUME NEW c \in Consumers, QConsume(c) \/ ConsumerStep(c) \/ ConsumerChannelDrops(c)
        PROVE  ConnInv'
    BY <2>1, ConsumersKeep, DialKeeps, InstallKeeps DEF ConsumerStep
  <2>2. ASSUME NEW i \in ConnIdx, BrokerReads(i) \/ ConnectionDrops(i) PROVE ConnInv'
    BY <2>2, ReadsKeep, DropKeeps
  <2>3. CASE Cancel \/ \E p \in Pings : PingStarts(p) \/ PingEnds(p) BY <2>3, WatchersKeep
  <2>4. CASE QClose \/ DeclareRefused BY <2>4, QCloseKeeps, ReadsKeep
  <2>5. ASSUME NEW m \in Messages, QPublish(m) PROVE ConnInv' BY <2>5, PublishKeeps
  <2>6. CASE UNCHANGED queueVars
    <3>1. UNCHANGED <<open, conn, pubOpen, qclosed, fresh, messageVars, refused, lateInstall, cpc,
                      chOf, ping>>
      BY <2>6 DEF queueVars, messageVars
    <3> QED BY <3>1, ConnectionsAlone DEF ConnInv, ConnTypes
  <2> QED BY <2>1, <2>2, <2>3, <2>4, <2>5, <2>6 DEF QueueNext
<1> QED BY <1>1, <1>2, PTL

(* The inductive invariant of the queue adapter. *)
THEOREM QueueInvariant == QueueSpec => []ConnInv
BY QueueSafe, PTL DEF QueueSpec

(* The adapter keeps to its types; a consumer makes no more attempts than  *)
(* it may.                                                                 *)
LEMMA QueueTypesKept == QueueInit /\ [][QueueNext]_queueVars => []QueueTypeOK
<1> DEFINE B == {pubOpen, qclosed, ctxDone, lateInstall} \subseteq BOOLEAN
           A == attempt \in [Consumers -> 0..MaxReconnectTries]
           M == stored \subseteq Messages /\ published \subseteq Messages /\ dropped \subseteq Messages
           F == faults \in 0..MaxFaults /\ refused \in ConnIdx \cup {NoConn}
<1>1. QueueInit => B /\ A /\ M /\ F
  <2> SUFFICES ASSUME QueueInit PROVE B /\ A /\ M /\ F OBVIOUS
  <2>1. B BY DEF QueueInit
  <2>2. A BY QueueInputs DEF QueueInit
  <2>3. M /\ F BY QueueInputs DEF QueueInit
  <2> QED BY <2>1, <2>2, <2>3
<1>2. ConnInv /\ [QueueNext]_queueVars /\ B => B'
  BY DEF QueueNext, queueVars, QConsume, ConsumerStep, ChannelLost, ConsumerStops, BackoffOver,
         AttemptFails, Dial, Install, Replaced, Reopen, QPublish, DeclareRefused, BrokerReads,
         ConnectionDrops, ConsumerChannelDrops, PingStarts, PingEnds, Cancel, QClose
<1>3. ConnInv /\ [QueueNext]_queueVars /\ A => A'
  <2> SUFFICES ASSUME [QueueNext]_queueVars, A PROVE A' OBVIOUS
  <2>1. ASSUME NEW c \in Consumers, QConsume(c) \/ ChannelLost(c) \/ Reopen(c) PROVE A'
    <3>1. attempt' = attempt \/ \E n \in {0, 1} : attempt' = [attempt EXCEPT ![c] = n]
      BY <2>1 DEF QConsume, ChannelLost, Reopen, OpenConsumer
    <3>2. 0 \in 0..MaxReconnectTries /\ 1 \in 0..MaxReconnectTries
      BY QueueInputs
    <3> QED BY <3>1, <3>2
  <2>2. ASSUME NEW c \in Consumers, AttemptFails(c) PROVE A'
    <3>1. CASE attempt' = attempt
      BY <3>1
    <3>2. CASE attempt[c] < MaxReconnectTries /\ attempt' = [attempt EXCEPT ![c] = @ + 1]
      <4>1. attempt[c] + 1 \in 0..MaxReconnectTries
        BY <3>2, QueueInputs
      <4> QED BY <3>2, <4>1
    <3> QED BY <2>2, <3>1, <3>2 DEF AttemptFails, TryAgain
  <2>3. ASSUME NEW c \in Consumers,
               \/ ConsumerStops(c) \/ BackoffOver(c) \/ Dial(c) \/ Install(c)
               \/ ConsumerChannelDrops(c)
        PROVE  A'
    BY <2>3 DEF ConsumerStops, BackoffOver, Dial, Install, Replaced, ConsumerChannelDrops
  <2>4. CASE \/ \E m \in Messages : QPublish(m)
             \/ DeclareRefused
             \/ \E i \in ConnIdx : BrokerReads(i) \/ ConnectionDrops(i)
             \/ \E p \in Pings : PingStarts(p) \/ PingEnds(p)
             \/ Cancel \/ QClose \/ UNCHANGED queueVars
    <3>1. UNCHANGED attempt
      BY <2>4 DEF consumerVars, queueVars, QPublish, DeclareRefused, BrokerReads, ConnectionDrops,
                  PingStarts, PingEnds, Cancel, QClose
    <3> QED BY <3>1
  <2> QED BY <2>1, <2>2, <2>3, <2>4 DEF QueueNext, ConsumerStep
<1>4. ConnInv /\ [QueueNext]_queueVars /\ M => M'
  BY DEF ConnInv, ConnTypes, QueueNext, queueVars, messageVars, QConsume, ConsumerStep, ChannelLost,
         ConsumerStops, BackoffOver, AttemptFails, Dial, Install, CloseConn, Reopen, QPublish,
         DeclareRefused, BrokerReads, ConnectionDrops, ConsumerChannelDrops, PingStarts, PingEnds,
         Cancel, QClose
<1>5. ConnInv /\ [QueueNext]_queueVars /\ F => F'
  <2> SUFFICES ASSUME ConnInv, [QueueNext]_queueVars, F PROVE F' OBVIOUS
  <2>1. conn \in ConnIdx
    BY DEF ConnInv, ConnTypes
  <2>2. \/ UNCHANGED faults
        \/ faults < MaxFaults /\ faults' = faults + 1
    BY DEF QueueNext, queueVars, QConsume, ConsumerStep, ChannelLost, ConsumerStops, BackoffOver,
           AttemptFails, Dial, Install, Replaced, Reopen, QPublish, DeclareRefused, BrokerReads,
           ConnectionDrops, ConsumerChannelDrops, PingStarts, PingEnds, Cancel, QClose
  <2>3. refused' \in {refused, conn, NoConn}
    BY DEF QueueNext, queueVars, QConsume, ConsumerStep, ChannelLost, ConsumerStops, BackoffOver,
           AttemptFails, Dial, Install, Replaced, Reopen, QPublish, DeclareRefused, BrokerReads,
           ConnectionDrops, ConsumerChannelDrops, PingStarts, PingEnds, Cancel, QClose
  <2>4. faults' \in 0..MaxFaults
    BY <2>2, QueueInputs
  <2> QED BY <2>1, <2>3, <2>4
<1>6. ConnInv /\ B /\ A /\ M /\ F => QueueTypeOK
  BY DEF ConnInv, ConnTypes, ConsumerPcs, MaybeConn, QueueTypeOK
<1> QED BY <1>1, <1>2, <1>3, <1>4, <1>5, <1>6, QueueSafe, PTL

(* However many consumers redial at once, a connection that is neither the *)
(* current one nor just dialled is closed; after Close none is left unless *)
(* a redial overtook it.                                                   *)
THEOREM ConnectionsDoNotLeak == QueueSpec => []NoLeakedConnection
<1>1. ConnInv => NoLeakedConnection BY DEF ConnInv
<1> QED BY <1>1, QueueInvariant, PTL

(* Only a refusal by the broker makes the publisher channel unusable while *)
(* the connection is up.                                                   *)
THEOREM PublisherStaysUsable == QueueSpec => []PublisherUsable
<1>1. ConnInv => PublisherUsable BY DEF ConnInv, ChannelThere, PublisherUsable
<1> QED BY <1>1, QueueInvariant, PTL

(* A published message is lost only with the broker's side of its          *)
(* connection, not by a reconnect and not by Close.                        *)
THEOREM OnlyDropsLose == QueueSpec => []LostOnlyWhenDropped
<1>1. ConnInv => LostOnlyWhenDropped BY DEF ConnInv
<1> QED BY <1>1, QueueInvariant, PTL


(***************************************************************************)
(* PolicyWatcher: the table, the models and the messages between them.     *)
(***************************************************************************)
(* The rules that may go: those that get removed, and what the callback    *)
(* makes of them at an instance that hears of it.                          *)
AsPolicy(rule) == [sec |-> "p", name |-> rule.name]
Withdrawn == Removable \cup {AsPolicy(r) : r \in Removable}

(* The messages in a box are of their type, few enough, and announce the   *)
(* removal only of what may go.                                            *)
BoxOK(s) ==
  /\ s \in Seq(WatchMessages) /\ Len(s) <= WatchBuffer
  /\ \A n \in 1..Len(s) : s[n].op = "remove_policy" => s[n].rule \in Withdrawn

(* What an instance adds, for itself or at another's word, is in the table *)
(* as long as it is in the model, unless it may go; and only what may go   *)
(* is announced as removed.                                                *)
WatchInv ==
  /\ watcher \in {"redis", "memory", "none"}
  /\ table \subseteq AllRules
  /\ loaded \in [Instances -> SUBSET AllRules]
  /\ DOMAIN inbox = Instances /\ \A i \in Instances : BoxOK(inbox[i])
  /\ toAdd \subseteq WatchRules /\ toRemove \subseteq Removable
  /\ \A i \in Instances : loaded[i] \ Withdrawn \subseteq table
  /\ \A rule \in WatchRules \ Withdrawn : rule \in toAdd \/ rule \in table

(* The safe half of AddsReachAll: a rule that was added and may not go is  *)
(* in the table, which every reload reads; and no model has a rule, other  *)
(* than one that may go, that the table lacks.                             *)
TableKeepsRules ==
  /\ \A rule \in WatchRules \ Withdrawn : rule \in toAdd \/ rule \in table
  /\ \A i \in Instances : loaded[i] \ Withdrawn \subseteq table

(* Publishing a message leaves every box in order, whoever gets it (what   *)
(* does not fit is lost).                                                  *)
LEMMA NotifyKeepsBoxes ==
  ASSUME watcher \in {"redis", "memory", "none"},
         NEW i \in Instances, NEW box, DOMAIN box = Instances,
         \A j \in Instances : BoxOK(box[j]),
         NEW msg \in WatchMessages, msg.op = "remove_policy" => msg.rule \in Withdrawn,
         NEW out \in Notified(i, box, msg)
  PROVE  DOMAIN out = Instances /\ \A j \in Instances : BoxOK(out[j])
<1>1. ASSUME NEW j \in Instances, Len(box[j]) < WatchBuffer PROVE BoxOK(Append(box[j], msg))
  <2> DEFINE s == box[j]
             t == Append(s, msg)
  <2>1. /\ s \in Seq(WatchMessages)
        /\ \A n \in 1..Len(s) : s[n].op = "remove_policy" => s[n].rule \in Withdrawn
    BY DEF BoxOK
  <2>2. Len(s) \in Nat BY <2>1
  <2>3. t \in Seq(WatchMessages) /\ Len(t) = Len(s) + 1 BY <2>1, SMTT(30)
  <2>4. Len(t) <= WatchBuffer BY <1>1, <2>2, <2>3, WatchInputs, SMTT(30)
  <2>5. \A n \in 1..Len(t) : t[n] = IF n <= Len(s) THEN s[n] ELSE msg BY <2>1, <2>2, <2>3, SMTT(30)
  <2> HIDE DEF t
  <2>6. ASSUME NEW n \in 1..Len(t), t[n].op = "remove_policy" PROVE t[n].rule \in Withdrawn
    <3>1. CASE n <= Len(s)
      <4>1. n \in 1..Len(s) /\ t[n] = s[n] BY <2>2, <2>3, <2>5, <3>1, SMTT(30)
      <4> QED BY <2>1, <2>6, <4>1, ZenonT(30)
    <3>2. CASE ~(n <= Len(s)) BY <2>5, <2>6, <3>2
    <3> QED BY <3>1, <3>2
  <2> QED BY <2>3, <2>4, <2>6 DEF BoxOK, t
<1>2. ASSUME NEW H
      PROVE  /\ DOMAIN Delivered(H, box, msg) = Instances
             /\ \A j \in Instances : BoxOK(Delivered(H, box, msg)[j])
  BY <1>1 DEF Delivered
<1>3. out = box \/ \E H : out = Delivered(H, box, msg)
  BY DEF Notified, Published, SentInMemory
<1> QED BY <1>2, <1>3

(* The enforcer of an instance adds a rule, its own or an announced one. *)
LEMMA AddKeeps ==
  ASSUME WatchInv, NEW i \in Instances, NEW rule \in AllRules, NEW box, DOMAIN box = Instances,
         \A j \in Instances : BoxOK(box[j]), EnforcerAdd(i, rule, box),
         toAdd' \subseteq toAdd, toAdd \ table' \subseteq toAdd', toRemove' \subseteq Removable,
         watcher' = watcher
  PROVE  WatchInv'
<1> USE DEF WatchInv
<1>1. CASE UNCHANGED loaded /\ table' \in {table, table \cup {rule}} /\ inbox' = box
  BY <1>1
<1>2. ASSUME table' = table \cup {rule}, loaded' = [loaded EXCEPT ![i] = @ \cup {rule}],
             inbox' \in Notified(i, box, [op |-> "add_policy", rule |-> rule])
      PROVE  WatchInv'
  <2> DEFINE msg == [op |-> "add_policy", rule |-> rule]
  <2>1. /\ table' = table \cup {rule}
        /\ loaded' = [loaded EXCEPT ![i] = loaded[i] \cup {rule}]
        /\ inbox' \in Notified(i, box, msg)
    BY <1>2
  <2>2. msg \in WatchMessages /\ msg.op # "remove_policy" BY DEF WatchMessages
  <2> HIDE DEF msg
  <2>3. DOMAIN inbox' = Instances /\ \A j \in Instances : BoxOK(inbox'[j])
    BY <2>1, <2>2, NotifyKeepsBoxes
  <2>4. loaded' \in [Instances -> SUBSET AllRules] BY <2>1
  <2>5. \A j \in Instances : loaded'[j] \ Withdrawn \subseteq table' BY <2>1
  <2> QED BY <2>1, <2>3, <2>4, <2>5
<1> QED BY <1>1, <1>2 DEF EnforcerAdd

(* It removes one that may go. *)
LEMMA RemoveKeeps ==
  ASSUME WatchInv, NEW i \in Instances, NEW rule \in AllRules \cap Withdrawn, NEW box,
         DOMAIN box = Instances, \A j \in Instances : BoxOK(box[j]), EnforcerRemove(i, rule, box),
         toAdd' = toAdd, toRemove' \subseteq Removable, watcher' = watcher
  PROVE  WatchInv'
<1> USE DEF WatchInv
<1> DEFINE msg == [op |-> "remove_policy", rule |-> rule]
<1>1. /\ table' \in {table, table \ {rule}}
      /\ loaded' \in {loaded, [loaded EXCEPT ![i] = loaded[i] \ {rule}]}
      /\ inbox' \in Notified(i, box, msg) \/ inbox' = box
  BY DEF EnforcerRemove
<1>2. msg \in WatchMessages /\ msg.rule \in Withdrawn BY DEF WatchMessages
<1> HIDE DEF msg
<1>3. DOMAIN inbox' = Instances /\ \A j \in Instances : BoxOK(inbox'[j])
  BY <1>1, <1>2, NotifyKeepsBoxes
<1>4. loaded' \in [Instances -> SUBSET AllRules] BY <1>1
<1>5. \A j \in Instances : loaded'[j] \ Withdrawn \subseteq table' BY <1>1
<1> QED BY <1>1, <1>3, <1>4, <1>5

(* A message that the callback takes is of its type and leaves its box in  *)
(* order; the rule it applies is one of those there are.                   *)
LEMMA TakenMessage ==
  ASSUME NEW s, BoxOK(s), s # <<>>
  PROVE  /\ BoxOK(Tail(s)) /\ Head(s) \in WatchMessages
         /\ AsPolicy(Head(s).rule) \in AllRules
         /\ Head(s).op = "remove_policy" => AsPolicy(Head(s).rule) \in Withdrawn
<1>1. s \in Seq(WatchMessages) /\ Len(s) \in Nat /\ Len(s) <= WatchBuffer BY DEF BoxOK
<1>2. /\ Head(s) = s[1] /\ Head(s) \in WatchMessages /\ Len(s) >= 1
      /\ Tail(s) \in Seq(WatchMessages) /\ Len(Tail(s)) = Len(s) - 1
      /\ \A n \in 1..(Len(s) - 1) : Tail(s)[n] = s[n + 1]
  BY <1>1, SMTT(30)
<1>3. BoxOK(Tail(s))
  <2> DEFINE t == Tail(s)
  <2>1. Len(t) <= WatchBuffer BY <1>1, <1>2, WatchInputs, SMTT(30)
  <2>2. \A n \in 1..Len(t) : n + 1 \in 1..Len(s) /\ t[n] = s[n + 1] BY <1>1, <1>2, SMTT(30)
  <2>3. \A n \in 1..Len(s) : s[n].op = "remove_policy" => s[n].rule \in Withdrawn BY DEF BoxOK
  <2>4. t \in Seq(WatchMessages) BY <1>2
  <2> HIDE DEF t
  <2>5. \A n \in 1..Len(t) : t[n].op = "remove_policy" => t[n].rule \in Withdrawn
    BY <2>2, <2>3, ZenonT(30)
  <2>6. BoxOK(t) BY <2>1, <2>4, <2>5 DEF BoxOK
  <2> QED BY <2>6 DEF t
<1>4. Head(s).rule \in AllRules BY <1>2 DEF WatchMessages, AllRules
<1>5. AsPolicy(Head(s).rule) \in AllRules
  <2>1. CASE Head(s).rule \in WatchRules BY <2>1 DEF AllRules, AsPolicy
  <2>2. ASSUME NEW r \in WatchRules, Head(s).rule = [sec |-> "p", name |-> r.name]
        PROVE  AsPolicy(Head(s).rule) \in AllRules
    BY <2>2 DEF AllRules, AsPolicy
  <2> QED BY <1>4, <2>1, <2>2 DEF AllRules
<1>6. ASSUME Head(s).op = "remove_policy" PROVE AsPolicy(Head(s).rule) \in Withdrawn
  <2>1. Head(s).rule \in Withdrawn
    <3>1. 1 \in 1..Len(s) BY <1>1, <1>2, SMTT(30)
    <3> QED BY <1>2, <1>6, <3>1 DEF BoxOK
  <2>2. CASE Head(s).rule \in Removable BY <2>2 DEF Withdrawn
  <2>3. ASSUME NEW r \in Removable, Head(s).rule = AsPolicy(r)
        PROVE  AsPolicy(Head(s).rule) \in Withdrawn
    BY <2>3 DEF Withdrawn, AsPolicy
  <2> QED BY <2>1, <2>2, <2>3 DEF Withdrawn
<1> QED BY <1>2, <1>3, <1>5, <1>6

(* Every step of the enforcers, the callbacks and the reloads keeps what   *)
(* is in the tables, the models and the boxes in order.                    *)
LEMMA WatchSafe == WatchInit /\ [][WatchNext]_watchVars => []WatchInv
<1>1. WatchInit => WatchInv
  <2> SUFFICES ASSUME WatchInit PROVE WatchInv OBVIOUS
  <2>1. BoxOK(<<>>)
    <3>1. <<>> \in Seq(WatchMessages) /\ Len(<<>>) = 0 /\ 1..0 = {} BY SMTT(30)
    <3> QED BY <3>1, WatchInputs DEF BoxOK
  <2> QED BY <2>1 DEF WatchInit, WatchInv
<1>2. WatchInv /\ [WatchNext]_watchVars => WatchInv'
  <2> SUFFICES ASSUME WatchInv, [WatchNext]_watchVars PROVE WatchInv' OBVIOUS
  <2>1. ASSUME NEW i \in Instances, NEW rule \in WatchRules, AddRule(i, rule) PROVE WatchInv'
    <3>1. rule \in AllRules BY DEF AllRules
    <3>2. toAdd' \subseteq toAdd /\ toAdd \ table' \subseteq toAdd' BY <2>1 DEF AddRule
    <3> QED BY <2>1, <3>1, <3>2, AddKeeps DEF AddRule, WatchInv
  <2>2. ASSUME NEW i \in Instances, NEW rule \in WatchRules, RemoveRule(i, rule) PROVE WatchInv'
    <3>1. rule \in AllRules \cap Withdrawn BY <2>2 DEF AllRules, Withdrawn, RemoveRule, WatchInv
    <3> QED BY <2>2, <3>1, RemoveKeeps DEF RemoveRule, WatchInv
  <2>3. ASSUME NEW i \in Instances, UpdateCallback(i) PROVE WatchInv'
    <3> DEFINE rule == AsPolicy(Head(inbox[i]).rule)
               box == [inbox EXCEPT ![i] = Tail(@)]
    <3>1. inbox[i] # <<>> /\ BoxOK(inbox[i]) /\ UNCHANGED <<watcher, toAdd, toRemove>>
      BY <2>3 DEF UpdateCallback, WatchInv
    <3>2. /\ BoxOK(Tail(inbox[i])) /\ rule \in AllRules
          /\ Head(inbox[i]).op = "remove_policy" => rule \in Withdrawn
          /\ Head(inbox[i]).op \in {"add_policy", "remove_policy"}
      BY <3>1, TakenMessage DEF WatchMessages
    <3>3. DOMAIN box = Instances /\ \A j \in Instances : BoxOK(box[j]) BY <3>2 DEF WatchInv
    <3>4. IF Head(inbox[i]).op = "add_policy" THEN EnforcerAdd(i, rule, box)
                                              ELSE EnforcerRemove(i, rule, box)
      BY <2>3 DEF UpdateCallback, AsPolicy
    <3> HIDE DEF rule, box
    <3>5. CASE Head(inbox[i]).op = "add_policy"
      BY <3>1, <3>2, <3>3, <3>4, <3>5, AddKeeps DEF WatchInv
    <3>6. CASE Head(inbox[i]).op = "remove_policy"
      BY <3>1, <3>2, <3>3, <3>4, <3>6, RemoveKeeps DEF WatchInv
    <3> QED BY <3>2, <3>5, <3>6
  <2>4. ASSUME NEW i \in Instances, Reload(i) PROVE WatchInv'
    BY <2>4 DEF Reload, WatchInv
  <2>5. CASE UNCHANGED watchVars BY <2>5 DEF watchVars, WatchInv
  <2> QED BY <2>1, <2>2, <2>3, <2>4, <2>5 DEF WatchNext
<1> QED BY <1>1, <1>2, PTL

(* A rule that was added and may not go stays in the table, and no model   *)
(* has such a rule without it, for any number of instances, any rules and  *)
(* any buffer, with any watcher, whatever messages are lost or arrive late *)
(* and whatever statements fail or lose their answers.                     *)
THEOREM RulesStayInTable == WatchSpec => []TableKeepsRules
<1>1. WatchInv => TableKeepsRules BY DEF WatchInv, TableKeepsRules
<1> QED BY <1>1, WatchSafe, PTL DEF WatchSpec

(* The watchers keep to their types, and to their buffers. *)
LEMMA WatchTypesKept == WatchInit /\ [][WatchNext]_watchVars => []WatchTypeOK
<1>1. WatchInv => WatchTypeOK
  <2> SUFFICES ASSUME WatchInv PROVE WatchTypeOK OBVIOUS
  <2>1. ASSUME NEW i \in Instances
        PROVE  /\ Len(inbox[i]) <= WatchBuffer
               /\ \A n \in 1..WatchBuffer : n <= Len(inbox[i]) => inbox[i][n] \in WatchMessages
    <3>1. inbox[i] \in Seq(WatchMessages) /\ Len(inbox[i]) <= WatchBuffer BY DEF WatchInv, BoxOK
    <3> QED BY <3>1, WatchInputs, SMTT(30)
  <2> QED BY <2>1 DEF WatchInv, WatchTypeOK
<1> QED BY <1>1, WatchSafe, PTL

(***************************************************************************)
(* SmtpSend: the exchange with the server, and how Send returns.           *)
(***************************************************************************)
(* Send returns with the connection closed or never made, with a result,   *)
(* and without an error only if the server has taken the message.          *)
SendIsClean == Returned => link # "open" /\ outcome # "none" /\ (outcome = "ok" => taken)

(* The commands in order: the first dials, the second reads the greeting,  *)
(* the last but one ends the data and the last quits.                      *)
LEMMA ExchangeShape ==
  /\ Len(Exchange) \in Nat /\ Len(Exchange) >= 10
  /\ Exchange[1] = "dial" /\ Exchange[2] = "greeting"
  /\ Exchange[Len(Exchange)] = "quit" /\ Exchange[Len(Exchange) - 1] = "end"
  /\ \A n \in 1..Len(Exchange) :
       /\ Exchange[n] = "dial" <=> n = 1
       /\ Exchange[n] = "greeting" <=> n = 2
       /\ Exchange[n] = "quit" <=> n = Len(Exchange)
       /\ Exchange[n] = "end" <=> n = Len(Exchange) - 1
<1> DEFINE head == <<"dial", "greeting", "hello", "starttls", "auth", "mail">>
           rcpts == [n \in 1..Recipients |-> "rcpt"]
           tail == <<"data", "body", "end", "quit">>
           W == {"dial", "greeting", "hello", "starttls", "auth", "mail", "rcpt", "data", "body", "end",
                 "quit"}
<1>1. rcpts \in Seq({"rcpt"}) /\ Len(rcpts) = Recipients BY SmtpInputs, SMTT(30)
<1>2. head \in Seq(W) /\ tail \in Seq(W) /\ rcpts \in Seq(W)
  <2>1. head \in Seq(W) BY SMTT(30)
  <2>2. tail \in Seq(W) BY SMTT(30)
  <2>3. rcpts \in Seq(W) BY SmtpInputs, SMTT(30)
  <2> QED BY <2>1, <2>2, <2>3
<1>3. Len(head) = 6 /\ Len(tail) = 4 OBVIOUS
<1>4. Exchange = (head \o rcpts) \o tail BY DEF Exchange
<1>5. Len(Exchange) = Recipients + 10 BY <1>1, <1>2, <1>3, <1>4, SmtpInputs, SMTT(30)
<1>6. \A n \in 1..6 : Exchange[n] = head[n] BY <1>1, <1>2, <1>3, <1>4, <1>5, SmtpInputs, SMTT(30)
<1>7. \A n \in 7..(Recipients + 6) : Exchange[n] = "rcpt"
  BY <1>1, <1>2, <1>3, <1>4, <1>5, SmtpInputs, SMTT(30)
<1>8. \A n \in (Recipients + 7)..(Recipients + 10) : Exchange[n] = tail[n - Recipients - 6]
  BY <1>1, <1>2, <1>3, <1>4, <1>5, SmtpInputs, SMTT(30)
<1> QED
  <2>1. ASSUME NEW n \in 1..6
        PROVE  /\ Exchange[n] = "dial" <=> n = 1
               /\ Exchange[n] = "greeting" <=> n = 2
               /\ Exchange[n] # "quit" /\ Exchange[n] # "end"
    BY <1>6, SMTT(30)
  <2>2. ASSUME NEW n \in (Recipients + 7)..(Recipients + 10)
        PROVE  /\ Exchange[n] = "quit" <=> n = Recipients + 10
               /\ Exchange[n] = "end" <=> n = Recipients + 9
               /\ Exchange[n] # "dial" /\ Exchange[n] # "greeting"
    BY <1>8, SmtpInputs, SMTT(30)
  <2>3. \A n \in 1..Len(Exchange) :
          n \in 1..6 \/ n \in 7..(Recipients + 6) \/ n \in (Recipients + 7)..(Recipients + 10)
    BY <1>5, SmtpInputs, SMTT(30)
  <2> HIDE DEF head, rcpts, tail
  <2> QED BY <1>5, <1>7, <2>1, <2>2, <2>3, SmtpInputs, SMTT(30)

(* What is true or false of an exchange. *)
Flags == {callerDeadline, payloadOk, silent, taken} \subseteq BOOLEAN

(* Before the exchange is over there is no result, and before it begins no *)
(* connection; the deferred QUIT comes after the result is fixed.          *)
SmtpInv ==
  /\ SmtpTypeOK
  /\ command = 1 => link = "none"
  /\ command < QuitStep => outcome = "none"
  /\ command >= QuitStep => outcome # "none"
  /\ outcome = "ok" => taken
  /\ Returned => link # "open"

(* Every step of the exchange, of its context and of the server keeps it. *)
LEMMA SmtpSafe == SmtpInit /\ [][SmtpNext]_smtpVars => []SmtpInv
<1> DEFINE L == Len(Exchange)
<1>1. L \in Nat /\ L >= 10 BY ExchangeShape
<1>2. SmtpInit => SmtpInv
  <2> SUFFICES ASSUME SmtpInit PROVE SmtpInv OBVIOUS
  <2>1. Flags BY ZenonT(30) DEF SmtpInit, Flags
  <2>2. SmtpTypeOK BY <1>1, <2>1 DEF SmtpInit, Flags, SmtpTypeOK
  <2> QED BY <1>1, <2>2 DEF SmtpInit, SmtpInv, QuitStep, Returned
<1>3. SmtpInv /\ [SmtpNext]_smtpVars => SmtpInv'
  <2> SUFFICES ASSUME SmtpInv, [SmtpNext]_smtpVars PROVE SmtpInv' OBVIOUS
  <2>1. command \in 1..(L + 1) /\ (Returned <=> command > L) /\ QuitStep = L
    BY DEF SmtpInv, SmtpTypeOK, Returned, QuitStep
  <2>2. /\ At("dial") <=> command = 1
        /\ At("greeting") <=> command = 2
        /\ At("quit") <=> command = L
        /\ At("end") <=> command = L - 1
    BY <1>1, <2>1, ExchangeShape DEF At
  <2>3. /\ sendCtx \in {"live", "cancelled", "expired"} /\ link \in {"none", "open", "closed"}
        /\ outcome \in {"none", "ok", "error"}
        /\ Flags
    BY DEF SmtpInv, SmtpTypeOK, Flags
  <2>4. /\ command = 1 => link = "none"
        /\ command < L => outcome = "none"
        /\ command >= L => outcome # "none"
        /\ outcome = "ok" => taken
        /\ command > L => link # "open"
    BY <2>1 DEF SmtpInv
  <2> DEFINE Good == /\ command' \in 1..(L + 1)
                     /\ sendCtx' \in {"live", "cancelled", "expired"}
                     /\ link' \in {"none", "open", "closed"}
                     /\ outcome' \in {"none", "ok", "error"}
                     /\ command' = 1 => link' = "none"
                     /\ command' < L => outcome' = "none"
                     /\ command' >= L => outcome' # "none"
                     /\ outcome' = "ok" => taken'
                     /\ command' > L => link' # "open"
  <2>5. Good /\ Flags' => SmtpInv' BY <2>1 DEF Flags, SmtpInv, SmtpTypeOK, Returned, QuitStep
  <2>6. InExchange <=> command \in 2..(L - 1) BY <1>1, <2>1, <2>2 DEF InExchange
  <2> HIDE DEF L
  <2>7. ASSUME InvalidPayload PROVE Good
    BY <1>1, <2>1, <2>2, <2>3, <2>4, <2>6, <2>7, SMTT(30) DEF InvalidPayload, L
  <2>8. ASSUME DialServer PROVE Good
    BY <1>1, <2>1, <2>2, <2>3, <2>4, <2>6, <2>8, SMTT(30) DEF DialServer, L
  <2>9. ASSUME Command PROVE Good
    BY <1>1, <2>1, <2>2, <2>3, <2>4, <2>6, <2>9, SMTT(30) DEF Command, L
  <2>10. ASSUME CommandFails PROVE Good
    BY <1>1, <2>1, <2>2, <2>3, <2>4, <2>6, <2>10, SMTT(30) DEF CommandFails, L
  <2>11. ASSUME EndOfData PROVE Good
    BY <1>1, <2>1, <2>2, <2>3, <2>4, <2>6, <2>11, SMTT(30) DEF EndOfData, L
  <2>12. ASSUME Quit PROVE Good
    BY <1>1, <2>1, <2>2, <2>3, <2>4, <2>6, <2>12, SMTT(30) DEF Quit, L
  <2>13. ASSUME WatcherCloses PROVE Good
    BY <1>1, <2>1, <2>2, <2>3, <2>4, <2>6, <2>13, SMTT(30) DEF WatcherCloses, L
  <2>14. ASSUME DeadlinePasses \/ CtxCancelled \/ ServerGoesSilent PROVE Good
    BY <1>1, <2>1, <2>3, <2>4, <2>14, SMTT(30) DEF DeadlinePasses, CtxCancelled, ServerGoesSilent
  <2>15. ASSUME UNCHANGED smtpVars PROVE Good
    BY <1>1, <2>1, <2>3, <2>4, <2>15, SMTT(30) DEF smtpVars
  <2>16. Flags'
    <3>1. /\ UNCHANGED <<callerDeadline, payloadOk>>
          /\ silent' = silent \/ silent' = TRUE
          /\ taken' = taken \/ taken' = TRUE
      BY ZenonT(30) DEF SmtpNext, SmtpSteps, SmtpStep, InvalidPayload, DialServer, Command, CommandFails,
                   EndOfData, Quit, WatcherCloses, DeadlinePasses, CtxCancelled, ServerGoesSilent,
                   smtpVars
    <3> QED BY <2>3, <3>1, ZenonT(30) DEF Flags
  <2> QED
    BY <2>5, <2>7, <2>8, <2>9, <2>10, <2>11, <2>12, <2>13, <2>14, <2>15, <2>16
       DEF SmtpNext, SmtpSteps, SmtpStep
<1> QED BY <1>2, <1>3, PTL

(* Whenever Send returns, it returns cleanly, for any number of            *)
(* recipients, at whatever command the server refuses, falls silent or     *)
(* loses the answer, and whenever the context ends.                        *)
THEOREM SendsReturnCleanly == SmtpSpec => []SendIsClean
<1>1. SmtpInv => SendIsClean
  <2> SUFFICES ASSUME SmtpInv, Returned PROVE link # "open" /\ outcome # "none" /\ (outcome = "ok" => taken)
    BY DEF SendIsClean
  <2>1. command >= QuitStep BY ExchangeShape DEF SmtpInv, SmtpTypeOK, Returned, QuitStep
  <2> QED BY <2>1 DEF SmtpInv
<1> QED BY <1>1, SmtpSafe, PTL DEF SmtpSpec

(* Send keeps to its types. *)
LEMMA SmtpTypesKept == SmtpInit /\ [][SmtpNext]_smtpVars => []SmtpTypeOK
<1>1. SmtpInv => SmtpTypeOK BY DEF SmtpInv
<1> QED BY <1>1, SmtpSafe, PTL
=============================================================================
