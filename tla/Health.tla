------------------------------ MODULE Health -------------------------------
(***************************************************************************)
(* GET /healthz/ready (health/handler.go, health/checker.go): one          *)
(* goroutine per dependency, a deadline they share, and the answer when    *)
(* all have returned, while the dependencies fail, hang and recover.       *)
(***************************************************************************)
EXTENDS Naturals

CONSTANTS
  Deps,             \* the checkers: "database", "cache", "queue", "authz"
  ReadinessTimeout, \* deadline of one readiness request
  Heartbeat,        \* time after which the AMQP client gives up a silent connection
  MaxFlips          \* bound: changes of a dependency's state

ASSUME HealthInputs ==
  /\ Deps \subseteq {"database", "cache", "queue", "authz"}
  /\ ReadinessTimeout \in Nat \ {0} /\ Heartbeat \in Nat /\ Heartbeat > ReadinessTimeout
  /\ MaxFlips \in Nat

VARIABLES
  noop,         \* the dependencies that are switched off (a NoOp adapter)
  dep,          \* dep[d]: "up", "down" or "hung"
  probe,        \* probe[d]: "new", "running", or the result of its goroutine
  waited,       \* time since the request came
  shutting,     \* the server shuts down, which cancels its requests' contexts
  answer,       \* "idle" before the request, "none" during it, then the status
  upSeen,       \* upSeen[d]: the dependency was up at some moment of the request
  downSeen,     \* downSeen[d]: it was down or hung at some moment of the request
  flips

healthVars == <<noop, dep, probe, waited, shutting, answer, upSeen, downSeen, flips>>

HealthTypeOK ==
  /\ noop \subseteq Deps \ {"database"}
  /\ dep \in [Deps -> {"up", "down", "hung"}]
  /\ probe \in [Deps -> {"new", "running", "ok", "failed"}]
  /\ waited \in 0..Heartbeat /\ shutting \in BOOLEAN
  /\ answer \in {"idle", "none", "ready", "degraded"}
  /\ upSeen \subseteq Deps /\ downSeen \subseteq Deps
  /\ flips \in 0..MaxFlips

HealthInit ==
  /\ noop \in SUBSET (Deps \ {"database"})
  /\ dep \in { f \in [Deps -> {"up", "down", "hung"}] : f["authz"] = "up" }
  /\ probe = [d \in Deps |-> "new"]
  /\ waited = 0 /\ shutting = FALSE /\ answer = "idle" /\ flips = 0
  /\ upSeen = { d \in Deps : dep[d] = "up" }
  /\ downSeen = { d \in Deps : dep[d] # "up" }

(* Ping and EnforceWithContext look at their context once, first of all. *)
LooksFirst == {"queue", "authz"} \ noop

(* ReadinessCheck starts the checkers, each in a goroutine. *)
ReadinessCheck ==
  /\ answer = "idle"
  /\ answer' = "none"
  /\ probe' = [d \in Deps |-> IF d \in LooksFirst THEN "new" ELSE "running"]
  /\ UNCHANGED <<noop, dep, waited, shutting, upSeen, downSeen, flips>>

(* The context the checkers share. *)
CtxDone == shutting \/ waited >= ReadinessTimeout

(* What a round trip to d can end with by now; one that is given up may    *)
(* have its answer first.                                                  *)
RoundTrip(d, givenUp) ==
  { result \in {"ok", "failed"} :
      IF result = "ok" THEN dep[d] = "up" ELSE dep[d] = "down" \/ givenUp }

(* pool.Ping and EXISTS end with their context. *)
PostgresCheck == RoundTrip("database", CtxDone)
CacheCheck == IF "cache" \in noop THEN {"ok"} ELSE RoundTrip("cache", CtxDone)

(* Faulty variant: no heartbeat is negotiated. *)
QueueCheckUnwatched == IF "queue" \in noop THEN {"ok"} ELSE RoundTrip("queue", FALSE)

(* Ping opens a channel and declares, whatever becomes of its context: a   *)
(* broker that hangs is noticed by the heartbeat.                          *)
QueueCheck == IF "queue" \in noop THEN {"ok"} ELSE RoundTrip("queue", waited >= Heartbeat)

(* Enforce works on the policy in memory. *)
AuthzCheck == {"ok"}

Check(d) == CASE d = "database" -> PostgresCheck
              [] d = "cache" -> CacheCheck
              [] d = "queue" -> QueueCheck
              [] d = "authz" -> AuthzCheck

(* Ping or EnforceWithContext looks at its context. *)
ProbeStarts(d) ==
  /\ answer = "none" /\ probe[d] = "new"
  /\ probe' = [probe EXCEPT ![d] = IF CtxDone THEN "failed" ELSE "running"]
  /\ UNCHANGED <<noop, dep, waited, shutting, answer, upSeen, downSeen, flips>>

ProbeReturns(d) ==
  /\ answer = "none" /\ probe[d] = "running"
  /\ \E result \in Check(d) : probe' = [probe EXCEPT ![d] = result]
  /\ UNCHANGED <<noop, dep, waited, shutting, answer, upSeen, downSeen, flips>>

AllReturned == \A d \in Deps : probe[d] \in {"ok", "failed"}

(* Faulty variant: ready when any checker passed. *)
AnswerAny ==
  /\ answer = "none" /\ AllReturned
  /\ answer' = IF \A d \in Deps : probe[d] = "failed" THEN "degraded" ELSE "ready"
  /\ UNCHANGED <<noop, dep, probe, waited, shutting, upSeen, downSeen, flips>>

(* wg.Wait, then 200 or 503. *)
Answer ==
  /\ answer = "none" /\ AllReturned
  /\ answer' = IF \E d \in Deps : probe[d] = "failed" THEN "degraded" ELSE "ready"
  /\ UNCHANGED <<noop, dep, probe, waited, shutting, upSeen, downSeen, flips>>

DepChanges(d) ==
  /\ answer = "none" /\ flips < MaxFlips /\ d # "authz"
  /\ \E s \in {"up", "down", "hung"} \ {dep[d]} :
       /\ dep' = [dep EXCEPT ![d] = s]
       /\ upSeen' = IF s = "up" THEN upSeen \cup {d} ELSE upSeen
       /\ downSeen' = IF s # "up" THEN downSeen \cup {d} ELSE downSeen
  /\ flips' = flips + 1
  /\ UNCHANGED <<noop, probe, waited, shutting, answer>>

(* app.Shutdown, while a request is answered or before. *)
ContextEnds ==
  /\ answer \in {"idle", "none"} /\ ~shutting
  /\ shutting' = TRUE
  /\ UNCHANGED <<noop, dep, probe, waited, answer, upSeen, downSeen, flips>>

(* Time passes while a probe is out; one that can start or return does so  *)
(* at once: the goroutines take no time of the deadline.                   *)
HealthTick ==
  /\ answer = "none" /\ waited < Heartbeat
  /\ \A d \in Deps : probe[d] # "new" /\ (probe[d] = "running" => Check(d) = {})
  /\ ~AllReturned
  /\ waited' = waited + 1
  /\ UNCHANGED <<noop, dep, probe, shutting, answer, upSeen, downSeen, flips>>

HealthNext ==
  \/ \E d \in Deps : ProbeStarts(d) \/ ProbeReturns(d) \/ DepChanges(d)
  \/ ReadinessCheck \/ ContextEnds \/ Answer \/ HealthTick

HealthSteps == Answer \/ HealthTick \/ \E d \in Deps : ProbeStarts(d) \/ ProbeReturns(d)
HealthFairness == WF_healthVars(HealthSteps)
HealthSpec == HealthInit /\ [][HealthNext]_healthVars /\ HealthFairness

(***************************************************************************)
(* Properties.                                                             *)
(***************************************************************************)
(* The answer is what the probes met.  200 means that every dependency in  *)
(* use answered its probe, so each was up at some moment of the request;   *)
(* 503 that a dependency in use is reported that was down or hung at some  *)
(* moment, unless the server shuts down and ends the checks.  One that is  *)
(* switched off never degrades it.                                         *)
AnswerTrue ==
  /\ answer = "ready" => Deps \ noop \subseteq upSeen
  /\ answer = "degraded" =>
       \E d \in Deps \ noop : probe[d] = "failed" /\ (shutting \/ d \in downSeen)

(* Every readiness request is answered, also when a dependency hangs.      *)
ReadinessAnswers == []<>(answer # "none")

(* "Runs all registered dependency sub-checks in parallel under a shared   *)
(* deadline": the answer comes when the deadline has passed at the latest. *)
AnsweredByDeadline == answer = "none" => waited <= ReadinessTimeout
=============================================================================
