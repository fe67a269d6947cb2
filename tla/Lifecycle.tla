----------------------------- MODULE Lifecycle -----------------------------
(***************************************************************************)
(* internal/platform/app/app.go and cmd/api: New opens the adapters in     *)
(* order, with a fallback, a warning or a fatal error for each; Shutdown   *)
(* closes them in phases that share the deadline, while requests are still *)
(* running.                                                                *)
(*                                                                         *)
(* Time is counted from the start of Shutdown in twentieths of its total   *)
(* budget, so that the fractions of the phases are whole numbers.          *)
(***************************************************************************)
EXTENDS Naturals, Sequences

CONSTANTS
  Configs,      \* the configurations, each the set of what it enables
  Requests,     \* HTTP requests
  MaxTime       \* bound: time after which the clock stops

ASSUME LifeInputs == MaxTime \in Nat

VARIABLES
  config,       \* the enabled features
  boot,         \* the next step of New, or "done" or "fatal"
  adapter,      \* adapter[a]: what New installed, and whether Shutdown closed it
  req,          \* req[r]: what a request is doing
  stop,         \* the closing Shutdown is at; 0 before, Len(Closings) + 1 after
  elapsed,      \* time since Shutdown began
  since,        \* when the current phase began
  drained,      \* every request had ended when the first phase returned
  overrun       \* history: a Close took longer than the share of its phase

lifeVars == <<config, boot, adapter, req, stop, elapsed, since, drained, overrun>>

BootSteps == <<"validate", "tracer", "database", "cache", "queue", "storage", "authorizer",
               "metrics", "limiter", "start">>
Adapters == {"tracer", "database", "cache", "queue", "storage", "authorizer", "metrics",
             "limiter"}

(* The phases of Shutdown with their shares, and what each closes, in      *)
(* order.  Closing the auditor and the email sender does nothing.          *)
Closings == <<"server", "metrics", "sse", "authorizer", "limiter", "cache", "queue", "storage",
              "database", "tracer">>
PhaseOf(x) == IF x \in {"limiter", "cache", "queue", "storage"} THEN "adapters" ELSE x

Share(phase) ==
  CASE phase = "server" -> 8 [] phase = "metrics" -> 1 [] phase = "sse" -> 1
    [] phase = "authorizer" -> 2 [] phase = "adapters" -> 3 [] phase = "database" -> 2
    [] phase = "tracer" -> 3
Deadline == 20

(* When a phase begins at the latest, if those before it keep to their share. *)
Offset(phase) ==
  CASE phase = "server" -> 0 [] phase = "metrics" -> 8 [] phase = "sse" -> 9
    [] phase = "authorizer" -> 10 [] phase = "adapters" -> 12 [] phase = "database" -> 15
    [] phase = "tracer" -> 17

LifeTypeOK ==
  /\ config \in Configs
  /\ boot \in 1..(Len(BootSteps) + 2)
  /\ adapter \in [Adapters -> {"none", "real", "noop", "closed"}]
  /\ req \in [Requests -> {"new", "running", "query", "publish", "stream", "ended"}]
  /\ stop \in 0..(Len(Closings) + 1)
  /\ elapsed \in 0..MaxTime /\ since \in 0..MaxTime
  /\ {drained, overrun} \subseteq BOOLEAN

LifeInit ==
  /\ config \in Configs
  /\ boot = 1
  /\ adapter = [a \in Adapters |-> "none"]
  /\ req = [r \in Requests |-> "new"]
  /\ stop = 0 /\ elapsed = 0 /\ since = 0
  /\ drained = FALSE /\ overrun = FALSE

Booted == Len(BootSteps) + 1
Exited == Len(BootSteps) + 2
Serving == boot = Booted
Enabled(f) == f \in config

(* What a step of New installs when it succeeds; the switches of the       *)
(* configuration are named after the adapters, and the storage mode "s3".  *)
Installed(step) ==
  CASE step \in {"tracer", "metrics", "limiter"} -> IF Enabled(step) THEN "real" ELSE "none"
    [] step \in {"cache", "queue", "authorizer"} -> IF Enabled(step) THEN "real" ELSE "noop"
    [] OTHER -> "real"

BootOk ==
  /\ boot <= Len(BootSteps)
  /\ boot' = boot + 1
  /\ adapter' = [a \in Adapters |->
                   IF a = BootSteps[boot] THEN Installed(a) ELSE adapter[a]]
  /\ UNCHANGED <<config, req, stop, elapsed, since, drained, overrun>>

(* What is installed instead when a step fails.  The local storage that    *)
(* replaces S3 may fail as well, unnoticed.                                *)
Fallback(step) ==
  CASE step \in {"tracer", "cache", "queue"} /\ Enabled(step) ->
         {IF step = "tracer" THEN "none" ELSE "noop"}
    [] step = "storage" /\ Enabled("s3") -> {"real", "none"}
    [] OTHER -> {}

BootFallback ==
  /\ boot <= Len(BootSteps)
  /\ \E kind \in Fallback(BootSteps[boot]) :
       adapter' = [adapter EXCEPT ![BootSteps[boot]] = kind]
  /\ boot' = boot + 1
  /\ UNCHANGED <<config, req, stop, elapsed, since, drained, overrun>>

CanFail(step) ==
  \/ step \in {"validate", "database", "storage"}
  \/ step \in {"authorizer", "start"} /\ Enabled("authorizer")

(* New returns the error, or Listen fails: log.Fatalf ends the process. *)
BootFatal ==
  /\ \/ boot <= Len(BootSteps) /\ CanFail(BootSteps[boot]) /\ Fallback(BootSteps[boot]) = {}
     \/ Serving /\ stop = 0
  /\ boot' = Exited
  /\ UNCHANGED <<config, adapter, req, stop, elapsed, since, drained, overrun>>

-----------------------------------------------------------------------------
Active(r) == req[r] \notin {"new", "ended"}

Arrive(r) ==
  /\ Serving /\ stop = 0 /\ req[r] = "new"
  /\ req' = [req EXCEPT ![r] = "running"]
  /\ UNCHANGED <<config, boot, adapter, stop, elapsed, since, drained, overrun>>

(* A request takes a database connection, publishes a job or becomes a     *)
(* stream.                                                                 *)
Use(r) ==
  /\ Serving /\ req[r] = "running"
  /\ \/ adapter["database"] = "real" /\ req' = [req EXCEPT ![r] = "query"]
     \/ adapter["queue"] = "real" /\ req' = [req EXCEPT ![r] = "publish"]
     \/ Enabled("sse") /\ stop <= 3 /\ req' = [req EXCEPT ![r] = "stream"]
  /\ UNCHANGED <<config, boot, adapter, stop, elapsed, since, drained, overrun>>

(* It ends; a stream ends when its client leaves or the broker is closed. *)
Finish(r) ==
  /\ Serving /\ Active(r)
  /\ req' = [req EXCEPT ![r] = "ended"]
  /\ UNCHANGED <<config, boot, adapter, stop, elapsed, since, drained, overrun>>

-----------------------------------------------------------------------------
Stopping == stop \in 1..Len(Closings)
Phase == PhaseOf(Closings[stop])

(* The context of the phase has expired. *)
Expired == elapsed >= since + Share(Phase) \/ elapsed >= Deadline

(* The signal arrives and Shutdown begins. *)
Signal ==
  /\ Serving /\ stop = 0
  /\ stop' = 1
  /\ UNCHANGED <<config, boot, adapter, req, elapsed, since, drained, overrun>>

(* Faulty variant: the server waits for its requests without a deadline. *)
ReturnsDrained(x) ==
  CASE x = "server" -> \A r \in Requests : ~Active(r)
    [] x = "queue" -> adapter[x] = "noop" \/ \A r \in Requests : req[r] # "publish"
    [] x = "database" -> \A r \in Requests : req[r] # "query"
    [] OTHER -> TRUE

(* Whether a Close can return: the server and the tracer watch the context; *)
(* the queue waits for the publisher's mutex and the pool for its          *)
(* connections.                                                            *)
Returns(x) ==
  CASE x = "server" -> Expired \/ \A r \in Requests : ~Active(r)
    [] x = "queue" -> adapter[x] = "noop" \/ \A r \in Requests : req[r] # "publish"
    [] x = "database" -> \A r \in Requests : req[r] # "query"
    [] OTHER -> TRUE

(* An adapter that is nil is skipped; closing a no-op does nothing. *)
AdapterClosed(x) ==
  [a \in Adapters |-> IF a = x /\ adapter[a] = "real" THEN "closed" ELSE adapter[a]]

CloseReturns ==
  /\ Serving /\ Stopping /\ Returns(Closings[stop])
  /\ stop' = stop + 1
  /\ adapter' = AdapterClosed(Closings[stop])
  /\ since' = IF stop = Len(Closings) \/ PhaseOf(Closings[stop + 1]) = Phase
                THEN since ELSE elapsed
  /\ drained' = IF stop = 1 THEN \A r \in Requests : ~Active(r) ELSE drained
  /\ UNCHANGED <<config, boot, req, elapsed, overrun>>

(* The Closes that talk to someone or wait for requests.  The pool's Close  *)
(* is at once unless a connection is out.                                  *)
TakesTime(x) ==
  CASE x = "server" -> TRUE
    [] x = "database" -> ~Returns(x)
    [] OTHER -> x \in {"metrics", "authorizer", "cache", "queue", "tracer"} /\ adapter[x] = "real"

(* Time passes.  What watches the context returns when it expires; nothing  *)
(* makes the others return.                                                *)
WatchesContext(x) == x \in {"server", "metrics", "tracer"}

ShutdownTick ==
  /\ Serving /\ Stopping /\ elapsed < MaxTime
  /\ TakesTime(Closings[stop])
  /\ ~(WatchesContext(Closings[stop]) /\ Expired)
  /\ elapsed' = elapsed + 1
  /\ overrun' = (overrun \/ Expired)
  /\ UNCHANGED <<config, boot, adapter, req, stop, since, drained>>

LifeNext ==
  \/ BootOk \/ BootFallback \/ BootFatal
  \/ \E r \in Requests : Arrive(r) \/ Use(r) \/ Finish(r)
  \/ Signal \/ CloseReturns \/ ShutdownTick

(* A handler returns; a stream need not before the broker is closed. *)
MustFinish(r) == Finish(r) /\ (req[r] # "stream" \/ stop > 3)

(* Time passes, a Close that can return does, and so do the handlers. *)
LifeFairness ==
  /\ WF_lifeVars(CloseReturns) /\ WF_lifeVars(ShutdownTick)
  /\ \A r \in Requests : WF_lifeVars(MustFinish(r))

LifeSpec == LifeInit /\ [][LifeNext]_lifeVars /\ LifeFairness

-----------------------------------------------------------------------------
Stopped == stop > Len(Closings)

(* The server never runs with a no-op authorizer that the configuration    *)
(* did not ask for: an enabled authorizer is there, or New failed.         *)
AuthorizerNotReplaced ==
  Serving /\ Enabled("authorizer") => adapter["authorizer"] \in {"real", "closed"}

(* Whatever New opened is closed when Shutdown returns, also when phases   *)
(* ran out of time.                                                        *)
EverythingClosed == Stopped => \A a \in Adapters : adapter[a] # "real"

(* A slow phase takes nothing from the later ones: as long as the Closes   *)
(* that ignore the context return within their share, every phase begins   *)
(* with its full share ahead of it and Shutdown meets its deadline.        *)
SharesKept ==
  /\ Stopping /\ ~overrun => since <= Offset(Phase) /\ Offset(Phase) + Share(Phase) <= Deadline
  /\ Stopped /\ ~overrun => elapsed <= Deadline

(* A request finds a closed adapter only after it had the whole share of   *)
(* the first phase to finish in.                                           *)
CutOffOnlyAfterDrain ==
  (\E r \in Requests : Active(r)) /\ (\E a \in Adapters : adapter[a] = "closed")
    => ~drained /\ elapsed >= Share("server")

(* Once signalled the process comes down, if its requests do return; a     *)
(* stream whose client stays does not keep it up.                          *)
ShutdownReturns == []<>(Serving /\ stop > 0 => Stopped)

(* Violated.  What the comment in Shutdown says of the adapters: their     *)
(* Closes run "under the phase budget so a hung Close cannot stall the     *)
(* rest".  The budget is a context that none of these Closes sees.         *)
BudgetBoundsPhase ==
  Stopping /\ Phase = "adapters" => elapsed <= since + Share(Phase)
=============================================================================
