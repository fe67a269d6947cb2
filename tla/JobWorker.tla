----------------------------- MODULE JobWorker -----------------------------
(***************************************************************************)
(* The background-job worker process: internal/worker (Worker, Job,        *)
(* Publisher), the delivery loop of the RabbitMQ adapter that calls its    *)
(* handler, and cmd/worker, which starts it, shuts it down and exits.      *)
(* The broker is external: it keeps ready messages durably, hands them to  *)
(* open consumer channels, and puts every unacknowledged delivery back     *)
(* when a channel or the process dies.                                     *)
(*                                                                         *)
(* Goroutines of the worker process, each with its own steps:              *)
(*   consume[c]  Worker.consume: registers c, then waits for ctx.Done      *)
(*   loop[c]     RabbitMQ.runConsumer: select, handle, acknowledge         *)
(*   retries     one backoff goroutine per failed job waiting to go back   *)
(*   main        cmd/worker run(): Shutdown, queue Close, exit             *)
(***************************************************************************)
EXTENDS Integers, FiniteSets

CONSTANTS
  Jobs,        \* identities of the jobs clients dispatch
  Consumers,   \* the worker's consumer slots, 0 .. concurrency-1 in the code
  Type,        \* Type[j]: "registered", "unregistered" or "malformed"
  MaxRetry,    \* MaxRetry[j]: the max_retry of the request; any integer
  Prefetch,    \* Options.PrefetchCount
  Mids,        \* bound: message identities, one per body in existence
  MaxDrops,    \* bound: consumer channels lost to the network
  MaxBoots,    \* bound: starts of the worker process
  None

ASSUME ConsumersFinite == IsFiniteSet(Consumers)

ASSUME JobInputs ==
  /\ Type \in [Jobs -> {"registered", "unregistered", "malformed"}]
  /\ MaxRetry \in [Jobs -> Int]
  /\ Prefetch \in Nat \ {0}
  /\ MaxDrops \in Nat
  /\ MaxBoots \in Nat \ {0}

(* A queued job body.  mid tells copies of one job apart: a redelivery     *)
(* keeps it, a retry is a new message.                                     *)
Message == [mid : Mids, job : Jobs, attempts : Nat]

ASSUME NoneIsNoMessage == None \notin Message

VARIABLES
  queue,       \* broker: ready messages
  unacked,     \* broker: unacked[c], delivered on c's channel, not acked
  open,        \* c's AMQP channel is open
  buf,         \* client: buf[c], received on c's channel, not yet taken
  consume,     \* Worker.consume goroutine of c
  loop,        \* RabbitMQ.runConsumer goroutine of c
  cur,         \* the message c's handleMessage is working on
  retries,     \* retry goroutines: [msg, stage]
  wg,          \* Worker.wg counter
  ctxDone,     \* Worker.ctx is cancelled
  main,        \* cmd/worker main goroutine
  closed,      \* RabbitMQ.closed: the adapter refuses to publish
  accepted,    \* jobs the broker took from a dispatch
  finished,    \* jobs that succeeded, exhausted their retries or are undeliverable
  dropped,     \* jobs with a retry lost to shutdown, a failed publish or a dead process
  runs,        \* runs[j]: times a handler was called for j
  lostAcks,    \* lostAcks[j]: handled deliveries of j whose ack cannot arrive
  drops, boots \* bounded environment events so far

brokerVars  == <<queue, unacked, open, buf>>
workerVars  == <<consume, loop, cur, retries, wg, ctxDone, main, closed>>
historyVars == <<accepted, finished, dropped, runs, lostAcks>>
boundVars   == <<drops, boots>>
vars == <<brokerVars, workerVars, historyVars, boundVars>>

Stages == {"backoff", "fired", "publish"}

TypeOK ==
  /\ queue \in SUBSET Message
  /\ unacked \in [Consumers -> SUBSET Message]
  /\ open \in [Consumers -> BOOLEAN]
  /\ buf \in [Consumers -> SUBSET Message]
  /\ consume \in [Consumers -> {"registering", "blocked", "done"}]
  /\ loop \in [Consumers -> {"none", "select", "handling", "settle", "reconnect", "ended"}]
  /\ cur \in [Consumers -> Message \cup {None}]
  /\ retries \in SUBSET [msg : Message, stage : Stages]
  /\ wg \in Int
  /\ ctxDone \in BOOLEAN
  /\ main \in {"running", "waiting", "returned", "timedout", "down"}
  /\ closed \in BOOLEAN
  /\ accepted \in SUBSET Jobs
  /\ finished \in SUBSET Jobs
  /\ dropped \in SUBSET Jobs
  /\ runs \in [Jobs -> Nat]
  /\ lostAcks \in [Jobs -> Nat]
  /\ drops \in 0 .. MaxDrops
  /\ boots \in 0 .. MaxBoots

Alive == main # "down"

(* Every copy of a job body the broker or the worker still answers for. *)
Held == queue \cup (UNION {unacked[c] : c \in Consumers}) \cup {r.msg : r \in retries}

(* The jobs with such a copy. *)
HeldJobs == {m.job : m \in Held}

MidFree(id) ==
  \A m \in Held \cup (UNION {buf[c] : c \in Consumers}) \cup {cur[c] : c \in Consumers} :
    m # None => m.mid # id
SomeMidFree == \E id \in Mids : MidFree(id)
FreshMid == CHOOSE id \in Mids : MidFree(id)

(* Faulty variant: one attempt too many. *)
CanRetryOffByOne(m) == m.attempts <= MaxRetry[m.job]

(* Job.CanRetry *)
CanRetry(m) == m.attempts < MaxRetry[m.job]

(* Faulty variant: the attempts left are counted down instead. *)
IncrementBackwards(m, id) == [mid |-> id, job |-> m.job, attempts |-> m.attempts - 1]

(* The body retryJob encodes: the attempt handleMessage counted, under the *)
(* identity its publish will have.                                         *)
IncrementAttempts(m, id) == [mid |-> id, job |-> m.job, attempts |-> m.attempts + 1]

(* The messages that return to the ready queue when the channels of C die, *)
(* and the handled deliveries among them.                                  *)
PutBack(C) == UNION {unacked[c] : c \in C}

HandledAgain(C, j) ==
  Cardinality({c \in C : cur[c] # None /\ cur[c] \in unacked[c] /\ cur[c].job = j})

CloseChannels(C) ==
  /\ queue' = queue \cup PutBack(C)
  /\ unacked' = [c \in Consumers |-> IF c \in C THEN {} ELSE unacked[c]]
  /\ open' = [c \in Consumers |-> IF c \in C THEN FALSE ELSE open[c]]
  /\ lostAcks' = [j \in Jobs |-> lostAcks[j] + HandledAgain(C, j)]

-----------------------------------------------------------------------------
(* Worker.New and Worker.Start: wg.Add(1) and a consume goroutine for every *)
(* consumer slot.  A DeclareQueue failure is only logged.                   *)
Started ==
  /\ consume = [c \in Consumers |-> "registering"]
  /\ loop = [c \in Consumers |-> "none"]
  /\ cur = [c \in Consumers |-> None]
  /\ retries = {}
  /\ wg = Cardinality(Consumers)
  /\ ctxDone = FALSE
  /\ main = "running"
  /\ closed = FALSE

Init ==
  /\ Started
  /\ queue = {}
  /\ unacked = [c \in Consumers |-> {}]
  /\ open = [c \in Consumers |-> FALSE]
  /\ buf = [c \in Consumers |-> {}]
  /\ accepted = {} /\ finished = {} /\ dropped = {}
  /\ runs = [j \in Jobs |-> 0]
  /\ lostAcks = [j \in Jobs |-> 0]
  /\ drops = 0 /\ boots = 1

(* Publisher.PublishWithRetry behind POST /jobs/dispatch: attempts start at *)
(* 0.  A publish that fails, or is lost on its way (publishes are           *)
(* unconfirmed), changes nothing here.  Malformed bodies come from other    *)
(* publishers to the same queue.                                            *)
Dispatch(j) ==
  /\ j \notin accepted
  /\ accepted' = accepted \cup {j}
  /\ SomeMidFree
  /\ queue' = queue \cup {[mid |-> FreshMid, job |-> j, attempts |-> 0]}
  /\ UNCHANGED <<unacked, open, buf, workerVars, finished, dropped, runs, lostAcks, boundVars>>

(* The broker pushes a ready message to an open channel below its prefetch. *)
Deliver(c) ==
  /\ open[c]
  /\ Cardinality(unacked[c]) < Prefetch
  /\ \E m \in queue :
       /\ queue' = queue \ {m}
       /\ unacked' = [unacked EXCEPT ![c] = @ \cup {m}]
       /\ buf' = [buf EXCEPT ![c] = @ \cup {m}]
  /\ UNCHANGED <<open, workerVars, historyVars, boundVars>>

(* The network or the broker closes c's channel; the client notices later. *)
ChannelDrop(c) ==
  /\ Alive /\ open[c]
  /\ drops < MaxDrops
  /\ drops' = drops + 1
  /\ CloseChannels({c})
  /\ UNCHANGED <<buf, workerVars, accepted, finished, dropped, runs, boots>>

-----------------------------------------------------------------------------
(* Worker.consume.  queue.Consume opens a channel and starts the delivery  *)
(* goroutine; on error consume returns and its deferred wg.Done runs.  On  *)
(* a closed adapter it succeeds only over a connection another consumer    *)
(* has redialled.                                                          *)
Consume(c) ==
  /\ Alive /\ consume[c] = "registering"
  /\ \/ /\ ~closed \/ \E d \in Consumers : open[d]
        /\ consume' = [consume EXCEPT ![c] = "blocked"]
        /\ loop' = [loop EXCEPT ![c] = "select"]
        /\ open' = [open EXCEPT ![c] = TRUE]
        /\ UNCHANGED wg
     \/ /\ consume' = [consume EXCEPT ![c] = "done"]
        /\ wg' = wg - 1
        /\ UNCHANGED <<loop, open>>
  /\ UNCHANGED <<queue, unacked, buf, cur, retries, ctxDone, main, closed, historyVars, boundVars>>

(* Worker.consume: <-w.ctx.Done(), then wg.Done. *)
ConsumeStop(c) ==
  /\ Alive /\ consume[c] = "blocked" /\ ctxDone
  /\ consume' = [consume EXCEPT ![c] = "done"]
  /\ wg' = wg - 1
  /\ UNCHANGED <<brokerVars, loop, cur, retries, ctxDone, main, closed, historyVars, boundVars>>

-----------------------------------------------------------------------------
(* Faulty variant: the consumer is registered with auto-ack. *)
ReceiveAutoAck(c) ==
  /\ Alive /\ loop[c] = "select"
  /\ \E m \in buf[c] :
       /\ cur' = [cur EXCEPT ![c] = m]
       /\ buf' = [buf EXCEPT ![c] = @ \ {m}]
       /\ unacked' = [unacked EXCEPT ![c] = @ \ {m}]
       /\ loop' = [loop EXCEPT ![c] = "handling"]
       /\ runs' = [runs EXCEPT ![m.job] = @ + 1]
  /\ UNCHANGED <<queue, open, consume, retries, wg, ctxDone, main, closed,
                 accepted, finished, dropped, lostAcks, boundVars>>

(* drainDeliveries takes a delivery and handleMessage starts on it: a body *)
(* that does not decode or has no registered handler is given up at once,  *)
(* otherwise the handler is called.  The select may prefer a delivery to   *)
(* the news that the channel is closed and the message back in the queue.  *)
Receive(c) ==
  /\ Alive /\ loop[c] = "select"
  /\ \E m \in buf[c] :
       /\ cur' = [cur EXCEPT ![c] = m]
       /\ buf' = [buf EXCEPT ![c] = @ \ {m}]
       /\ lostAcks' = IF m \in unacked[c] THEN lostAcks ELSE [lostAcks EXCEPT ![m.job] = @ + 1]
       /\ IF Type[m.job] = "registered"
          THEN /\ loop' = [loop EXCEPT ![c] = "handling"]
               /\ runs' = [runs EXCEPT ![m.job] = @ + 1]
               /\ UNCHANGED finished
          ELSE /\ loop' = [loop EXCEPT ![c] = "settle"]
               /\ finished' = finished \cup {m.job}
               /\ UNCHANGED runs
  /\ UNCHANGED <<queue, unacked, open, consume, retries, wg, ctxDone, main, closed,
                 accepted, dropped, boundVars>>

(* handleMessage after a handler without error. *)
HandlerOk(c) ==
  /\ Alive /\ loop[c] = "handling"
  /\ loop' = [loop EXCEPT ![c] = "settle"]
  /\ finished' = finished \cup {cur[c].job}
  /\ UNCHANGED <<brokerVars, consume, cur, retries, wg, ctxDone, main, closed,
                 accepted, dropped, runs, lostAcks, boundVars>>

(* Faulty variant: the retry goroutine is not registered on the wait group. *)
RetryJobUntracked(m) ==
  /\ retries' = retries \cup {[msg |-> m, stage |-> "backoff"]}
  /\ UNCHANGED wg

(* Worker.retryJob: wg.Add(1) and a goroutine that starts in its backoff. *)
RetryJob(m) ==
  /\ retries' = retries \cup {[msg |-> m, stage |-> "backoff"]}
  /\ wg' = wg + 1

(* handleMessage after a handler error: IncrementAttempts ran before the   *)
(* call, CanRetry decides between retryJob and giving the job up.          *)
HandlerFail(c) ==
  /\ Alive /\ loop[c] = "handling"
  /\ loop' = [loop EXCEPT ![c] = "settle"]
  /\ LET m == IncrementAttempts(cur[c], FreshMid)
     IN  \/ CanRetry(m) /\ SomeMidFree /\ RetryJob(m) /\ UNCHANGED finished
         \/ /\ ~CanRetry(m)
            /\ finished' = finished \cup {m.job}
            /\ UNCHANGED <<retries, wg>>
  /\ UNCHANGED <<brokerVars, consume, cur, ctxDone, main, closed,
                 accepted, dropped, runs, lostAcks, boundVars>>

(* handleMessage always returns nil, so drainDeliveries acks; on a channel *)
(* that has closed meanwhile the ack goes nowhere.                         *)
Settle(c) ==
  /\ Alive /\ loop[c] = "settle"
  /\ loop' = [loop EXCEPT ![c] = "select"]
  /\ unacked' = [unacked EXCEPT ![c] = @ \ {cur[c]}]
  /\ cur' = [cur EXCEPT ![c] = None]
  /\ UNCHANGED <<queue, open, buf, consume, retries, wg, ctxDone, main, closed,
                 historyVars, boundVars>>

(* drainDeliveries sees ctx.Done; runConsumer closes the channel and ends. *)
LoopStop(c) ==
  /\ Alive /\ loop[c] = "select" /\ ctxDone
  /\ loop' = [loop EXCEPT ![c] = "ended"]
  /\ buf' = [buf EXCEPT ![c] = {}]
  /\ CloseChannels({c})
  /\ UNCHANGED <<consume, cur, retries, wg, ctxDone, main, closed,
                 accepted, finished, dropped, runs, boundVars>>

(* drainDeliveries sees the channel closed. *)
LoopLost(c) ==
  /\ Alive /\ loop[c] = "select" /\ ~open[c]
  /\ loop' = [loop EXCEPT ![c] = "reconnect"]
  /\ buf' = [buf EXCEPT ![c] = {}]
  /\ UNCHANGED <<queue, unacked, open, consume, cur, retries, wg, ctxDone, main, closed,
                 historyVars, boundVars>>

(* reconnectConsumer gets a new channel ... *)
Reconnect(c) ==
  /\ Alive /\ loop[c] = "reconnect"
  /\ loop' = [loop EXCEPT ![c] = "select"]
  /\ open' = [open EXCEPT ![c] = TRUE]
  /\ UNCHANGED <<queue, unacked, buf, consume, cur, retries, wg, ctxDone, main, closed,
                 historyVars, boundVars>>

(* ... or returns an error, its tries exhausted or ctx done: the goroutine *)
(* ends while consume[c] keeps waiting for ctx.Done.                       *)
ReconnectHalt(c) ==
  /\ Alive /\ loop[c] = "reconnect"
  /\ loop' = [loop EXCEPT ![c] = "ended"]
  /\ UNCHANGED <<brokerVars, consume, cur, retries, wg, ctxDone, main, closed,
                 historyVars, boundVars>>

-----------------------------------------------------------------------------
(* Faulty variant: the goroutine returns without wg.Done. *)
RetryExitLeaking(r) ==
  /\ retries' = retries \ {r}
  /\ UNCHANGED wg

(* The goroutine of retryJob ends: deferred wg.Done. *)
RetryExit(r) ==
  /\ retries' = retries \ {r}
  /\ wg' = wg - 1

RetryMove(r, stage) ==
  /\ retries' = (retries \ {r}) \cup {[msg |-> r.msg, stage |-> stage]}
  /\ UNCHANGED wg

(* select: <-timer.C *)
RetryFire(r) ==
  /\ Alive /\ r.stage = "backoff"
  /\ RetryMove(r, "fired")
  /\ UNCHANGED <<brokerVars, consume, loop, cur, ctxDone, main, closed, historyVars, boundVars>>

(* select: <-w.ctx.Done(): the job is acked already and is not put back. *)
RetryCancel(r) ==
  /\ Alive /\ r.stage = "backoff" /\ ctxDone
  /\ RetryExit(r)
  /\ dropped' = dropped \cup {r.msg.job}
  /\ UNCHANGED <<brokerVars, consume, loop, cur, ctxDone, main, closed,
                 accepted, finished, runs, lostAcks, boundVars>>

(* The re-check of w.ctx.Err() before Publish. *)
RetryCheck(r) ==
  /\ Alive /\ r.stage = "fired"
  /\ \/ ~ctxDone /\ RetryMove(r, "publish") /\ UNCHANGED dropped
     \/ ctxDone /\ RetryExit(r) /\ dropped' = dropped \cup {r.msg.job}
  /\ UNCHANGED <<brokerVars, consume, loop, cur, ctxDone, main, closed,
                 accepted, finished, runs, lostAcks, boundVars>>

(* Faulty variant: the goroutine forgets to publish. *)
RetryPublishForgotten(r) ==
  /\ Alive /\ r.stage = "publish"
  /\ RetryExit(r)
  /\ UNCHANGED <<brokerVars, consume, loop, cur, ctxDone, main, closed, historyVars, boundVars>>

(* queue.Publish: a failure is logged and the job is gone. *)
RetryPublish(r) ==
  /\ Alive /\ r.stage = "publish"
  /\ RetryExit(r)
  /\ \/ ~closed /\ queue' = queue \cup {r.msg} /\ UNCHANGED dropped
     \/ dropped' = dropped \cup {r.msg.job} /\ UNCHANGED queue
  /\ UNCHANGED <<unacked, open, buf, consume, loop, cur, ctxDone, main, closed,
                 accepted, finished, runs, lostAcks, boundVars>>

-----------------------------------------------------------------------------
(* Worker.Shutdown: cancel the context, then wait on wg or the deadline. *)
Shutdown ==
  /\ main = "running"
  /\ main' = "waiting"
  /\ ctxDone' = TRUE
  /\ UNCHANGED <<brokerVars, consume, loop, cur, retries, wg, closed, historyVars, boundVars>>

(* Faulty variant: Shutdown does not wait for the group. *)
ShutdownDoneUnwaited ==
  /\ main = "waiting"
  /\ main' = "returned"
  /\ UNCHANGED <<brokerVars, consume, loop, cur, retries, wg, ctxDone, closed, historyVars, boundVars>>

ShutdownDone ==
  /\ main = "waiting" /\ wg = 0
  /\ main' = "returned"
  /\ UNCHANGED <<brokerVars, consume, loop, cur, retries, wg, ctxDone, closed, historyVars, boundVars>>

ShutdownTimeout ==
  /\ main = "waiting"
  /\ main' = "timedout"
  /\ UNCHANGED <<brokerVars, consume, loop, cur, retries, wg, ctxDone, closed, historyVars, boundVars>>

(* run() returns: the deferred queueAdapter.Close closes the connection and *)
(* with it every channel.                                                   *)
CloseQueue ==
  /\ main \in {"returned", "timedout"} /\ ~closed
  /\ closed' = TRUE
  /\ CloseChannels(Consumers)
  /\ UNCHANGED <<buf, consume, loop, cur, retries, wg, ctxDone, main,
                 accepted, finished, dropped, runs, boundVars>>

(* The process is gone, and every goroutine with it. *)
Die ==
  /\ main' = "down"
  /\ CloseChannels(Consumers)
  /\ dropped' = dropped \cup {r.msg.job : r \in retries}
  /\ retries' = {}
  /\ consume' = [c \in Consumers |-> "done"]
  /\ loop' = [c \in Consumers |-> "ended"]
  /\ cur' = [c \in Consumers |-> None]
  /\ buf' = [c \in Consumers |-> {}]
  /\ wg' = 0
  /\ ctxDone' = TRUE
  /\ closed' = TRUE
  /\ UNCHANGED <<accepted, finished, runs, boundVars>>

Exit == main \in {"returned", "timedout"} /\ closed /\ Die

Crash == Alive /\ Die

(* A new process: Worker.New and Start again. *)
Boot ==
  /\ main = "down"
  /\ boots < MaxBoots
  /\ boots' = boots + 1
  /\ consume' = [c \in Consumers |-> "registering"]
  /\ loop' = [c \in Consumers |-> "none"]
  /\ cur' = [c \in Consumers |-> None]
  /\ retries' = {}
  /\ wg' = Cardinality(Consumers)
  /\ ctxDone' = FALSE
  /\ main' = "running"
  /\ closed' = FALSE
  /\ UNCHANGED <<brokerVars, historyVars, drops>>

-----------------------------------------------------------------------------
ConsumeStep(c) == Consume(c) \/ ConsumeStop(c)

LoopStep(c) ==
  \/ Receive(c) \/ HandlerOk(c) \/ HandlerFail(c) \/ Settle(c)
  \/ LoopStop(c) \/ LoopLost(c) \/ Reconnect(c) \/ ReconnectHalt(c)

RetryStep(r) == RetryFire(r) \/ RetryCancel(r) \/ RetryCheck(r) \/ RetryPublish(r)

MainStep == Shutdown \/ ShutdownDone \/ ShutdownTimeout \/ CloseQueue \/ Exit \/ Crash \/ Boot

Next ==
  \/ \E j \in Jobs : Dispatch(j)
  \/ \E c \in Consumers : Deliver(c) \/ ChannelDrop(c) \/ ConsumeStep(c) \/ LoopStep(c)
  \/ \E r \in retries : RetryStep(r)
  \/ MainStep

Spec == Init /\ [][Next]_vars

(* The Go scheduler runs every runnable goroutine, the broker delivers, a  *)
(* timer fires, and a handler returns: each has a five-minute context that *)
(* the registered handlers pass to their I/O.  Signals, crashes, drops and *)
(* the shutdown deadline are left unfair.                                  *)
Fairness ==
  /\ \A c \in Consumers : WF_vars(Deliver(c)) /\ WF_vars(ConsumeStep(c)) /\ WF_vars(LoopStep(c))
  /\ WF_vars(\E r \in retries : RetryStep(r))
  /\ WF_vars(ShutdownDone)

FairSpec == Spec /\ Fairness

-----------------------------------------------------------------------------
MaxRuns(j) == IF MaxRetry[j] > 1 THEN MaxRetry[j] ELSE 1

(* The wait group counts exactly the consume goroutines that have not      *)
(* returned and the retry goroutines still alive, through every error      *)
(* path, cancellation and restart (worker.go: wg.Add in Start and          *)
(* retryJob, deferred wg.Done in consume and retryJob).                    *)
WgExact == wg = Cardinality({c \in Consumers : consume[c] # "done"}) + Cardinality(retries)

(* No body that waits in the queue, is delivered or backs off has used up  *)
(* the attempts its max_retry allows, so none of them can be run and then  *)
(* retried beyond it (handleMessage, CanRetry, retryJob).                  *)
AttemptsBounded == \A m \in Held : m.attempts = 0 \/ m.attempts < MaxRetry[m.job]

(* A handler runs for a job at most max_retry times (once when max_retry   *)
(* is 1, 0 or negative), and every extra round is paid for by one handled  *)
(* delivery the broker put back.                                           *)
RunsBounded == \A j \in Jobs : runs[j] <= MaxRuns(j) * (1 + lostAcks[j])

(* A job the broker took is still held somewhere until it is finished; the *)
(* only jobs that vanish otherwise are retries, after their handler ran:   *)
(* neither a crash, a dropped channel nor a shutdown loses a first attempt *)
(* (drainDeliveries acks after the handler, retryJob before the ack).      *)
NoSilentLoss ==
  \A j \in accepted :
    \/ j \in finished
    \/ \E m \in Held : m.job = j
    \/ j \in dropped /\ runs[j] > 0

(* Once Shutdown has returned without a timeout no retry goroutine is at   *)
(* or can get to its Publish (retryJob's wait-group registration and its   *)
(* re-check of ctx.Err).                                                   *)
NoPublishAfterShutdown == main = "returned" => \A r \in retries : r.stage # "publish"

Delivery == INSTANCE JobDelivery WITH
  Runnable <- {j \in Jobs : Type[j] = "registered"}, Allowance <- [j \in Jobs |-> MaxRuns(j)],
  pending <- HeldJobs, again <- lostAcks

(* The worker, the delivery loops and the broker keep the promise of       *)
(* JobDelivery: an accepted job is in the queue, unacknowledged or with a  *)
(* retry goroutine until it is finished or was dropped after a run, and no *)
(* step calls its handler beyond its retries, once over for every ack that *)
(* cannot arrive (handleMessage, drainDeliveries, retryJob).               *)
ImplementsDelivery == Delivery!DeliverySpec

(* Shutdown returns on its own, without its deadline: cancelling the       *)
(* context ends every consume goroutine and every backoff.                 *)
ShutdownTerminates == []<>(main # "waiting")

NoConsumer == \A c \in Consumers : consume[c] = "done" \/ loop[c] = "ended"

(* While the worker runs and a consumer is left, every job the broker took *)
(* is finished, or is a retry whose publish failed.                        *)
JobSettles ==
  \A j \in Jobs :
    []<>(j \in accepted => j \in finished \cup dropped \/ main # "running" \/ NoConsumer)

(* What the shutdown work promises of Worker.Shutdown: wg.Wait waits for   *)
(* handlers in flight.  The wait group covers consume, which returns on    *)
(* ctx.Done, and not the delivery goroutine the handler runs on.           *)
ShutdownWaitsForHandlers == main = "returned" => \A c \in Consumers : loop[c] # "handling"
=============================================================================
