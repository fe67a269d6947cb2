# goscratch: TLA+ models and proofs

goscratch is a Go backend template: an HTTP API (`cmd/api`, `internal/platform/app`) and a job worker
(`cmd/worker`) over PostgreSQL, Redis, RabbitMQ and Casbin, each behind a port with a real and a no-op adapter.
This directory models the parts whose correctness depends on the order of events, checks them with TLC on small
instances, and proves the main safety properties with TLAPS for every instance.

## The system

| Part | Module | State | What is hard about it |
|---|---|---|---|
| Job worker (`internal/worker`, `cmd/worker`) | `JobWorker`, `JobDelivery` | wait group, context, retry goroutines, handlers | four kinds of goroutine, shutdown at any moment, crash between two steps, redelivery |
| RabbitMQ adapter (`internal/adapter/queue`) | `QueueConn` | connection, publisher channel, consumer channels, closed | several consumers redial at once, Close overtaken by a redial, buffered publishes |
| Email handler and SMTP (`internal/adapter/email`) | `SmtpSend` | one exchange, its deadline and its watcher | a server that stops answering at any command |
| Audit cleanup handler | `AuditCleanup` | audit rows, batches | overlapping and redelivered jobs |
| Auth sessions (`internal/module/auth`), cache adapters | `AuthSession` | two cache keys per refresh token | two keys written and deleted one after the other, concurrent requests, cache errors |
| Tokens, configuration, auth middleware | `Access` | settings, tokens, rules and their copies, requests | tokens outlive the process; memory and cached decisions lag behind the rules |
| Users, transactions, audit decorator | `Users` | rows, open transactions, audit trail | check, then insert; statements that wait for another transaction; cancelled rollback |
| User lists (`internal/shared/domain/cursor.go`) | `Pagination` | the page a client holds | page boundaries while rows come and go |
| Authorizer (`internal/adapter/casbin`, `internal/module/role`) | `Authorizer` | rules in database and memory | unsynchronised enforcer, two copies of the rules |
| Decision cache (`casbin/cache.go`) | `DecisionCache`, `DecisionStore` | map and list | stale entries, eviction |
| Policy watchers (`casbin/watcher_*.go`) | `PolicyWatcher` | rules of several instances, messages | dropped and echoed updates |
| SSE broker and streams | `SSEBroker` | clients, topics, channels, streams | sends racing closes, slow clients |
| Rate limiter and its three back ends | `RateLimit` | windows per key, Redis set and expiry | window edges, janitor, delayed scripts, lost answers |
| Storage (`internal/module/storage`, local and S3) | `Storage` | files, uploads, downloads, deletes | partial writes, paths that are sanitised twice |
| Readiness (`internal/module/health`) | `Health` | four concurrent probes | hanging dependencies, late answers |
| Start and shutdown (`internal/platform/app`, `cmd/api`) | `Lifecycle` | adapters, phases, requests | fallbacks, shared deadline, Closes without a context |
| Seed script (`scripts/seed`) | `Seed` | rows, runs | no transaction; runs that die or overlap |

The API publishes jobs that the worker consumes. Users' password changes call the auth module's revoker, which
shares its keys with Login and Refresh through the cache adapter. Every guarded route passes the auth middleware
and asks the authorizer, which asks its cache first. `Lifecycle` opens and closes all of them.

## Modules

- `JobWorker` — the worker process and the delivery loop of the adapter, with the broker as its environment.
  `consume[c]`, `loop[c]`, `retries` and `main` are the goroutines; `queue`, `unacked`, `open` and `buf` are the
  broker's and the client's view of messages. `Receive`, `HandlerOk`, `HandlerFail`, `Settle` are `handleMessage`
  inside `drainDeliveries`; `RetryFire`, `RetryCancel`, `RetryCheck`, `RetryPublish` are the goroutine of
  `retryJob`; `Shutdown*`, `CloseQueue`, `Exit` are `cmd/worker`; `Crash` and `Boot` are the process.
- `JobDelivery` — what the worker and its queue promise: an accepted job is answered for (`pending`) until it is
  finished, or until a retry of it was given up after a run, and its handler is called no more often than its retries
  and the lost acknowledgements allow. `JobWorker` is shown to implement it (`ImplementsDelivery`), with the jobs in
  the queue, unacknowledged or with a retry goroutine as `pending`.
- `QueueConn` — the connection under the worker: `cpc[c]` is the goroutine of a consumer in `reconnectConsumer`
  and `redial`, `fresh[c]` the connection it has dialled and not yet installed, `unread[i]` what was written to a
  connection and not yet read by the broker. `Publish` returns before the broker has read the message, as
  without publisher confirms it does.
- `SmtpSend` — `SMTPSender.Send` command by command, with the goroutine that closes the connection when the
  context ends. The server may refuse, fall silent, or accept the message and lose its answer.
- `AuditCleanup` — a batch is a step that picks ids from its snapshot and a step that deletes those still there.
- `AuthSession` — requests in progress (`pc`, `op`, `user`, `tok`), the two keys of a session (`lookup`, `index`)
  and the user row. One action per cache or database call. A Redis call that fails may have taken effect.
- `Access` — `Load` and `Validate` of the JWT settings, signing, `middleware.Auth`, `RequirePermission` and
  `RequireRole`, with expiry, changing rules and restarts under another configuration. The authorizer answers from
  copies: `loaded`, the enforcer's memory, `decided`, the cached decisions, and `reading`, a reload under way. An
  evaluation under which the memory changes may see any mix of the rules that were there (`seen`). `had` is the
  history of the rules that the database held since the process loaded them. Rules also change in the database alone,
  through another instance or a statement whose answer was lost.
- `Users` — the statements of the users table at READ COMMITTED, the repository, the use case with `WithTx`
  around `Create`, and the audit decorator. A statement that needs an e-mail another open transaction has inserted
  waits for it.
- `Pagination` — the two list queries and `NewBidirectionalCursorPage`; a client walks while rows come and go.
- `DecisionStore` — what a decision cache promises: a bounded map that forgets on demand.
  `DecisionCache` — the LRU cache, shown to implement it (`ImplementsStore`).
- `Lists` — taking elements out of a list, as the loop of the cache's list and of the paths does.
- `Authorizer` — extends `DecisionStore`: Enforce calls (`Miss`, `Evaluate`, `CachePut`), mutations (`Begin`,
  `Persist`, `Apply`, `Invalidate`) and the reload (`ReloadRead`, `ReloadInstall`, `ReloadFlush`). The enforcer is
  `casbin.NewEnforcer`, which takes no lock: an evaluation that overlaps a change may answer anything, and
  overlapping writers may lose either change. `overlap` and `tainted` record where that may have happened.
  `tainted` also has the decisions of users who hold a role whose name was given to the users' method, which
  forgets the entries of that name only (`Unreached`). The process may be restarted any number of times.
  casbin itself is a library and is modelled from how the adapter calls it.
- `PolicyWatcher` — several instances over one table with the Redis watcher, the in-memory one or none, the update
  callback and the backstop reload. A message reaches any of the instances over Redis, only its own in memory. A
  statement may fail, meet the unique index, or take effect and lose its answer; the callback drops the error. A rule of
  section "g" arrives as one of section "p", because the callback does not look at the section.
- `SSEBroker` — subscriptions, the three sends under the read lock, `Close`, and the loop of the stream writer.
- `RateLimit` — the memory back end with its janitor, the Redis script with the time stamp of its caller and the
  expiry on Redis's side, and the no-op cache, which passes every request whether the limiter fails closed or not.
- `Storage` — upload, download, URL, delete and list over both adapters, and the sanitising of paths segment by
  segment. Creating the file, copying and the clean-up after a failed copy may each fail.
- `Health` — `ReadinessCheck` and its checkers under the shared context, which ends with the deadline or with the
  server. The queue's and the authorizer's checkers look at it once, first of all; the queue's round trip is then
  bounded by the AMQP heartbeat only.
- `Lifecycle` — the steps of `New` with the fallback, warning or fatal error of each, requests, and the closings
  of `Shutdown` in phases. Time is counted in twentieths of the deadline so that shares are whole numbers.
- `Seed` — the loops of the script, statement by statement.
- `MCRecords` and `MCServices` group the components that share no state. `focus` names the one whose steps a
  behaviour takes, so the states of a group are those of its components side by side, and each component's
  fairness is stated for the behaviours that focus on it. They take the sessions, the worker and the authorizer from
  the modules with their theorems, which add nothing to the model but make the theorems available for the group. The
  other `MC*` modules give constants their values.
- `JobWorkerProofs`, `AuthSessionProofs`, `AuthorizerProofs`, `RecordProofs` (`Users`, `Pagination`, `AuditCleanup`,
  `Seed`, `RateLimit`), `RequestProofs` (`Access`, `Lists`, `DecisionCache`, `Storage`) and `ServerProofs`
  (`Lifecycle`, `Health`, `SSEBroker`, `QueueConn`, `PolicyWatcher`, `SmtpSend`) hold the theorems about the
  components, `RecordGroupProofs` and `ServiceGroupProofs` those about the groups.

Operators commented as faulty variants are plausible bugs that the properties are known to detect.

## Runs

| Run (cfg) | Shows |
|---|---|
| `worker` (`JobWorker`) | across a shutdown, a crash, a restart and a lost channel no job is lost before its handler ran, a handler runs at most max_retry times per lost acknowledgement, the wait group is exact, nothing publishes after Shutdown returned, and all of it implements `JobDelivery` |
| `auth_sessions` (`AuthSession`) | an ended session is never accepted again; no request ends another user's session; an answered token has both keys |
| `authorizer` (`Authorizer`) | a decision is stale only under a pending invalidation, after overlapping calls, or for the holders of a role whose name the users' method was given; memory holds only rules the database held |
| `records` (`Records`) | what the server keeps and lets through, below |
| `services` (`Services`) | the long-lived parts of the processes, below |

`records`:

- `EmailsUnique`, `CallsEnd`: no two rows share an e-mail however creations and updates overlap; no call is left
  waiting for a transaction that nobody ends, also when the request was cancelled or the function panicked.
- `WalkExact`, `ThereAndBack`: a walk forward shows no row twice and misses none that was listed all the while;
  one page forward and one back is the same page.
- `UploadAnswerTrue`: an answered upload is complete and reachable under the path in the answer until deleted; a
  failed local upload is never there as a whole file, though a part stays when its removal fails too.
- `CleanupExact`: when all cleanup jobs are done, those of the longest retention have left none of their rows (so
  redelivered jobs, which share a retention, complete each other), and none deleted a row younger than its
  retention. A job that another of a longer retention ended early may leave the rows between the two.
- `QuietRunIsComplete`: a seed run that warned of nothing left everything in place.
- `LimitExact`: at most `MaxHits` requests of a key pass in any window, none is refused before that, and a limiter
  that fails closed passes nothing uncounted, in memory and in Redis (see the exceptions below).
- `ServedMeansEntitled`: a guarded handler runs only for a user whom rules entitle that the database held while this
  process ran. Within the life of a process the copies may lag behind, as `authorizer_stale` shows; nothing brings back
  a rule that was gone before it started.
- `MapMatchesList`, `LeastRecentGoes`, `ImplementsStore`: the LRU cache is consistent, evicts by recency, and
  implements `DecisionStore`.
- `ConfirmedOnlyIfRevocable`: without Redis a password change is not reported as done.

`services`:

- `NoLeakedConnection`, `ReconnectSettles`: consumers that redial at once leave no connection behind; a lost
  consumer channel is replaced, given up or stopped.
- `NoSendOnClosed`, `StreamsDrainAndEnd`: no broadcast sends on a closed channel; what entered a channel is
  written unless the client is gone, and the stream of a closed channel ends.
- `AddsReachAll`: an added rule reaches every instance with any watcher or none, although messages are dropped and
  misread and callbacks fail.
- `ShutdownReturns`: the API comes down if its requests return; an idle stream does not keep it up.
- `AnswerTrue`, `ReadinessAnswers`: 200 means that every dependency in use was up at some moment of the request, 503
  that one in use failed its probe and was down or hung at some moment or the server shuts down; and an answer comes.
- `SendReturns`: Send returns against a silent server, leaves no connection, and returns nil only for an accepted
  message.
- `ShutdownTerminates`, `JobSettles`: the worker's Shutdown returns without its deadline; accepted jobs settle
  while a consumer is left.
- `Converges`: the backstop reload makes database and memory agree for good once nothing changes, and no stale decision
  stays: each is forgotten by the next reload, though a call that overlaps the reload may put a stale one again.

Runs in which the code departs from what the repository says of it:

| Run (cfg) | The repository says | The code |
|---|---|---|
| `worker_handlers` (`JobWorkerHandlers`) | Shutdown waits for in-flight handlers (pr-04:84) | the wait group covers `consume`, not the delivery goroutine |
| `auth_noop_login` (`AuthNoop`) | login fails without Redis (authentication.md:53) | `NoOpCache.Set` succeeds |
| `auth_deactivate` (`AuthDeactivate`) | deactivation revokes (RUNBOOK.md:262) | no revoker is called |
| `auth_confirmed` (`AuthConfirmed`) | "Password changed successfully" | an inactive user's row is not updated, and that is no error |
| `authorizer_stale` (`AuthorizerStale`) | no stale windows (authorization.md:239) | a put may follow the invalidation it should precede |
| `shutdown_budget` (`LifecycleBudget`) | a hung Close cannot stall the rest (app.go:442) | the Closes see no context, so a phase lasts as long as they do |
| `token_issuer` (`AccessIssuer`) | the issuer is the configured one (authentication.md:122) | the middleware accepts only its own constant |

Further disagreements met while modelling. The modules define the first five, and TLC finds each violated on the
constants of its group; no run is kept for them.

- `MoreHasCursor`: cursor.go:123 takes it for granted that there is a next page when going back; if the rows before
  the cursor are gone the page is empty, says `has_more`, and has no cursor to go on with.
- `AnsweredByDeadline`: handler.go:46 speaks of a shared deadline; the queue's Ping ignores it, so the answer may come
  as late as the heartbeat.
- `OnlyChangesAudited`: audit_decorator.go:120 audits when the state changed; it compares a state read before the
  call, and two overlapping calls both find it changed.
- `DoneMeansClean`: audit_cleanup_handler.go:82 says no more rows to delete; a batch may come out empty because
  another job was faster.
- `GoneIsUnsubscribed`: the SSE documentation says a client that disconnects is unsubscribed; the stream notices only
  when it next writes.
- noop.go:65 says the in-memory limiter is used when Redis is unavailable; app.go:291 asks for Redis whenever it is
  enabled, and after a failed connect that is the no-op cache, which limits nothing.
- RevokeAllForUser deletes index keys only, where its comment (auth_usecase.go:232) speaks of both keys (Refresh
  rejects the token all the same); and when a delivery goroutine exhausts its reconnects `consume` goes on waiting
  for ctx.Done, where pr-07:72 says the worker sees consumption stop.
- The sliding window in Redis: `PEXPIRE` counts from the run of the script (redis.go:168), the cutoff from the time
  stamp its caller took (redis.go:150). A script delayed past the expiry finds its window forgotten and admits too
  many; so may scripts with equal stamps or in another order than their stamps, and a script whose answer was lost
  counts a request that was refused. `LimitExact` leaves out the keys that met this (`irregular`) and says nothing of
  them. `Window = 3` with a limit of two is the smallest in which a delayed script alone, with all stamps different and
  in order, admits a third request.

### Bounds

- Worker: one job, two consumers (the code's default), prefetch 1, one lost channel, two starts, and max_retry 2,
  so that a retry succeeds, fails and is exhausted. In `services` it has one consumer and a second job without a
  handler. `Mids` is large enough that a fresh identity always exists (`SomeMidFree`). `MaxLostAcks` is three, one
  for each way a handled delivery comes again: its channel drops, the queue is closed, the process dies. The steps
  that lose a fourth ack are checked and not followed further. The run has no liveness property, which such a bound
  would not allow, and the theorems need none.
- Sessions: two users, two concurrent requests and three tokens allow a login, a rotation and another login around
  a password change. `MaxEvents` limits failures, crashes, expiries and deactivations, not requests; the theorems
  hold for any number of them.
- Authorizer: two users, one role and one permission with a cache of one entry, so that eviction happens; two
  mutations that may overlap, one of which may be another instance's; direct permissions go to a user or to the role's
  name. Restarts are not bounded. In `services` it has one mutation at a time and a wildcard permission.
- Users: two calls of any operation with two e-mails and one row: enough for every race of two statements and for
  one call waiting for the other's transaction.
- Pages: five rows and pages of one to three, so that a walk has first, middle and last pages and an extra row; limits
  of 0 and above the maximum are replaced.
- Storage: one upload, one reader, one deleter; directories with up to two segments out of names, ".", ".." and
  dotted names, and three longer ones.
- Cleanup: seven rows, batches of two and two jobs: full, partial and empty batches, and a job that is overtaken
  and ends with rows left. Seed: two runs over two users.
- Access: one user, one request at a time but any number of them, one token, three environments' secrets, one tick of
  the clock. Changes of the rules and restarts are not bounded.
- Rate limiter: one key, two requests at once, a limit of two, three admissions: one more than the limit.
- Queue: two consumers that redial, one message, one Ping, one fault of the broker; `ConnIdx` always has an unused
  connection (`NewConnIsNew`).
- SSE: two tabs of one user, one broadcast at a time, two events, a buffer of one so that a send finds it full.
- Watchers: two instances with each of the three watchers, one role and one permission, and two messages of buffer.
- Lifecycle: three configurations, one request or stream; the clock stops one unit past the deadline.
- Health: four probes, any of them switched off but the database's, one change of state and a shutdown at any moment.
  Goroutines take no time of the deadline. SMTP: one recipient.
- Deadlock is not checked: a stopped process, finished requests and a closed authorizer have nothing left to do.

### Fairness

Every fairness assumption is weak and on steps that the process takes by itself. In the groups it is stated on the
variables of the component in focus, since the others do not change.

- Worker: the Go scheduler runs runnable goroutines, timers fire, the broker delivers, and handlers return because
  each has a five-minute context that the registered handlers pass to their I/O. Crashes, lost channels, signals
  and the shutdown deadline are unfair.
- Authorizer: calls in progress return, the ticker ticks, and while the handle is open some read of the database
  succeeds. Watchers: the callback runs for received messages, and every instance's reload succeeds now and then. That
  takes it for granted that casbin's loader accepts the row of section "p" with one field less that a role assignment
  becomes; were it refused, no reload would succeed any more and `AddsReachAll` would not hold.
- Queue: a consumer's goroutine runs (dials may fail each time), and the broker reads what was sent to it.
- SSE: streams and broadcasts in progress run; clients need not leave.
- Lifecycle: a Close returns, time passes, and a request that does I/O ends. A stream ends only by its client or by
  the closing of its channel. That a Close returns is an assumption about the libraries: the code does not bound it,
  which is what `shutdown_budget` shows.
- Users: the statements of a call return unless they wait for another transaction. Health and SMTP: goroutines run
  and time passes; the dependencies and the server may hang for ever.

## Proofs

All for arbitrary finite or infinite constants within the named assumptions (`JobInputs`, `ConsumersFinite`,
`NoneIsNoMessage`, `AuthInputs`, `StoreInputs`, `AuthorizerInputs`, `SseInputs`, `SeedInputs`, `UserInputs`,
`QueueInputs`, `CacheInputs`, `PathInputs`, `LimitInputs`, `PageInputs`, `CleanupInputs`, `HealthInputs`,
`AccessInputs`, `LifeInputs`, `WatchInputs`, `SmtpInputs`, and for the groups `SessionInputs` and `ServiceInputs`),
which say of what kind the constants are: numbers where the code has numbers, and markers such as `None` that are no
values. Each theorem rests on an inductive invariant that holds initially, is kept by every action, and implies the
property.

- `JobWorkerProofs`: `TypeCorrect`, `WaitGroupExact`, `ShutdownStopsPublishing`, `JobsNotLost`,
  `AttemptsStayBounded`, `RunsStayBounded`. `TypeInv` adds that a busy loop has a message in hand. `WgInv` adds that the
  retries are finite and told apart by message identity, so that each `Done` lowers the count by one, and that the
  context is cancelled once main has left its running phase. `LossInv` adds that whatever is in a handler or in a
  retry goroutine has run, and that a message about to be acknowledged is resolved (finished, or held with more
  attempts), which is what makes acknowledging after the handler safe. `DownInv` says a stopped process has no
  retry goroutine.
  `RunsStayBounded` is an amortised count. `Credit(j)` is the set of runs that the copies of j may still cause
  without another lost ack: a copy in the queue, in the buffer of an open channel or in a retry goroutine stands for
  what its attempts leave, one in a handler for one less. `RunsInv` says that the runs so far and the credit are
  together within the bound. A copy that moves takes its credit along (`CopyMoves`), a handler call spends one, and
  only two things create credit, each together with a lost ack: a channel that closes under a handled delivery
  (`CopiesPutBack`) and a delivery taken from the buffer of a closed channel (`StaleCopy`). It needs that an unacked
  delivery is in its consumer's buffer or hand (`HoldInv`) and that every copy is of an accepted job and within its
  attempts (`SoundInv`).
  `WorkerImplementsDelivery` is the refinement of `JobDelivery`, action by action: a handler call is a `Run` or a
  `Refuse`, a failure with attempts left a `Retry`, an ack a `Settle`, a closing channel or a dying process an
  `Interrupt`. That a call is within the allowance, and that an acknowledged job is finished, dropped or still held,
  come from the invariants above. `DeliveryKeepsPromise` shows what the abstract delivery is worth: `Promise` follows
  from it alone.
- `AuthSessionProofs`: `TypeCorrect`, `EndedStaysEnded`, `LoginFailsClosed` (with Redis), `SessionsIsolated`,
  `NoCacheNoSuccess`. The inductive invariant `SessInv` says that keys belong to their token's owner, that no two
  requests hold the same new token, and for each request which keys can still be written: a token that was handed
  out is never written again, so deleting its index key is final. `Revocable` says that without Redis no request
  gets past the revocation, which is what `NoCacheNoSuccess` needs.
- `AuthorizerProofs`: `TypeCorrect`, `CacheFresh`, `MemoryOnlyFromDatabase`. `FreshInv` adds that an evaluation
  nothing overlapped is still right when it is stored. `ScopeCovers` is the heart: a change alters no decision
  outside what it invalidates, but for those in `Unreached`: the endpoints do not look up whom a direct permission is
  given to, and one given to the name of a role changes what its members may do and invalidates only the name.
- `RecordProofs`, users: `UserInvariant`, `EmailsStayUnique`, `FailedCreatesLeaveNothing`, `AuditedUsersExist`. `UserInv`
  adds to uniqueness that the rows of open transactions differ in e-mail from each other and from all committed rows
  (`PendingApart`), without which a commit could break it, and what each place of a call implies for its row and
  result (`CallOK`).
- `RequestProofs`, the decision cache: `CacheInvariant`, `MapAndListAgree`, `EvictionIsByRecency`,
  `CacheImplementsStore`. `CacheInv` says that the list holds exactly the keys of the map, each once, and is a prefix
  of the keys in order of their last use, so its last element is the least recent. The refinement is proved step by
  step: every step of the cache is a `Put`, a `Forget` or a stutter of `DecisionStore`.
- `RequestProofs`, storage: `UploadsAreAnsweredTruly`. The heart is that sanitising a path twice is sanitising it once,
  for paths of any length: a sanitised path has no "." and no ".." and no leading dot (`Plain`), and cleaning leaves
  such a path alone. `UploadInv` says what each place of an upload implies for the file.
- `RequestProofs`, access: `OnlyEntitledAreServed`. `AccessInv` says that every copy is covered by the rules held since
  the start: the memory, a reload under way, what an evaluation may have seen, and the rules behind a cached or
  computed decision (`VisitOK`). A process that is down has no copies and no history, which is why a start may begin
  the history anew.
- `RecordProofs`, rate limiter: `LimitInvariant`, `LimiterIsExact`. In memory the window of a key remembers every
  admission that still counts (`Remembers`), also after the janitor. In Redis the set is the stamps of admissions and
  expires no earlier than they do; and for every script on its way (`Safe`) a stamp as late was admitted already, in
  which case its run makes the key irregular, or the script will be refused, or the set shows it every admission that
  counts. That case split is what makes the invariant inductive, since the stamp is taken long before the script runs.
- `ServerProofs`, queue: `QueueInvariant`, `ConnectionsDoNotLeak`, `PublisherStaysUsable`, `OnlyDropsLose`. `ConnInv`
  says that a consumer about to install holds a connection of its own (`FreshWhileInstalling`) and that only open
  connections have unread messages (`UnreadIsOpen`). That a dial always finds an unused identity is proved by
  counting (`NewConnIsNew`).
- `RecordProofs`, pages: `PageInvariant`, `WalkIsExact`, `ForwardAndBackIsTheSamePage`. `PageInv` says that
  a walk that has come to a cursor has shown all the rows that stayed, up to the cursor, and none beyond it; that a
  page nothing changed under is the last one up to its next cursor; and that the page a step forward came from is the
  last one before the previous cursor.
- `RecordProofs`, cleanup: `CleanupInvariant`, `CleanupIsExact`. When other jobs have deleted rows
  of a job's batch, so that it stops or will stop with rows left, some job has yet to look, has failed, or has looked
  and has none of its rows left (`BehindLooker`).
- `ServerProofs`, lifecycle: `LifecycleInvariant`, `AuthorizerAlwaysThere`, `ShutdownClosesEverything`,
  `SharesAreKept`, `RequestsHadTheirShare`. `LifeInv` says how far New and Shutdown have come: adapters are closed in
  the order of the closings, a phase began no later than its offset unless a Close overran, and requests are cut off
  only after the share of the server's phase.
- `ServerProofs`, readiness: `ReadinessAnswerTrue`. `HealthInv` adds that the result of a probe was witnessed
  (`Witnessed`): a dependency in use that passed was up, one that failed was down or hung or the server shuts down, at
  some time of the request. A failure needs that a hung dependency is waited for until the deadline (`WaitsForHung`).
- `ServerProofs`, SSE: `RegistryInvariant`, `NeverSendsOnClosed`, `NoStreamOrphaned`, `TabsStayIndependent`. `SseInv`
  says that what a broadcast still has to send to is registered and open, because closing takes the write lock, and
  that a stream that reads has its own registered channel or a closed one.
- `RecordProofs`, seed: `SeedInvariant`, `QuietRunsComplete`. `SeedInv` says that a run without a warning has
  everything behind its place in the tables; nothing removes rows, so other runs cannot break it.
- `ServerProofs`, watchers: `RulesStayInTable`, the safe half of `AddsReachAll`. A rule that was added and that no
  instance may remove is in the table, which every reload reads, and no model holds such a rule that the table lacks.
  A message announces a removal only of what may go, also when it is misread as one of section "p" (`WatchInv`), so no
  callback takes another rule away.
- `ServerProofs`, e-mail: `SendsReturnCleanly`, the safe half of `SendReturns`. Send returns with its connection closed
  or never made, with a result, and with nil only for a message that the server took. `SmtpInv` says that the result is
  fixed before the deferred QUIT and by nothing else; `ExchangeShape` gives the order of the commands for any number
  of recipients.
- `RecordGroupProofs`: `RecordsTypeCorrect`, `WithoutRedisNoSuccess`, `RecordsSafe`; `ServiceGroupProofs`:
  `ServicesTypeCorrect`, `ServicesSafe`. A step of a group is a step of the component in focus and a stutter of the
  others (`GroupStep`), so a behaviour of the group is a behaviour of each component without its fairness
  (`GroupIsComponents`), and what the components' theorems say holds of the group at once. The types of every component
  are proved as lemmas (`UserTypesKept`, `QueueTypesKept`, ...), among them that no counter or channel passes its
  bound. For the sessions, the worker and the authorizer the theorems are used at the constants of the group, and
  `SessionInputsHold`, `WorkerInputsHold` and `AuthzInputsHold` show that these meet the assumptions. Here the
  group's own constants, such as the two jobs of its worker, are fixed; the other components' stay arbitrary.

Facts about lists, paths and pages of any length are inductions, done by taking a smallest counterexample (`WFMin` of
`WellFoundedInduction`); the induction theorems with an operator parameter are out of the provers' reach.

Only model-checked:

- liveness: `CallsEnd`, `ReconnectSettles`, `StreamsDrainAndEnd`, `AddsReachAll`, `ShutdownReturns`,
  `ReadinessAnswers`, `SendReturns`, `ShutdownTerminates`, `JobSettles`, `Converges`. TLAPS does not reason about
  fairness and ENABLED. Every invariant and action property of a passing run, and both refinements, are proved.

## Not modelled

- Logging, metrics, tracing, request ids, CORS and security headers: nothing reads back what they write.
- Validation, error mapping and response formats: functions of one request without state.
- Configuration other than the JWT settings and the enabled features: the other values are constants here.
- `OptionalAuth`, `RequireAny`, `RequireAll`, `NewCursorPage`, the counters of the cache, job type "notification"
  (no handler is registered for it) and queries of the audit log: without a caller, or reading only.
- The audit decorator of the auth module: its entries are written after the call and nothing depends on them.
- Closing a policy watcher: no process configures one.
- The panic of `sync.WaitGroup` when an `Add` meets a `Wait` that is about to return: `WgExact` counts goroutines only.
- Docker files, migrations other than the constraints the statements meet, and test helpers.
