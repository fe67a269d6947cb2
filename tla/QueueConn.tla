----------------------------- MODULE QueueConn -----------------------------
(***************************************************************************)
(* internal/adapter/queue/rabbitmq.go: one connection with a publisher     *)
(* channel under a mutex, a channel per consumer, reconnection by whichever *)
(* consumer notices, Ping and Close.  What the consumers do with the       *)
(* messages is in JobWorker.                                               *)
(*                                                                         *)
(* conn and the publisher channel change only together and under pubMu, so *)
(* the publisher channel is always one of the connection conn.  Consumers  *)
(* read conn without the mutex.                                            *)
(***************************************************************************)
EXTENDS Naturals, FiniteSets

CONSTANTS
  Consumers, Messages, Pings,
  MaxReconnectTries,
  MaxFaults,    \* bound: connections and channels closed by the broker
  NoConn

(* Enough for the current connection, its predecessor in use by a consumer *)
(* or a Ping, and one being installed by each consumer.                    *)
ConnIdx == 1..(2 + 2 * Cardinality(Consumers) + Cardinality(Pings))

ASSUME QueueInputs ==
  /\ IsFiniteSet(Consumers) /\ IsFiniteSet(Pings) /\ NoConn \notin ConnIdx
  /\ MaxReconnectTries \in Nat \ {0} /\ MaxFaults \in Nat

VARIABLES
  open,         \* the connections that are open
  conn,         \* q.conn
  pubOpen,      \* the publisher channel has not been closed by itself
  qclosed,      \* q.closed
  ctxDone,      \* the consumers' context is cancelled
  cpc,          \* where a consumer's goroutine stands
  chOf,         \* the connection of its channel; NoConn when it is closed
  fresh,        \* the connection its redial has opened
  attempt,
  ping,         \* ping[p]: the connection a Ping looks at
  unread,       \* unread[i]: published messages the broker has not read yet
  stored,       \* messages the broker has
  published,    \* Publish returned nil
  faults,
  dropped,      \* history: messages unread when the broker's side went away
  refused,      \* history: the connection whose publisher channel the broker closed
  lateInstall   \* history: a redial was completed after Close

queueVars == <<open, conn, pubOpen, qclosed, ctxDone, cpc, chOf, fresh, attempt, ping, unread,
               stored, published, faults, dropped, refused, lateInstall>>
consumerVars == <<cpc, chOf, fresh, attempt>>
messageVars == <<unread, stored, published, dropped>>

QueueTypeOK ==
  /\ open \subseteq ConnIdx /\ conn \in ConnIdx
  /\ {pubOpen, qclosed, ctxDone, lateInstall} \subseteq BOOLEAN
  /\ cpc \in [Consumers -> {"idle", "drain", "backoff", "dial", "install", "reopen",
                            "halted", "stopped"}]
  /\ chOf \in [Consumers -> ConnIdx \cup {NoConn}]
  /\ fresh \in [Consumers -> ConnIdx \cup {NoConn}]
  /\ attempt \in [Consumers -> 0..MaxReconnectTries]
  /\ ping \in [Pings -> ConnIdx \cup {NoConn}]
  /\ unread \in [ConnIdx -> SUBSET Messages]
  /\ UNION {stored, published, dropped} \subseteq Messages
  /\ faults \in 0..MaxFaults /\ refused \in ConnIdx \cup {NoConn}

(* newRabbitMQ *)
QueueInit ==
  /\ open = {1} /\ conn = 1 /\ pubOpen = TRUE
  /\ qclosed = FALSE /\ ctxDone = FALSE
  /\ cpc = [c \in Consumers |-> "idle"]
  /\ chOf = [c \in Consumers |-> NoConn]
  /\ fresh = [c \in Consumers |-> NoConn]
  /\ attempt = [c \in Consumers |-> 0]
  /\ ping = [p \in Pings |-> NoConn]
  /\ unread = [i \in ConnIdx |-> {}]
  /\ stored = {} /\ published = {} /\ dropped = {}
  /\ faults = 0 /\ lateInstall = FALSE /\ refused = NoConn

(* A number that nothing refers to stands for a new connection. *)
Unused ==
  {i \in ConnIdx : i # conn /\ i \notin open /\ unread[i] = {}
                     /\ \A c \in Consumers : i \notin {chOf[c], fresh[c]}
                     /\ \A p \in Pings : ping[p] # i}
NewConn == CHOOSE i \in Unused : TRUE

(* Connection.Close waits for the broker, which has read everything by     *)
(* then.  A connection that is gone takes what was unread with it.         *)
CloseConn(i) ==
  /\ stored' = stored \cup (IF i \in open THEN unread[i] ELSE {})
  /\ unread' = [unread EXCEPT ![i] = {}]
  /\ UNCHANGED <<published, dropped>>

-----------------------------------------------------------------------------
(* openConsumer: connection open, Channel, Qos, Consume. *)
OpenConsumer(c) ==
  /\ conn \in open
  /\ chOf' = [chOf EXCEPT ![c] = conn]
  /\ cpc' = [cpc EXCEPT ![c] = "drain"]
  /\ attempt' = [attempt EXCEPT ![c] = 0]
  /\ UNCHANGED fresh

(* Consume, called once by each worker goroutine. *)
QConsume(c) ==
  /\ cpc[c] = "idle"
  /\ \/ OpenConsumer(c)
     \/ cpc' = [cpc EXCEPT ![c] = "halted"] /\ UNCHANGED <<chOf, fresh, attempt>>
  /\ UNCHANGED <<open, conn, pubOpen, qclosed, ctxDone, ping, messageVars, faults, refused, lateInstall>>

Lost(c) == chOf[c] = NoConn \/ chOf[c] \notin open

(* drainDeliveries returns false; runConsumer closes the channel. *)
ChannelLost(c) ==
  /\ cpc[c] = "drain" /\ Lost(c)
  /\ cpc' = [cpc EXCEPT ![c] = "backoff"]
  /\ chOf' = [chOf EXCEPT ![c] = NoConn]
  /\ attempt' = [attempt EXCEPT ![c] = 1]
  /\ UNCHANGED <<open, conn, pubOpen, qclosed, ctxDone, fresh, ping, messageVars, faults,
                 refused, lateInstall>>

(* ctx.Done, in drainDeliveries or while waiting for the next attempt. *)
ConsumerStops(c) ==
  /\ ctxDone /\ cpc[c] \in {"drain", "backoff"}
  /\ cpc' = [cpc EXCEPT ![c] = "stopped"]
  /\ chOf' = [chOf EXCEPT ![c] = NoConn]
  /\ UNCHANGED <<open, conn, pubOpen, qclosed, ctxDone, fresh, attempt, ping, messageVars,
                 faults, refused, lateInstall>>

(* The delay has passed: redial if the connection is gone. *)
BackoffOver(c) ==
  /\ cpc[c] = "backoff"
  /\ cpc' = [cpc EXCEPT ![c] = IF conn \in open THEN "reopen" ELSE "dial"]
  /\ UNCHANGED <<open, conn, pubOpen, qclosed, ctxDone, chOf, fresh, attempt, ping, messageVars,
                 faults, refused, lateInstall>>

(* Faulty variant: never gives up. *)
TryAgainForever(c) ==
  /\ cpc' = [cpc EXCEPT ![c] = "backoff"]
  /\ UNCHANGED <<chOf, fresh, attempt>>

(* nextBackoff and the next attempt, or reconnect exhausted. *)
TryAgain(c) ==
  /\ IF attempt[c] < MaxReconnectTries
       THEN /\ cpc' = [cpc EXCEPT ![c] = "backoff"]
            /\ attempt' = [attempt EXCEPT ![c] = @ + 1]
       ELSE cpc' = [cpc EXCEPT ![c] = "halted"] /\ UNCHANGED attempt
  /\ UNCHANGED <<chOf, fresh>>

AttemptFails(c) ==
  /\ cpc[c] \in {"dial", "reopen"}
  /\ TryAgain(c)
  /\ UNCHANGED <<open, conn, pubOpen, qclosed, ctxDone, ping, messageVars, faults, refused, lateInstall>>

(* redial: a new connection with its publisher channel. *)
Dial(c) ==
  /\ cpc[c] = "dial"
  /\ fresh' = [fresh EXCEPT ![c] = NewConn]
  /\ open' = open \cup {NewConn}
  /\ cpc' = [cpc EXCEPT ![c] = "install"]
  /\ UNCHANGED <<conn, pubOpen, qclosed, ctxDone, chOf, attempt, ping, messageVars, faults,
                 refused, lateInstall>>

Replaced(c) ==
  /\ cpc[c] = "install"
  /\ conn' = fresh[c] /\ pubOpen' = TRUE
  /\ fresh' = [fresh EXCEPT ![c] = NoConn]
  /\ cpc' = [cpc EXCEPT ![c] = "reopen"]
  /\ lateInstall' = (lateInstall \/ qclosed) /\ refused' = NoConn
  /\ UNCHANGED <<qclosed, ctxDone, chOf, attempt, ping, faults>>

(* Faulty variant: the connection that is replaced is not closed. *)
InstallKeepsOld(c) ==
  /\ Replaced(c)
  /\ UNCHANGED <<open, messageVars>>

(* redial, under pubMu: another consumer may have installed one meanwhile, *)
(* and Close may have been called.                                         *)
Install(c) ==
  /\ Replaced(c)
  /\ open' = open \ {conn}
  /\ CloseConn(conn)

Reopen(c) ==
  /\ cpc[c] = "reopen"
  /\ OpenConsumer(c)
  /\ UNCHANGED <<open, conn, pubOpen, qclosed, ctxDone, ping, messageVars, faults, refused, lateInstall>>

-----------------------------------------------------------------------------
(* withPubChannel and PublishWithContext: no confirmation is awaited.  A    *)
(* call on a closed channel returns an error and changes nothing.          *)
QPublish(m) ==
  /\ ~qclosed /\ pubOpen /\ conn \in open /\ m \notin published
  /\ published' = published \cup {m}
  /\ unread' = [unread EXCEPT ![conn] = @ \cup {m}]
  /\ UNCHANGED <<open, conn, pubOpen, qclosed, ctxDone, consumerVars, ping, stored, faults,
                 dropped, refused, lateInstall>>

(* A declaration or binding that the broker refuses closes the channel. *)
DeclareRefused ==
  /\ ~qclosed /\ pubOpen /\ conn \in open /\ faults < MaxFaults
  /\ faults' = faults + 1
  /\ pubOpen' = FALSE
  /\ stored' = stored \cup unread[conn]
  /\ unread' = [unread EXCEPT ![conn] = {}]
  /\ refused' = conn
  /\ UNCHANGED <<open, conn, qclosed, ctxDone, consumerVars, ping, published, dropped, lateInstall>>

BrokerReads(i) ==
  /\ i \in open /\ unread[i] # {}
  /\ CloseConn(i)
  /\ UNCHANGED <<open, conn, pubOpen, qclosed, ctxDone, consumerVars, ping, faults, refused, lateInstall>>

(* The broker or the network ends a connection, or a consumer's channel. *)
ConnectionDrops(i) ==
  /\ i \in open /\ faults < MaxFaults
  /\ faults' = faults + 1
  /\ open' = open \ {i}
  /\ dropped' = dropped \cup unread[i]
  /\ unread' = [unread EXCEPT ![i] = {}]
  /\ UNCHANGED <<conn, pubOpen, qclosed, ctxDone, consumerVars, ping, stored, published,
                 refused, lateInstall>>

ConsumerChannelDrops(c) ==
  /\ cpc[c] = "drain" /\ ~Lost(c) /\ faults < MaxFaults
  /\ faults' = faults + 1
  /\ chOf' = [chOf EXCEPT ![c] = NoConn]
  /\ UNCHANGED <<open, conn, pubOpen, qclosed, ctxDone, cpc, fresh, attempt, ping, messageVars,
                 refused, lateInstall>>

(* Ping: conn and closed under the mutex, then a channel of its own on what *)
(* may no longer be the current connection.                                *)
PingStarts(p) ==
  /\ ~qclosed /\ ping[p] = NoConn
  /\ ping' = [ping EXCEPT ![p] = conn]
  /\ UNCHANGED <<open, conn, pubOpen, qclosed, ctxDone, consumerVars, messageVars, faults,
                 refused, lateInstall>>

PingEnds(p) ==
  /\ ping[p] # NoConn
  /\ ping' = [ping EXCEPT ![p] = NoConn]
  /\ UNCHANGED <<open, conn, pubOpen, qclosed, ctxDone, consumerVars, messageVars, faults,
                 refused, lateInstall>>

Cancel ==
  /\ ~ctxDone
  /\ ctxDone' = TRUE
  /\ UNCHANGED <<open, conn, pubOpen, qclosed, consumerVars, ping, messageVars, faults,
                 refused, lateInstall>>

(* Close *)
QClose ==
  /\ ~qclosed
  /\ qclosed' = TRUE /\ pubOpen' = FALSE
  /\ open' = open \ {conn}
  /\ CloseConn(conn)
  /\ UNCHANGED <<conn, ctxDone, consumerVars, ping, faults, refused, lateInstall>>

ConsumerStep(c) ==
  ChannelLost(c) \/ ConsumerStops(c) \/ BackoffOver(c) \/ AttemptFails(c) \/ Dial(c)
    \/ Install(c) \/ Reopen(c)

QueueNext ==
  \/ \E c \in Consumers : QConsume(c) \/ ConsumerStep(c) \/ ConsumerChannelDrops(c)
  \/ \E m \in Messages : QPublish(m)
  \/ DeclareRefused
  \/ \E i \in ConnIdx : BrokerReads(i) \/ ConnectionDrops(i)
  \/ \E p \in Pings : PingStarts(p) \/ PingEnds(p)
  \/ Cancel
  \/ QClose

(* Goroutines run, timers fire, dialing returns, and the broker reads. *)
QueueFairness ==
  /\ \A c \in Consumers : WF_queueVars(ConsumerStep(c))
  /\ \A i \in ConnIdx : WF_queueVars(BrokerReads(i))

QueueSpec == QueueInit /\ [][QueueNext]_queueVars /\ QueueFairness

-----------------------------------------------------------------------------
(* No connection is left open behind: an open one is the current one of an *)
(* adapter that is not closed, or a redial has just opened it.  Two         *)
(* consumers that redial at once close each other's connection.  Only a    *)
(* redial that overtakes Close escapes it.                                 *)
NoLeakedConnection ==
  open \subseteq {fresh[c] : c \in Consumers}
                   \cup (IF qclosed /\ ~lateInstall THEN {} ELSE {conn})

(* While the connection is up, only a refusal of the broker closes the     *)
(* publisher channel: reconnects and Pings leave it usable.  (Nothing      *)
(* reopens a refused channel before its connection is lost as well.)       *)
PublisherUsable == conn \in open /\ ~qclosed => pubOpen \/ refused = conn

(* A message whose Publish returned nil is lost only when the broker's     *)
(* side of its connection goes away before it was read: neither a          *)
(* reconnect that replaces the connection nor Close loses one.             *)
LostOnlyWhenDropped ==
  published \subseteq stored \cup dropped \cup UNION {unread[i] : i \in open}

(* A consumer that lost its channel gets a new one, gives up after the     *)
(* configured number of attempts or is stopped; it never hangs.            *)
ReconnectSettles ==
  \A c \in Consumers :
    []<>(cpc[c] \notin {"backoff", "dial", "install", "reopen"})
=============================================================================
