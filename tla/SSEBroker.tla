----------------------------- MODULE SSEBroker -----------------------------
(***************************************************************************)
(* internal/adapter/sse/broker.go and the handlers above it: connections   *)
(* subscribe with a buffered channel each, broadcasts send to the channels *)
(* of all matching subscribers under the read lock, and streams write what *)
(* they receive until their channel is closed or their client is gone.     *)
(***************************************************************************)
EXTENDS Naturals, Sequences

CONSTANTS
  Conns,        \* requests for /sse/subscribe
  UserOf,       \* UserOf[c]: the authenticated user of a connection
  Topics,
  Casters,      \* broadcasts in progress at once
  Buffer,       \* the broker's bufferSize
  MaxBroadcasts,\* bound: events
  NoOne         \* no connection, no broadcast

ASSUME SseInputs == NoOne \notin Conns /\ MaxBroadcasts \in Nat /\ Buffer \in Nat

ConnIds == Conns \cup {UserOf[c] : c \in Conns}
Events == 1..MaxBroadcasts

VARIABLES
  clients,      \* clients[i]: the connection whose channel is registered as i
  topics,       \* topics[c]: what it subscribed to; {} is everything
  chan,         \* chan[c]: the events buffered in its channel
  closed,       \* connections whose channel is closed
  stream,       \* where the handler of a connection stands
  hand,         \* hand[c]: the event it is writing
  gone,         \* connections whose client has left
  cast,         \* cast[b]: a broadcast holding the read lock, or NoOne
  events,       \* number of events so far
  brokerShut,   \* Close was called
  accepted,     \* history: events that entered a channel
  written       \* history: events that reached a client

sseVars == <<clients, topics, chan, closed, stream, hand, gone, cast, events, brokerShut,
             accepted, written>>

SseTypeOK ==
  /\ clients \in [ConnIds -> Conns \cup {NoOne}]
  /\ topics \in [Conns -> SUBSET Topics]
  /\ chan \in [Conns -> Seq(Events)] /\ \A c \in Conns : Len(chan[c]) <= Buffer
  /\ closed \subseteq Conns /\ gone \subseteq Conns
  /\ stream \in [Conns -> {"none", "receive", "write", "leave", "ended"}]
  /\ hand \in [Conns -> Events \cup {NoOne}]
  /\ cast \in [Casters -> [event : Events, todo : SUBSET Conns] \cup {NoOne}]
  /\ events \in 0..MaxBroadcasts
  /\ brokerShut \in BOOLEAN
  /\ accepted \in [Conns -> SUBSET Events] /\ written \in [Conns -> SUBSET Events]

SseInit ==
  /\ clients = [i \in ConnIds |-> NoOne]
  /\ topics = [c \in Conns |-> {}]
  /\ chan = [c \in Conns |-> <<>>]
  /\ closed = {} /\ gone = {}
  /\ stream = [c \in Conns |-> "none"]
  /\ hand = [c \in Conns |-> NoOne]
  /\ cast = [b \in Casters |-> NoOne]
  /\ events = 0
  /\ brokerShut = FALSE
  /\ accepted = [c \in Conns |-> {}] /\ written = [c \in Conns |-> {}]

(* mu.Lock waits for the broadcasts; the sections under it are one step. *)
WriteLock == \A b \in Casters : cast[b] = NoOne

(* uuid.NewString() *)
ConnID(c) == c

(* Subscribe, of the handler and of the broker; a registered channel of     *)
(* the same identifier is closed.                                          *)
Subscribe(c, T) ==
  /\ stream[c] = "none" /\ WriteLock
  /\ closed' = closed \cup ({clients[ConnID(c)]} \ {NoOne})
  /\ clients' = [clients EXCEPT ![ConnID(c)] = c]
  /\ topics' = [topics EXCEPT ![c] = T]
  /\ stream' = [stream EXCEPT ![c] = "receive"]
  /\ UNCHANGED <<chan, hand, gone, cast, events, brokerShut, accepted, written>>

(* for event := range ch: a closed channel is drained first. *)
Receive(c) ==
  /\ stream[c] = "receive" /\ chan[c] # <<>>
  /\ hand' = [hand EXCEPT ![c] = Head(chan[c])]
  /\ chan' = [chan EXCEPT ![c] = Tail(@)]
  /\ stream' = [stream EXCEPT ![c] = "write"]
  /\ UNCHANGED <<clients, topics, closed, gone, cast, events, brokerShut, accepted, written>>

(* Faulty variant: the loop is left as soon as the channel is closed. *)
RangeEndsEarly(c) ==
  /\ stream[c] = "receive" /\ c \in closed
  /\ stream' = [stream EXCEPT ![c] = "leave"]
  /\ UNCHANGED <<clients, topics, chan, closed, hand, gone, cast, events, brokerShut,
                 accepted, written>>

RangeEnds(c) ==
  /\ stream[c] = "receive" /\ chan[c] = <<>> /\ c \in closed
  /\ stream' = [stream EXCEPT ![c] = "leave"]
  /\ UNCHANGED <<clients, topics, chan, closed, hand, gone, cast, events, brokerShut,
                 accepted, written>>

(* The flush succeeds, or fails because the client is gone. *)
Write(c) ==
  /\ stream[c] = "write"
  /\ hand' = [hand EXCEPT ![c] = NoOne]
  /\ IF c \in gone
       THEN stream' = [stream EXCEPT ![c] = "leave"] /\ UNCHANGED written
       ELSE /\ stream' = [stream EXCEPT ![c] = "receive"]
            /\ written' = [written EXCEPT ![c] = @ \cup {hand[c]}]
  /\ UNCHANGED <<clients, topics, chan, closed, gone, cast, events, brokerShut, accepted>>

(* Faulty variant: Unsubscribe does not take the lock. *)
UnsubscribeUnlocked(c) ==
  /\ stream[c] = "leave"
  /\ closed' = closed \cup ({clients[ConnID(c)]} \ {NoOne})
  /\ clients' = [clients EXCEPT ![ConnID(c)] = NoOne]
  /\ stream' = [stream EXCEPT ![c] = "ended"]
  /\ UNCHANGED <<topics, chan, hand, gone, cast, events, brokerShut, accepted, written>>

(* Unsubscribe *)
Unsubscribe(c) ==
  /\ stream[c] = "leave" /\ WriteLock
  /\ closed' = closed \cup ({clients[ConnID(c)]} \ {NoOne})
  /\ clients' = [clients EXCEPT ![ConnID(c)] = NoOne]
  /\ stream' = [stream EXCEPT ![c] = "ended"]
  /\ UNCHANGED <<topics, chan, hand, gone, cast, events, brokerShut, accepted, written>>

(* The client goes, or the connection breaks, as by a write timeout. *)
Disconnect(c) ==
  /\ stream[c] \notin {"none", "ended"} /\ c \notin gone
  /\ gone' = gone \cup {c}
  /\ UNCHANGED <<clients, topics, chan, closed, stream, hand, cast, events, brokerShut,
                 accepted, written>>

-----------------------------------------------------------------------------
Registered == {c \in Conns : \E i \in ConnIds : clients[i] = c}

(* Who gets an event: everyone, a topic's subscribers and those without    *)
(* topics, or one client.                                                  *)
Broadcast == Registered
BroadcastToTopic(t) == {c \in Registered : t \in topics[c] \/ topics[c] = {}}
SendTo(i) == {clients[i]} \ {NoOne}

CastTargets ==
  {Broadcast} \cup {BroadcastToTopic(t) : t \in Topics} \cup {SendTo(i) : i \in ConnIds}

StartCast(b) ==
  /\ cast[b] = NoOne /\ events < MaxBroadcasts
  /\ events' = events + 1
  /\ \E C \in CastTargets : cast' = [cast EXCEPT ![b] = [event |-> events', todo |-> C]]
  /\ UNCHANGED <<clients, topics, chan, closed, stream, hand, gone, brokerShut,
                 accepted, written>>

(* select with a default: a full channel is skipped.  (Sending on a closed *)
(* channel would panic.)                                                   *)
Send(b, c) ==
  /\ cast[b] # NoOne /\ c \in cast[b].todo
  /\ cast' = [cast EXCEPT ![b].todo = @ \ {c}]
  /\ IF Len(chan[c]) < Buffer
       THEN /\ chan' = [chan EXCEPT ![c] = Append(@, cast[b].event)]
            /\ accepted' = [accepted EXCEPT ![c] = @ \cup {cast[b].event}]
       ELSE UNCHANGED <<chan, accepted>>
  /\ UNCHANGED <<clients, topics, closed, stream, hand, gone, events, brokerShut, written>>

EndCast(b) ==
  /\ cast[b] # NoOne /\ cast[b].todo = {}
  /\ cast' = [cast EXCEPT ![b] = NoOne]
  /\ UNCHANGED <<clients, topics, chan, closed, stream, hand, gone, events, brokerShut,
                 accepted, written>>

(* Close.  A request still in progress may subscribe afterwards. *)
BrokerClose ==
  /\ ~brokerShut /\ WriteLock
  /\ brokerShut' = TRUE
  /\ closed' = closed \cup Registered
  /\ clients' = [i \in ConnIds |-> NoOne]
  /\ UNCHANGED <<topics, chan, stream, hand, gone, cast, events, accepted, written>>

StreamStep(c) == Receive(c) \/ RangeEnds(c) \/ Write(c) \/ Unsubscribe(c)
CastStep(b) == (\E c \in Conns : Send(b, c)) \/ EndCast(b)

SseNext ==
  \/ \E c \in Conns : (\E T \in SUBSET Topics : Subscribe(c, T)) \/ StreamStep(c) \/ Disconnect(c)
  \/ \E b \in Casters : StartCast(b) \/ CastStep(b)
  \/ BrokerClose

(* Goroutines run, a flush returns and the lock is granted. *)
SseFairness ==
  /\ \A c \in Conns : WF_sseVars(StreamStep(c))
  /\ \A b \in Casters : WF_sseVars(CastStep(b))

SseSpec == SseInit /\ [][SseNext]_sseVars /\ SseFairness

-----------------------------------------------------------------------------
(* A broadcast never sends on a closed channel, which would end the        *)
(* process: the channels it found under the lock stay open until it is     *)
(* done.                                                                   *)
NoSendOnClosed ==
  \A b \in Casters : cast[b] # NoOne => cast[b].todo \cap closed = {}

(* A stream that is not leaving reads a channel that is registered, or one *)
(* that is closed: none waits on a channel that nobody will send on or     *)
(* close.                                                                  *)
NoOrphanStream ==
  \A c \in Conns : stream[c] \in {"receive", "write"} => c \in Registered \cup closed

(* Two connections of one user do not disturb each other: while the broker *)
(* is not closed, only a stream's own end closes its channel.              *)
TabsIndependent ==
  brokerShut \/ \A c \in closed : stream[c] = "ended"

(* What entered a channel is written or its client is gone, also when the  *)
(* channel is closed meanwhile; and every stream ends whose channel is     *)
(* closed.                                                                 *)
StreamsDrainAndEnd ==
  \A c \in Conns :
    /\ []<>(accepted[c] \subseteq written[c] \/ c \in gone)
    /\ []<>(c \in closed => stream[c] = "ended")

(* Violated: a client that left is unsubscribed.  The handler notices only *)
(* when it next writes.                                                    *)
GoneIsUnsubscribed == \A c \in Conns : c \in gone ~> c \notin Registered
=============================================================================
