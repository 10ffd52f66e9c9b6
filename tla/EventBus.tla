------------------------------- MODULE EventBus -------------------------------
(***************************************************************************)
(* The event bus library in a process of a service: EventBus and the       *)
(* RabbitMqTransport below it.  The transport connects, subscribes the     *)
(* service's queue, and does both again by a timer when the connection is  *)
(* lost.  An event stays with RabbitMQ until a handler settles it; what is *)
(* unsettled when its channel closes is delivered again, while the handler *)
(* of the first delivery may still run.                                    *)
(*                                                                         *)
(* A channel is named by the number of its connection.                     *)
(***************************************************************************)
EXTENDS Naturals, FiniteSets

CONSTANTS
    Events,        \* events published for the service
    MaxLinks,      \* bound: connections made, more than faults can use up
    MaxBusFaults   \* bound: lost connections, failed calls, crashes

ASSUME BusAssumption ==
    MaxLinks \in Nat /\ MaxBusFaults \in Nat /\ MaxLinks > MaxBusFaults + 1

VARIABLES
    link,        \* the connection, see Links
    channel,     \* the number of the current or the last connection
    timers,      \* pending timers of _retry
    reconnect,   \* _reconnect
    subscribing, \* a _handleSubscription under way: of connect or of _retry
    subscribed,  \* _subscriptions is not empty
    consumers,   \* channels on which RabbitMQ has a consumer of the queue
    bound,       \* the queue exists and is bound to the topics
    place,       \* place[e]: where event e is
    on,          \* on[e]: the channel e is unsettled on, 0: none
    running,     \* handlers under way, with the channel of their delivery
    handled,     \* history: events some handler has completed
    thrown,      \* history: events of which a handler threw
    closed,      \* history: disconnect was called, or the service never runs
    busFaults

linkVars == <<link, channel, timers, reconnect>>
subscriptionVars == <<subscribing, subscribed, consumers, bound>>
eventVars == <<place, on, running, handled, thrown>>
BusVars == <<linkVars, subscriptionVars, eventVars, closed, busFaults>>

Channels == 1 .. MaxLinks

(* opening: connected, the publish channel is being created and 'close' is  *)
(* not listened to yet; dead: no process.                                  *)
Links == {"dead", "down", "connecting", "opening", "up"}

(* unrouted: no queue was bound when it was published; lost: its publisher  *)
(* got an exception; settled: acknowledged or rejected.                    *)
Places == {"new", "unrouted", "lost", "queued", "unsettled", "settled"}

BusTypeOK ==
    /\ link \in Links /\ channel \in 0 .. MaxLinks
    /\ timers \in 0 .. 2 /\ reconnect \in BOOLEAN
    /\ subscribing \in {"no", "first", "retry"}
    /\ subscribed \in BOOLEAN /\ bound \in BOOLEAN
    /\ consumers \subseteq Channels
    /\ place \in [Events -> Places]
    /\ on \in [Events -> 0 .. MaxLinks]
    /\ running \subseteq Events \X Channels
    /\ handled \subseteq Events /\ thrown \subseteq Events
    /\ closed \in BOOLEAN /\ busFaults \in 0 .. MaxBusFaults

BusInit ==
    /\ link = "dead" /\ channel = 0 /\ timers = 0 /\ reconnect = FALSE
    /\ subscribing = "no" /\ subscribed = FALSE /\ consumers = {} /\ bound = FALSE
    /\ place = [e \in Events |-> "new"] /\ on = [e \in Events |-> 0]
    /\ running = {} /\ handled = {} /\ thrown = {} /\ closed \in BOOLEAN /\ busFaults = 0

----------------------------------------------------------------------------

Fault == busFaults < MaxBusFaults /\ busFaults' = busFaults + 1

(* What RabbitMQ does when a connection ends: its consumers are gone, what  *)
(* was unsettled on it is queued again.                                    *)
ChannelsClose ==
    /\ consumers' = {}
    /\ place' = [e \in Events |-> IF place[e] = "unsettled" THEN "queued" ELSE place[e]]
    /\ on' = [e \in Events |-> 0]

(* An exception nobody catches ends the process; so does a crash.           *)
ProcessEnds ==
    /\ link' = "dead" /\ timers' = 0 /\ reconnect' = FALSE
    /\ subscribing' = "no" /\ subscribed' = FALSE
    /\ running' = {}
    /\ ChannelsClose

(* Slip: the connection is not reset and retries through its error too.     *)
RestartTwice ==
    /\ link' = "down"
    /\ timers' = IF reconnect THEN timers + 2 ELSE timers

(* reset() and the timer of _retry.                                         *)
Restart ==
    /\ link' = "down"
    /\ timers' = IF reconnect THEN timers + 1 ELSE timers

(* The service starts, or is replaced: EventBus.connect, with the handlers  *)
(* registered before.                                                      *)
Start ==
    /\ link = "dead" /\ ~closed
    /\ link' = "connecting" /\ reconnect' = TRUE
    /\ UNCHANGED <<channel, timers, subscriptionVars, eventVars, closed, busFaults>>

(* _retry calls connect, which means to reconnect from now on.              *)
TimerFires ==
    /\ timers > 0 /\ link # "dead"
    /\ timers' = timers - 1
    /\ link' = "connecting" /\ reconnect' = TRUE
    /\ UNCHANGED <<channel, subscriptionVars, eventVars, closed, busFaults>>

Connected ==
    /\ link = "connecting" /\ channel < MaxLinks
    /\ link' = "opening" /\ channel' = channel + 1
    /\ UNCHANGED <<timers, reconnect, subscriptionVars, eventVars, closed, busFaults>>

(* connect() swallows the failure and sets the timer.  In EventBus.connect  *)
(* the subscription follows all the same: it finds no connection, and       *)
(* nobody awaits it.                                                       *)
ConnectFails ==
    /\ link \in {"connecting", "opening"} /\ Fault
    /\ IF subscribed
       THEN /\ Restart
            /\ UNCHANGED <<reconnect, subscriptionVars, eventVars>>
       ELSE /\ ProcessEnds
            /\ UNCHANGED <<bound, handled, thrown>>
    /\ UNCHANGED <<channel, closed>>

(* The close handler is registered and the subscriptions are made: the      *)
(* first time by connect, later by _retry.                                 *)
Opened ==
    /\ link = "opening"
    /\ link' = "up"
    /\ subscribing' = IF subscribed THEN "retry" ELSE "first"
    /\ subscribed' = TRUE
    /\ UNCHANGED <<channel, timers, reconnect, consumers, bound, eventVars, closed, busFaults>>

(* Slip: _retry connects without subscribing again.                         *)
SubscribeAgainNot == subscribing = "first"
SubscribeAgain == subscribing # "no"

Subscribed ==
    /\ link = "up" /\ SubscribeAgain
    /\ subscribing' = "no"
    /\ consumers' = consumers \cup {channel}
    /\ bound' = TRUE
    /\ UNCHANGED <<linkVars, subscribed, eventVars, closed, busFaults>>

(* 'close': reset, timer.  A first subscription under way fails unawaited   *)
(* and ends the process, one of _retry is caught.                          *)
ConnectionLost ==
    /\ link = "up" /\ Fault
    /\ IF subscribing = "first"
       THEN /\ ProcessEnds
            /\ UNCHANGED <<bound, handled, thrown>>
       ELSE /\ Restart
            /\ ChannelsClose
            /\ subscribing' = "no"
            /\ UNCHANGED <<reconnect, subscribed, bound, running, handled, thrown>>
    /\ UNCHANGED <<channel, closed>>

(* disconnect() before the service ends.  Without a connection it rejects,  *)
(* and a pending timer connects again later.                               *)
Disconnect ==
    /\ link \in {"down", "connecting", "up"} /\ ~closed
    /\ closed' = TRUE /\ reconnect' = FALSE
    /\ IF link = "up"
       THEN /\ link' = "down" /\ subscribing' = "no"
            /\ ChannelsClose
       ELSE UNCHANGED <<link, subscribing, consumers, place, on>>
    /\ UNCHANGED <<channel, timers, subscribed, bound, running, handled, thrown, busFaults>>

Crash ==
    /\ link # "dead" /\ Fault
    /\ ProcessEnds
    /\ UNCHANGED <<channel, bound, handled, thrown, closed>>

----------------------------------------------------------------------------
(* Events.  The publisher is a process of another service.                  *)

Publish(e) ==
    /\ place[e] = "new"
    /\ place' = [place EXCEPT ![e] = IF bound THEN "queued" ELSE "unrouted"]
    /\ UNCHANGED <<linkVars, subscriptionVars, on, running, handled, thrown, closed, busFaults>>

(* Without a connection publish throws.                                     *)
PublishThrows(e) ==
    /\ place[e] = "new" /\ Fault
    /\ place' = [place EXCEPT ![e] = "lost"]
    /\ UNCHANGED <<linkVars, subscriptionVars, on, running, handled, thrown, closed>>

(* Slip: the event is acknowledged before its handlers run.                 *)
DeliverAcked(e) ==
    \E c \in consumers :
        /\ place[e] = "queued"
        /\ place' = [place EXCEPT ![e] = "settled"]
        /\ on' = on
        /\ running' = running \cup {<<e, c>>}
        /\ UNCHANGED <<linkVars, subscriptionVars, handled, thrown, closed, busFaults>>

(* The consumer's callback starts _handleEvent. No prefetch.                *)
Deliver(e) ==
    \E c \in consumers :
        /\ place[e] = "queued"
        /\ place' = [place EXCEPT ![e] = "unsettled"]
        /\ on' = [on EXCEPT ![e] = c]
        /\ running' = running \cup {<<e, c>>}
        /\ UNCHANGED <<linkVars, subscriptionVars, handled, thrown, closed, busFaults>>

(* Slip: events are settled on the transport's current channel.             *)
HandleOnCurrent(e) ==
    \E c \in Channels :
        /\ <<e, c>> \in running
        /\ running' = running \ {<<e, c>>}
        /\ handled' = handled \cup {e}
        /\ IF on[e] # 0
           THEN /\ place' = [place EXCEPT ![e] = "settled"]
                /\ on' = [on EXCEPT ![e] = 0]
           ELSE UNCHANGED <<place, on>>
        /\ UNCHANGED <<linkVars, subscriptionVars, thrown, closed, busFaults>>

(* A handler has done its work and settles the event (ack, or nack without  *)
(* requeue), and so does _handleEvent when there is no handler.  On a       *)
(* channel that is closed by now that throws, which _handleEvent swallows.  *)
Handle(e) ==
    \E c \in Channels :
        /\ <<e, c>> \in running
        /\ running' = running \ {<<e, c>>}
        /\ handled' = handled \cup {e}
        /\ IF on[e] = c
           THEN /\ place' = [place EXCEPT ![e] = "settled"]
                /\ on' = [on EXCEPT ![e] = 0]
           ELSE UNCHANGED <<place, on>>
        /\ UNCHANGED <<linkVars, subscriptionVars, thrown, closed, busFaults>>

(* An exception of a handler is logged: the event stays unsettled.          *)
HandlerThrows(e) ==
    \E c \in Channels :
        /\ <<e, c>> \in running /\ Fault
        /\ running' = running \ {<<e, c>>}
        /\ thrown' = thrown \cup {e}
        /\ UNCHANGED <<linkVars, subscriptionVars, place, on, handled, closed>>

TransportStep == Start \/ TimerFires \/ Connected \/ Opened \/ Subscribed
BusNext ==
    \/ TransportStep \/ ConnectFails \/ ConnectionLost \/ Disconnect \/ Crash
    \/ \E e \in Events : \/ Publish(e) \/ PublishThrows(e)
                         \/ Deliver(e) \/ Handle(e) \/ HandlerThrows(e)

BusSpec == BusInit /\ [][BusNext]_BusVars
BusFairness ==
    /\ WF_BusVars(TransportStep)
    /\ \A e \in Events : WF_BusVars(Deliver(e)) /\ WF_BusVars(Handle(e))

----------------------------------------------------------------------------

(* The transport never holds two connections or works at two: a pending     *)
(* timer means that there is none, and there is one timer, so the service   *)
(* has one consumer at a time and it is on the current connection.         *)
OneConnection ==
    /\ timers <= 1
    /\ timers = 1 => link = "down"
    /\ consumers \subseteq {c \in {channel} : link = "up"}

(* An event is settled by the handler it was delivered to last: a handler   *)
(* of a connection that is gone settles nothing (RabbitMqEvent keeps its    *)
(* own channel).                                                           *)
StaleHandlersSettleNothing ==
    [][\A e \in Events :
        place[e] # "settled" /\ place'[e] = "settled" =>
            /\ <<e, on[e]>> \in running
            /\ on[e] = channel /\ link = "up"]_BusVars

(* The bus is an at-least-once channel: what it accepted stays with it      *)
(* until a handler of the service completed it.                            *)
Kept == {e \in Events : place[e] \in {"queued", "unsettled"}}
Promise == INSTANCE AtLeastOnce WITH kept <- Kept, served <- handled
DeliversAtLeastOnce == Promise!Spec

(* A queued event is handled, unless its handlers throw or the service is   *)
(* disconnected.                                                           *)
EventsAreHandled ==
    \A e \in Events :
        place[e] = "queued" ~> e \in handled \cup thrown \/ closed
=============================================================================
