-------------------------- MODULE Processes_proofs --------------------------
(***************************************************************************)
(* Proofs about the two kinds of processes that consume from RabbitMQ.      *)
(* EventBus, a service and the event bus, for any events and any number of  *)
(* lost connections and crashes: one connection at a time, events settled   *)
(* by the handlers they were delivered to, and the promise of AtLeastOnce.  *)
(* StepProcess, a component, for any inputs, prefetch and number of signals *)
(* and restarts: what a graceful shutdown may cut off, and that inputs are  *)
(* prepared with their own fields while the prefetch is 1.                  *)
(***************************************************************************)
EXTENDS EventBus, StepProcess, FiniteSetTheorems, TLAPS

USE DEF linkVars, subscriptionVars, eventVars, BusVars, processVars, StepVars

(* An event is on the channel of a consumer while it is unsettled, and       *)
(* handlers run only for events RabbitMQ once had: what is settled was       *)
(* handled, and what never reached the queue was not.                       *)
Delivered ==
    \A e \in Events : on[e] # 0 => place[e] = "unsettled" /\ on[e] \in consumers

AcceptedEvents == {e \in Events : place[e] \in {"queued", "unsettled", "settled"}}

Accounted ==
    /\ \A e \in Events : place[e] = "settled" => e \in handled
    /\ handled \subseteq AcceptedEvents
    /\ \A e \in Events : \A c \in Channels : <<e, c>> \in running => e \in AcceptedEvents

ConnectedOnce == link \in {"opening", "up"} => channel # 0

BusInv == BusTypeOK /\ OneConnection /\ ConnectedOnce /\ Delivered /\ Accounted

LEMMA InitBus == BusInit => BusInv
<1> SUFFICES ASSUME BusInit PROVE BusInv
  OBVIOUS
<1>1. /\ \A e \in Events : place[e] = "new" /\ on[e] = 0
      /\ 0 \in 0 .. MaxLinks /\ 0 \in 0 .. MaxBusFaults
  BY BusAssumption DEF BusInit
<1>2. BusTypeOK
  <2>1. place \in [Events -> Places]
    BY DEF BusInit, Places
  <2>2. on \in [Events -> 0 .. MaxLinks]
    BY <1>1 DEF BusInit
  <2>3. /\ link \in Links /\ channel \in 0 .. MaxLinks /\ timers \in 0 .. 2 /\ reconnect \in BOOLEAN
        /\ subscribing \in {"no", "first", "retry"} /\ subscribed \in BOOLEAN /\ bound \in BOOLEAN
        /\ consumers \subseteq Channels /\ running \subseteq Events \X Channels
        /\ handled \subseteq Events /\ thrown \subseteq Events /\ busFaults \in 0 .. MaxBusFaults
    <3>1. reconnect \in BOOLEAN /\ subscribed \in BOOLEAN /\ bound \in BOOLEAN
      BY DEF BusInit
    <3>2. link \in Links /\ timers \in 0 .. 2 /\ subscribing \in {"no", "first", "retry"}
      BY DEF BusInit, Links
    <3> QED
      BY <1>1, <3>1, <3>2 DEF BusInit
  <2>4. closed \in BOOLEAN
    BY DEF BusInit
  <2> QED
    BY <2>1, <2>2, <2>3, <2>4 DEF BusTypeOK
<1>3. OneConnection /\ ConnectedOnce
  BY DEF BusInit, OneConnection, ConnectedOnce
<1>4. Delivered /\ Accounted
  BY <1>1 DEF BusInit, Delivered, Accounted, AcceptedEvents
<1> QED
  BY <1>2, <1>3, <1>4 DEF BusInv

----------------------------------------------------------------------------
(* The connection.                                                          *)

(* While the transport connects or is connected no timer is pending, and     *)
(* RabbitMQ has a consumer only if it is connected.                         *)
LEMMA LinkFacts ==
    ASSUME BusInv
    PROVE  /\ link # "down" => timers = 0
           /\ link # "up" => consumers = {}
           /\ timers \in {0, 1} /\ channel \in 0 .. MaxLinks
<1>1. timers \in {0, 1}
  BY DEF BusInv, BusTypeOK, OneConnection
<1> QED
  BY <1>1 DEF BusInv, BusTypeOK, OneConnection

LEMMA ClosingTypes ==
    ASSUME BusInv, ChannelsClose
    PROVE  /\ place' \in [Events -> Places] /\ on' \in [Events -> 0 .. MaxLinks]
           /\ consumers' = {}
           /\ \A e \in Events : on'[e] = 0
           /\ \A e \in Events : place'[e] = "settled" <=> place[e] = "settled"
           /\ AcceptedEvents' = AcceptedEvents
<1>1. /\ place' = [e \in Events |-> IF place[e] = "unsettled" THEN "queued" ELSE place[e]]
      /\ on' = [e \in Events |-> 0] /\ consumers' = {}
  BY DEF ChannelsClose
<1>2. place \in [Events -> Places] /\ 0 \in 0 .. MaxLinks
  BY BusAssumption DEF BusInv, BusTypeOK
<1>3. \A e \in Events : place'[e] \in Places /\ place'[e] = IF place[e] = "unsettled" THEN "queued" ELSE place[e]
  BY <1>1, <1>2 DEF Places
<1> QED
  BY <1>1, <1>2, <1>3 DEF AcceptedEvents

(* Steps of the transport that close the channels.                          *)
LEMMA ClosingKeeps ==
    ASSUME BusInv, ChannelsClose, handled' = handled,
           running' \subseteq running,
           link' \in Links, channel' = channel, timers' \in {0, 1}, timers' = 1 => link' = "down",
           link' \in {"opening", "up"} => channel' # 0,
           reconnect' \in BOOLEAN, subscribing' \in {"no", "first", "retry"},
           subscribed' \in BOOLEAN, bound' \in BOOLEAN, thrown' = thrown,
           closed' \in BOOLEAN, busFaults' \in 0 .. MaxBusFaults
    PROVE  BusInv'
<1>1. BusTypeOK'
  BY ClosingTypes DEF BusInv, BusTypeOK
<1>2. OneConnection'
  BY ClosingTypes DEF OneConnection
<1>3. Delivered'
  BY ClosingTypes DEF Delivered
<1>4. Accounted'
  BY ClosingTypes DEF BusInv, Accounted
<1> QED
  BY <1>1, <1>2, <1>3, <1>4 DEF BusInv, ConnectedOnce

(* Steps of the transport that leave the channels, of which there are none   *)
(* unless the connection stays up.                                          *)
LEMMA LinkKeeps ==
    ASSUME BusInv, UNCHANGED <<consumers, place, on, running, handled, thrown>>,
           link' \in Links, channel' \in 0 .. MaxLinks, timers' \in {0, 1}, timers' = 1 => link' = "down",
           consumers # {} => link' = "up" /\ channel' = channel,
           link' \in {"opening", "up"} => channel' # 0,
           reconnect' \in BOOLEAN, subscribing' \in {"no", "first", "retry"},
           subscribed' \in BOOLEAN, bound' \in BOOLEAN,
           closed' \in BOOLEAN, busFaults' \in 0 .. MaxBusFaults
    PROVE  BusInv'
<1>1. BusTypeOK'
  BY DEF BusInv, BusTypeOK
<1>2. OneConnection'
  BY DEF BusInv, OneConnection
<1>3. Delivered' /\ Accounted'
  BY DEF BusInv, Delivered, Accounted, AcceptedEvents
<1> QED
  BY <1>1, <1>2, <1>3 DEF BusInv, ConnectedOnce

LEMMA FaultTypes ==
    ASSUME BusInv, Fault
    PROVE  busFaults' \in 0 .. MaxBusFaults
  BY BusAssumption DEF BusInv, BusTypeOK, Fault

LEMMA TransportKeeps ==
    ASSUME BusInv, TransportStep
    PROVE  BusInv'
<1> USE DEF Links
<1>1. CASE Start
  BY <1>1, LinkFacts, LinkKeeps DEF Start, BusInv, BusTypeOK
<1>2. CASE TimerFires
  <2>1. timers' = 0 /\ link = "down"
    BY <1>2, LinkFacts DEF TimerFires
  <2> QED
    BY <1>2, <2>1, LinkFacts, LinkKeeps DEF TimerFires, BusInv, BusTypeOK
<1>3. CASE Connected
  <2>1. channel' \in 0 .. MaxLinks
    BY <1>3, LinkFacts, BusAssumption DEF Connected
  <2> QED
    BY <1>3, <2>1, LinkFacts, LinkKeeps DEF Connected, BusInv, BusTypeOK
<1>4. CASE Opened
  BY <1>4, LinkFacts, LinkKeeps DEF Opened, BusInv, BusTypeOK, ConnectedOnce
<1>5. CASE Subscribed
  <2>1. /\ link = "up" /\ link' = link /\ channel' = channel /\ timers' = timers
        /\ consumers' = consumers \cup {channel}
        /\ UNCHANGED <<place, on, running, handled, thrown, reconnect, subscribed, closed, busFaults>>
        /\ bound' = TRUE /\ subscribing' = "no"
    BY <1>5 DEF Subscribed
  <2>2. channel \in Channels
    BY <2>1 DEF BusInv, ConnectedOnce, Channels, BusTypeOK
  <2>3. BusTypeOK'
    BY <2>1, <2>2 DEF BusInv, BusTypeOK
  <2>4. OneConnection'
    BY <2>1 DEF BusInv, OneConnection
  <2>5. Delivered' /\ Accounted'
    BY <2>1 DEF BusInv, Delivered, Accounted, AcceptedEvents
  <2> QED
    BY <2>1, <2>3, <2>4, <2>5 DEF BusInv, ConnectedOnce
<1> QED
  BY <1>1, <1>2, <1>3, <1>4, <1>5 DEF TransportStep

LEMMA EndKeeps ==
    ASSUME BusInv, ProcessEnds, Fault, UNCHANGED <<channel, bound, handled, thrown>>, closed' \in BOOLEAN
    PROVE  BusInv'
<1>1. /\ link' = "dead" /\ timers' = 0 /\ reconnect' = FALSE /\ subscribing' = "no"
      /\ subscribed' = FALSE /\ running' = {} /\ ChannelsClose
  BY DEF ProcessEnds
<1>2. bound' \in BOOLEAN
  BY DEF BusInv, BusTypeOK
<1>3. reconnect' \in BOOLEAN /\ subscribed' \in BOOLEAN /\ running' \subseteq running
  BY <1>1
<1>4. /\ link' \in Links /\ link' \notin {"opening", "up"}
      /\ subscribing' \in {"no", "first", "retry"} /\ timers' \in {0, 1} /\ timers' # 1
  BY <1>1 DEF Links
<1> QED
  BY <1>1, <1>2, <1>3, <1>4, FaultTypes, ClosingKeeps

LEMMA LossKeeps ==
    ASSUME BusInv, ConnectFails \/ ConnectionLost \/ Disconnect \/ Crash
    PROVE  BusInv'
<1>0. /\ closed \in BOOLEAN /\ reconnect \in BOOLEAN /\ subscribed \in BOOLEAN /\ bound \in BOOLEAN
      /\ subscribing \in {"no", "first", "retry"} /\ busFaults \in 0 .. MaxBusFaults /\ link \in Links
  BY DEF BusInv, BusTypeOK
<1>1. CASE Crash
  BY <1>0, <1>1, EndKeeps DEF Crash
<1>2. CASE ConnectFails
  <2>1. CASE subscribed
    <3>1. /\ link' = "down" /\ timers' \in {0, 1} /\ consumers = {} /\ busFaults' \in 0 .. MaxBusFaults
      BY <1>2, <2>1, LinkFacts, FaultTypes DEF ConnectFails, Restart
    <3>2. UNCHANGED <<reconnect, subscriptionVars, eventVars, channel, closed>>
      BY <1>2, <2>1 DEF ConnectFails
    <3> QED
      BY <1>0, <3>1, <3>2, LinkFacts, LinkKeeps DEF Links
  <2>2. CASE ~subscribed
    BY <1>0, <1>2, <2>2, EndKeeps DEF ConnectFails
  <2> QED
    BY <2>1, <2>2
<1>3. CASE ConnectionLost
  <2>1. CASE subscribing = "first"
    BY <1>0, <1>3, <2>1, EndKeeps DEF ConnectionLost
  <2>2. CASE subscribing # "first"
    <3>1. /\ link' = "down" /\ timers' \in {0, 1} /\ busFaults' \in 0 .. MaxBusFaults
      BY <1>3, <2>2, LinkFacts, FaultTypes DEF ConnectionLost, Restart
    <3>2. /\ ChannelsClose /\ subscribing' = "no"
          /\ UNCHANGED <<reconnect, subscribed, bound, running, handled, thrown, channel, closed>>
      BY <1>3, <2>2 DEF ConnectionLost
    <3> QED
      BY <1>0, <3>1, <3>2, LinkFacts, ClosingKeeps DEF Links
  <2> QED
    BY <2>1, <2>2
<1>4. CASE Disconnect
  <2>0. /\ closed' = TRUE /\ reconnect' = FALSE
        /\ UNCHANGED <<channel, timers, subscribed, bound, running, handled, thrown, busFaults>>
    BY <1>4 DEF Disconnect
  <2>1. CASE link = "up"
    <3>1. link' = "down" /\ subscribing' = "no" /\ ChannelsClose
      BY <1>4, <2>1 DEF Disconnect
    <3> QED
      BY <1>0, <2>0, <3>1, LinkFacts, ClosingKeeps DEF Links
  <2>2. CASE link # "up"
    <3>1. UNCHANGED <<link, subscribing, consumers, place, on>>
      BY <1>4, <2>2 DEF Disconnect
    <3>2. link' \in {"opening", "up"} => channel' # 0
      BY <2>0, <3>1 DEF BusInv, ConnectedOnce
    <3>3. reconnect' \in BOOLEAN /\ closed' \in BOOLEAN /\ subscribed' \in BOOLEAN /\ bound' \in BOOLEAN
      BY <1>0, <2>0
    <3>4. timers' \in {0, 1} /\ (timers' = 1 => link' = "down") /\ channel' \in 0 .. MaxLinks
          /\ consumers = {}
      BY <2>0, <2>2, <3>1, LinkFacts
    <3> QED
      BY <1>0, <2>0, <3>1, <3>2, <3>3, <3>4, LinkKeeps
  <2> QED
    BY <2>1, <2>2
<1> QED
  BY <1>1, <1>2, <1>3, <1>4

----------------------------------------------------------------------------
(* Events.                                                                  *)

LEMMA EventsKeep ==
    ASSUME BusInv, NEW e \in Events,
           Publish(e) \/ PublishThrows(e) \/ Deliver(e) \/ Handle(e) \/ HandlerThrows(e)
    PROVE  BusInv'
<1>0. /\ UNCHANGED <<linkVars, subscriptionVars, closed>>
      /\ busFaults' \in 0 .. MaxBusFaults
  <2>1. UNCHANGED <<linkVars, subscriptionVars, closed>> /\ (UNCHANGED busFaults \/ Fault)
    BY DEF Publish, PublishThrows, Deliver, Handle, HandlerThrows
  <2>2. busFaults \in 0 .. MaxBusFaults
    BY DEF BusInv, BusTypeOK
  <2> QED
    BY <2>1, <2>2, FaultTypes
<1>1. place \in [Events -> Places] /\ on \in [Events -> 0 .. MaxLinks] /\ consumers \subseteq Channels
      /\ running \subseteq Events \X Channels /\ handled \subseteq Events /\ thrown \subseteq Events
      /\ 0 \in 0 .. MaxLinks
  BY BusAssumption DEF BusInv, BusTypeOK
<1>2. OneConnection' /\ ConnectedOnce'
  BY <1>0 DEF BusInv, OneConnection, ConnectedOnce
<1>3. CASE Publish(e) \/ PublishThrows(e)
  <2>1. PICK w \in {"queued", "unrouted", "lost"} :
           place[e] = "new" /\ place' = [place EXCEPT ![e] = w]
    BY <1>3 DEF Publish, PublishThrows
  <2>2. UNCHANGED <<on, running, handled, thrown>>
    BY <1>3 DEF Publish, PublishThrows
  <2>3. place' \in [Events -> Places]
    BY <1>1, <2>1 DEF Places
  <2>4. \A f \in Events : place'[f] = IF f = e THEN w ELSE place[f]
    BY <1>1, <2>1
  <2>5. BusTypeOK'
    BY <1>0, <2>2, <2>3 DEF BusInv, BusTypeOK
  <2>6. Delivered'
    BY <1>0, <2>1, <2>2, <2>4 DEF BusInv, Delivered
  <2>7. AcceptedEvents \subseteq AcceptedEvents'
    BY <2>1, <2>4 DEF AcceptedEvents
  <2>8. Accounted'
    BY <2>2, <2>4, <2>7 DEF BusInv, Accounted
  <2> QED
    BY <1>2, <2>5, <2>6, <2>8 DEF BusInv
<1>4. CASE Deliver(e)
  <2>1. PICK c \in consumers :
          /\ place[e] = "queued" /\ place' = [place EXCEPT ![e] = "unsettled"]
          /\ on' = [on EXCEPT ![e] = c] /\ running' = running \cup {<<e, c>>}
    BY <1>4 DEF Deliver
  <2>2. UNCHANGED <<handled, thrown>>
    BY <1>4 DEF Deliver
  <2>3. /\ \A f \in Events : place'[f] = IF f = e THEN "unsettled" ELSE place[f]
        /\ \A f \in Events : on'[f] = IF f = e THEN c ELSE on[f]
        /\ c \in Channels /\ c \in 0 .. MaxLinks /\ c # 0
    BY <1>1, <2>1, BusAssumption DEF Channels
  <2>4. /\ place' \in [Events -> Places] /\ on' \in [Events -> 0 .. MaxLinks]
        /\ running' \subseteq Events \X Channels
    BY <1>1, <2>1, <2>3 DEF Places
  <2>5. BusTypeOK'
    BY <1>0, <2>2, <2>4 DEF BusInv, BusTypeOK
  <2>6. Delivered'
    BY <1>0, <2>1, <2>3 DEF BusInv, Delivered
  <2>7. AcceptedEvents \subseteq AcceptedEvents' /\ e \in AcceptedEvents'
    BY <2>1, <2>3 DEF AcceptedEvents
  <2>8. Accounted'
    BY <2>1, <2>2, <2>3, <2>7 DEF BusInv, Accounted
  <2> QED
    BY <1>2, <2>5, <2>6, <2>8 DEF BusInv
<1>5. CASE Handle(e)
  <2>1. PICK c \in Channels :
          /\ <<e, c>> \in running /\ running' = running \ {<<e, c>>} /\ handled' = handled \cup {e}
          /\ IF on[e] = c THEN /\ place' = [place EXCEPT ![e] = "settled"]
                               /\ on' = [on EXCEPT ![e] = 0]
                          ELSE UNCHANGED <<place, on>>
    BY <1>5 DEF Handle
  <2>2. thrown' = thrown /\ e \in AcceptedEvents
    BY <1>5, <2>1 DEF Handle, BusInv, Accounted
  <2>3. CASE on[e] = c
    <3>1. /\ \A f \in Events : place'[f] = IF f = e THEN "settled" ELSE place[f]
          /\ \A f \in Events : on'[f] = IF f = e THEN 0 ELSE on[f]
      BY <1>1, <2>1, <2>3
    <3>2. place' \in [Events -> Places] /\ on' \in [Events -> 0 .. MaxLinks]
      BY <1>1, <2>1, <2>3 DEF Places
    <3>3. BusTypeOK'
      BY <1>0, <1>1, <2>1, <2>2, <3>2 DEF BusInv, BusTypeOK
    <3>4. Delivered'
      BY <1>0, <3>1 DEF BusInv, Delivered
    <3>5. AcceptedEvents \subseteq AcceptedEvents' /\ e \in AcceptedEvents'
      BY <3>1 DEF AcceptedEvents
    <3>6. Accounted'
      BY <2>1, <3>1, <3>5 DEF BusInv, Accounted
    <3> QED
      BY <1>2, <3>3, <3>4, <3>6 DEF BusInv
  <2>4. CASE on[e] # c
    <3>1. UNCHANGED <<place, on>>
      BY <2>1, <2>4
    <3>2. BusTypeOK'
      BY <1>0, <1>1, <2>1, <2>2, <3>1 DEF BusInv, BusTypeOK
    <3>3. Delivered'
      BY <1>0, <3>1 DEF BusInv, Delivered
    <3>4. AcceptedEvents' = AcceptedEvents
      BY <3>1 DEF AcceptedEvents
    <3>5. Accounted'
      BY <2>1, <2>2, <3>1, <3>4 DEF BusInv, Accounted
    <3> QED
      BY <1>2, <3>2, <3>3, <3>5 DEF BusInv
  <2> QED
    BY <2>3, <2>4
<1>6. CASE HandlerThrows(e)
  <2>1. running' \subseteq running /\ thrown' = thrown \cup {e} /\ UNCHANGED <<place, on, handled>>
    BY <1>6 DEF HandlerThrows
  <2>2. BusTypeOK'
    BY <1>0, <1>1, <2>1 DEF BusInv, BusTypeOK
  <2>3. Delivered' /\ Accounted'
    BY <1>0, <2>1 DEF BusInv, Delivered, Accounted, AcceptedEvents
  <2> QED
    BY <1>2, <2>2, <2>3 DEF BusInv
<1> QED
  BY <1>3, <1>4, <1>5, <1>6

LEMMA StepBus == BusInv /\ [BusNext]_BusVars => BusInv'
<1> SUFFICES ASSUME BusInv, [BusNext]_BusVars PROVE BusInv'
  OBVIOUS
<1>1. CASE UNCHANGED BusVars
  BY <1>1 DEF BusInv, BusTypeOK, OneConnection, ConnectedOnce, Delivered, Accounted, AcceptedEvents
<1> QED
  BY <1>1, TransportKeeps, LossKeeps, EventsKeep DEF BusNext

LEMMA BusInvHolds == BusSpec => []BusInv
  BY InitBus, StepBus, PTL DEF BusSpec

(* Every variable of the event bus has its type.                            *)
THEOREM BusTypesHold == BusSpec => []BusTypeOK
<1>1. BusInv => BusTypeOK
  BY DEF BusInv
<1> QED
  BY BusInvHolds, <1>1, PTL

(* The transport keeps to one connection with one consumer, however often    *)
(* it is lost, refused, disconnected or restarted.                          *)
THEOREM OneConnectionHolds == BusSpec => []OneConnection
<1>1. BusInv => OneConnection
  BY DEF BusInv
<1> QED
  BY BusInvHolds, <1>1, PTL

(* Only the handler an event was delivered to last settles it.              *)
THEOREM StaleHandlersHold == BusSpec => StaleHandlersSettleNothing
<1> DEFINE Settles == \A e \in Events :
             place[e] # "settled" /\ place'[e] = "settled" =>
                 /\ <<e, on[e]>> \in running
                 /\ on[e] = channel /\ link = "up"
<1>1. BusInv /\ [BusNext]_BusVars => [Settles]_BusVars
  <2> SUFFICES ASSUME BusInv, BusNext, NEW e \in Events, place[e] # "settled", place'[e] = "settled"
               PROVE  <<e, on[e]>> \in running /\ on[e] = channel /\ link = "up"
    BY DEF BusVars
  <2>1. ~UNCHANGED place /\ ~ChannelsClose
    BY ClosingTypes
  <2>2. PICK f \in Events : Publish(f) \/ PublishThrows(f) \/ Deliver(f) \/ Handle(f) \/ HandlerThrows(f)
    BY <2>1 DEF BusNext, TransportStep, Start, TimerFires, Connected, Opened, Subscribed,
       ConnectFails, ConnectionLost, Disconnect, Crash, ProcessEnds
  <2>3. place \in [Events -> Places]
    BY DEF BusInv, BusTypeOK
  <2>4. Handle(f) /\ f = e
    BY <2>1, <2>2, <2>3 DEF Publish, PublishThrows, Deliver, Handle, HandlerThrows
  <2>5. PICK c \in Channels : <<e, c>> \in running /\ on[e] = c
    BY <2>1, <2>4 DEF Handle
  <2>6. c # 0
    BY BusAssumption DEF Channels
  <2>7. on[e] \in consumers
    BY <2>5, <2>6 DEF BusInv, Delivered
  <2> QED
    BY <2>5, <2>7 DEF BusInv, OneConnection
<1> QED
  BY BusInvHolds, <1>1, PTL DEF BusSpec, StaleHandlersSettleNothing

----------------------------------------------------------------------------
(* The promise.                                                             *)

LEMMA StepPromise ==
    ASSUME BusInv, [BusNext]_BusVars
    PROVE  [Promise!Next]_<<Kept, handled>>
<1>0. place \in [Events -> Places]
  BY DEF BusInv, BusTypeOK
<1>1. CASE UNCHANGED place /\ UNCHANGED handled
  BY <1>1 DEF Kept
<1>2. CASE ChannelsClose /\ UNCHANGED handled
  <2>1. Kept' = Kept
    BY <1>0, <1>2 DEF ChannelsClose, Kept
  <2> QED
    BY <1>2, <2>1
<1>3. ASSUME NEW e \in Events, Publish(e) \/ PublishThrows(e)
      PROVE  [Promise!Next]_<<Kept, handled>>
  <2>1. PICK w \in {"queued", "unrouted", "lost"} :
           place[e] = "new" /\ place' = [place EXCEPT ![e] = w]
    BY <1>3 DEF Publish, PublishThrows
  <2>2. handled' = handled
    BY <1>3 DEF Publish, PublishThrows
  <2>3. e \notin Kept \cup handled
    BY <2>1 DEF Kept, BusInv, Accounted, AcceptedEvents
  <2>4. Kept' = IF w = "queued" THEN Kept \cup {e} ELSE Kept
    BY <1>0, <2>1 DEF Kept
  <2>5. CASE w = "queued"
    BY <2>2, <2>3, <2>4, <2>5 DEF Promise!Next, Promise!Accept
  <2> QED
    BY <2>2, <2>4, <2>5
<1>4. ASSUME NEW e \in Events, Deliver(e) \/ HandlerThrows(e)
      PROVE  [Promise!Next]_<<Kept, handled>>
  <2>1. Kept' = Kept /\ handled' = handled
    BY <1>0, <1>4 DEF Deliver, HandlerThrows, Kept
  <2> QED
    BY <2>1
<1>5. ASSUME NEW e \in Events, Handle(e)
      PROVE  [Promise!Next]_<<Kept, handled>>
  <2>1. PICK c \in Channels :
          /\ <<e, c>> \in running /\ handled' = handled \cup {e}
          /\ IF on[e] = c THEN place' = [place EXCEPT ![e] = "settled"] ELSE place' = place
    BY <1>5 DEF Handle
  <2>2. CASE on[e] = c
    <3>1. place[e] = "unsettled"
      BY <2>2, BusAssumption DEF Channels, BusInv, Delivered
    <3>2. e \in Kept /\ Kept' = Kept \ {e}
      BY <1>0, <2>1, <2>2, <3>1 DEF Kept
    <3> QED
      BY <2>1, <3>2 DEF Promise!Next, Promise!Finish
  <2>3. CASE on[e] # c
    <3>1. Kept' = Kept
      BY <2>1, <2>3 DEF Kept
    <3>2. e \in Kept \cup handled
      BY <2>1 DEF Kept, BusInv, Accounted, AcceptedEvents
    <3> QED
      BY <2>1, <3>1, <3>2 DEF Promise!Next, Promise!Serve
  <2> QED
    BY <2>2, <2>3
<1> QED
  BY <1>1, <1>2, <1>3, <1>4, <1>5
     DEF BusNext, TransportStep, Start, TimerFires, Connected, Opened, Subscribed,
         ConnectFails, ConnectionLost, Disconnect, Crash, ProcessEnds

(* The bus implements the at-least-once channel: no event it accepted leaves *)
(* it before a handler of the service has completed it.                     *)
THEOREM BusKeepsItsPromise == BusSpec => DeliversAtLeastOnce
<1>1. BusInit => Promise!Init
  BY DEF BusInit, Promise!Init, Kept
<1> QED
  BY BusInvHolds, StepPromise, <1>1, PTL DEF BusSpec, DeliversAtLeastOnce, Promise!Spec

----------------------------------------------------------------------------
(* The process of a component.                                              *)

InputRec == [at : Whereabouts, work : Works]

(* Inputs that are in messagesCount.                                        *)
Counted == {m \in Inputs : input[m].work \in {"counted", "executing"}}

(* Signals are counted before they are served; nothing is consumed before    *)
(* listenQueue or after its cancellation; what a process left is cleared.   *)
ProcessInv ==
    /\ scheduling <= signals
    /\ proc = "off" => scheduling = 0
    /\ proc \in {"off", "booting"} =>
          /\ ~callback /\ ~consuming
          /\ \A m \in Inputs : input[m].work = "none"
    /\ proc = "booting" => messagesCount = 0
    /\ callback \/ proc = "closing" => ~consuming

(* messagesCount never falls short of the inputs it counts.                 *)
CountInv == IsFiniteSet(Counted) /\ Cardinality(Counted) <= messagesCount

(* An input in preparation is unsettled while the channel is open.          *)
PrefetchInv ==
    /\ IsFiniteSet(Unsettled)
    /\ \A m \in Inputs : input[m].work = "taken" => input[m].at = "unsettled" \/ proc = "closing"
    /\ prefetch = 1 => \A m \in Inputs : input[m].work = "taken" => fields = m

StepInv == StepTypeOK /\ ProcessInv /\ CountInv /\ PrefetchInv /\ NothingIsCutOff /\ OwnFields

LEMMA InitStep == StepInit => StepInv
<1> SUFFICES ASSUME StepInit PROVE StepInv
  OBVIOUS
<1>1. \A m \in Inputs : input[m] = [at |-> "queued", work |-> "none"]
  BY DEF StepInit
<1>2. Counted = {} /\ Unsettled = {}
  BY <1>1 DEF Counted, Unsettled
<1>3. 0 \in 0 .. MaxSignals
  BY StepAssumption
<1>4. StepTypeOK
  <2>1. input \in [Inputs -> InputRec]
    BY DEF StepInit, InputRec, Whereabouts, Works
  <2>2. consuming \in BOOLEAN /\ open \in BOOLEAN /\ callback \in BOOLEAN /\ leaked \in BOOLEAN
    BY DEF StepInit
  <2> QED
    BY <1>3, <2>1, <2>2 DEF StepInit, StepTypeOK, InputRec
<1>5. ProcessInv
  BY <1>1 DEF StepInit, ProcessInv
<1>6. CountInv
  BY <1>2, FS_EmptySet DEF StepInit, CountInv
<1>7. PrefetchInv
  BY <1>1, <1>2, FS_EmptySet DEF StepInit, PrefetchInv
<1>8. NothingIsCutOff /\ OwnFields
  BY DEF StepInit, NothingIsCutOff, OwnFields
<1> QED
  BY <1>4, <1>5, <1>6, <1>7, <1>8 DEF StepInv

LEMMA ProcessFacts ==
    ASSUME StepInv
    PROVE  /\ input \in [Inputs -> InputRec]
           /\ \A m \in Inputs : input[m] \in InputRec /\ input[m].at \in Whereabouts /\ input[m].work \in Works
           /\ messagesCount \in Int /\ scheduling \in Nat /\ signals \in Nat
           /\ scheduling \in 0 .. MaxSignals /\ signals \in 0 .. MaxSignals /\ scheduling <= signals
           /\ consuming \in BOOLEAN /\ open \in BOOLEAN /\ callback \in BOOLEAN /\ leaked \in BOOLEAN
           /\ prefetch \in Prefetches /\ starts \in 0 .. MaxStarts
           /\ fields \in Inputs \cup {None} /\ preparing \subseteq Inputs /\ mixed \subseteq Inputs
           /\ proc \in {"off", "booting", "up", "closing"}
  BY StepAssumption DEF StepInv, StepTypeOK, ProcessInv, InputRec

(* Without a counted input there is none the component has begun.           *)
LEMMA CountZero ==
    ASSUME NEW S, IsFiniteSet(S), Cardinality(S) <= 0
    PROVE  S = {}
  BY FS_CardinalityType, FS_EmptySet

----------------------------------------------------------------------------
(* The process.                                                             *)

(* Steps after which no input is in work.                                   *)
LEMMA NothingInWork ==
    ASSUME StepInv, \A m \in Inputs : input'[m].work = "none", messagesCount' \in Int, messagesCount' >= 0,
           \A m \in Inputs : input'[m].at = "unsettled" => input[m].at = "unsettled"
    PROVE  CountInv' /\ PrefetchInv' /\ NothingIsCutOff'
<1>1. Counted' = {}
  BY DEF Counted
<1>2. CountInv'
  BY <1>1, FS_EmptySet DEF CountInv
<1>3. IsFiniteSet(Unsettled')
  <2>1. Unsettled' \subseteq Unsettled
    BY DEF Unsettled
  <2> QED
    BY <2>1, FS_Subset DEF StepInv, PrefetchInv
<1> QED
  BY <1>2, <1>3 DEF PrefetchInv, NothingIsCutOff

(* Steps that leave the inputs alone.                                       *)
LEMMA InputsLeftAlone ==
    ASSUME StepInv, UNCHANGED <<input, messagesCount, fields, prefetch>>,
           proc = "closing" => proc' = "closing"
    PROVE  CountInv' /\ PrefetchInv'
  BY DEF StepInv, CountInv, PrefetchInv, Counted, Unsettled

LEMMA BootKeeps == ASSUME StepInv, Boot PROVE StepInv'
<1>1. StepTypeOK'
  <2>1. starts' \in 0 .. MaxStarts /\ signals' \in 0 .. MaxSignals
    BY StepAssumption, ProcessFacts DEF Boot
  <2>2. leaked' \in BOOLEAN
    BY DEF Boot
  <2> QED
    BY <2>1, <2>2 DEF Boot, StepInv, StepTypeOK
<1>2. /\ \A m \in Inputs : input'[m].work = "none" /\ input'[m] = input[m]
      /\ scheduling' = 0 /\ ~callback' /\ ~consuming'
  BY DEF Boot, StepInv, ProcessInv
<1>3. ProcessInv'
  BY <1>2 DEF Boot, ProcessInv
<1>4. CountInv' /\ PrefetchInv' /\ NothingIsCutOff'
  BY <1>2, NothingInWork DEF Boot
<1>5. OwnFields'
  BY DEF Boot, OwnFields
<1> QED
  BY <1>1, <1>3, <1>4, <1>5 DEF StepInv

LEMMA ListenKeeps == ASSUME StepInv, Listen PROVE StepInv'
<1>1. StepTypeOK'
  <2>1. consuming' \in BOOLEAN /\ open' \in BOOLEAN
    BY DEF Listen
  <2> QED
    BY <2>1 DEF Listen, StepInv, StepTypeOK
<1>2. ProcessInv'
  BY DEF Listen, StepInv, ProcessInv
<1>3. CountInv' /\ PrefetchInv'
  BY InputsLeftAlone DEF Listen
<1>4. NothingIsCutOff' /\ OwnFields'
  BY DEF Listen, StepInv, NothingIsCutOff, OwnFields
<1> QED
  BY <1>1, <1>2, <1>3, <1>4 DEF StepInv

LEMMA SignalKeeps == ASSUME StepInv, Signal PROVE StepInv'
<1>1. /\ signals' \in 0 .. MaxSignals /\ scheduling' \in 0 .. MaxSignals /\ scheduling' <= signals'
  BY ProcessFacts, StepAssumption DEF Signal
<1>2. StepTypeOK'
  BY <1>1 DEF Signal, StepInv, StepTypeOK
<1>3. ProcessInv'
  BY <1>1 DEF Signal, StepInv, ProcessInv
<1>4. CountInv' /\ PrefetchInv'
  BY InputsLeftAlone DEF Signal
<1>5. NothingIsCutOff' /\ OwnFields'
  BY DEF Signal, StepInv, NothingIsCutOff, OwnFields
<1> QED
  BY <1>2, <1>3, <1>4, <1>5 DEF StepInv

LEMMA CancelKeeps == ASSUME StepInv, ConsumerCancelled PROVE StepInv'
<1>1. /\ scheduling' = scheduling - 1 /\ scheduling' \in 0 .. MaxSignals /\ scheduling' <= signals
      /\ consuming' = FALSE /\ consuming' \in BOOLEAN /\ proc # "off"
      /\ UNCHANGED <<open, prefetch, messagesCount, fields, input, signals, starts, leaked, mixed>>
  <2>1. /\ scheduling > 0 /\ scheduling' = scheduling - 1 /\ consuming' = FALSE /\ proc # "off"
        /\ UNCHANGED <<open, prefetch, messagesCount, fields, input, signals, starts, leaked, mixed>>
    BY DEF ConsumerCancelled
  <2>2. scheduling' \in 0 .. MaxSignals /\ scheduling' <= signals
    <3> HIDE DEF processVars
    <3>1. scheduling \in Int /\ signals \in Int /\ MaxSignals \in Int /\ scheduling <= MaxSignals
      BY ProcessFacts, StepAssumption
    <3> QED
      BY <2>1, <3>1, ProcessFacts
  <2>3. consuming' \in BOOLEAN
    BY <2>1
  <2> QED
    BY <2>1, <2>2, <2>3
<1>2. \/ messagesCount = 0 /\ proc # "closing" /\ Decide /\ callback' = callback
      \/ proc' = proc /\ preparing' = preparing /\ callback' = callback
      \/ proc' = proc /\ preparing' = preparing /\ callback' = TRUE /\ messagesCount # 0
  BY DEF ConsumerCancelled
<1>3. proc' \in {"booting", "up", "closing"} /\ preparing' \subseteq Inputs /\ callback' \in BOOLEAN
  <2>1. proc \in {"booting", "up", "closing"} /\ preparing \subseteq Inputs /\ callback \in BOOLEAN
    BY <1>1, ProcessFacts
  <2>2. InWork("taken") \subseteq Inputs
    BY DEF InWork
  <2>3. callback' \in BOOLEAN
    BY <1>2, <2>1
  <2> QED
    BY <1>2, <2>1, <2>2, <2>3 DEF Decide
<1>4. StepTypeOK'
  BY <1>1, <1>3 DEF StepInv, StepTypeOK
<1>5. ProcessInv'
  BY <1>1, <1>2, <1>3 DEF StepInv, ProcessInv, Decide
<1>6. CountInv' /\ PrefetchInv'
  BY <1>1, <1>2, InputsLeftAlone DEF Decide
<1>7. NothingIsCutOff'
  <2>1. CASE messagesCount = 0 /\ Decide
    <3>1. Counted = {}
      BY <2>1, CountZero DEF StepInv, CountInv
    <3> QED
      BY <1>1, <2>1, <3>1 DEF NothingIsCutOff, Decide, InWork, Counted
  <2>2. CASE proc' = proc /\ preparing' = preparing
    BY <1>1, <2>2 DEF StepInv, NothingIsCutOff
  <2> QED
    BY <1>2, <2>1, <2>2
<1>8. OwnFields'
  BY <1>1 DEF StepInv, OwnFields
<1> QED
  BY <1>4, <1>5, <1>6, <1>7, <1>8 DEF StepInv

LEMMA ReturnedFacts ==
    ASSUME StepInv
    PROVE  \A m \in Inputs : /\ Returned[m].work = input[m].work /\ Returned[m].at # "unsettled"
                             /\ Returned[m] \in InputRec
<1> SUFFICES ASSUME NEW m \in Inputs
             PROVE  Returned[m].work = input[m].work /\ Returned[m].at # "unsettled" /\ Returned[m] \in InputRec
  OBVIOUS
<1>1. Returned[m] = IF input[m].at = "unsettled" THEN [input[m] EXCEPT !.at = "queued"] ELSE input[m]
  BY DEF Returned, Unsettled
<1> QED
  BY <1>1, ProcessFacts DEF InputRec, Whereabouts

LEMMA CloseKeeps == ASSUME StepInv, CloseChannel PROVE StepInv'
<1>1. /\ proc = "closing" /\ input' = Returned /\ consuming' = FALSE /\ open' = FALSE
      /\ UNCHANGED <<proc, scheduling, callback, prefetch, messagesCount, fields, signals, starts,
                     leaked, preparing, mixed>>
  BY DEF CloseChannel
<1>2. \A m \in Inputs : input'[m].work = input[m].work /\ input'[m].at # "unsettled" /\ input'[m] \in InputRec
  BY <1>1, ReturnedFacts
<1>3. StepTypeOK'
  <2>1. input' \in [Inputs -> InputRec]
    BY <1>1, <1>2 DEF Returned
  <2>2. consuming' \in BOOLEAN /\ open' \in BOOLEAN
    BY <1>1
  <2> QED
    BY <1>1, <2>1, <2>2 DEF StepInv, StepTypeOK, InputRec
<1>4. ProcessInv'
  BY <1>1 DEF StepInv, ProcessInv
<1>5. Counted' = Counted /\ Unsettled' = {}
  BY <1>2 DEF Counted, Unsettled
<1>6. CountInv'
  BY <1>1, <1>5 DEF StepInv, CountInv
<1>7. PrefetchInv'
  BY <1>1, <1>2, <1>5, FS_EmptySet DEF StepInv, PrefetchInv
<1>8. NothingIsCutOff' /\ OwnFields'
  BY <1>1, <1>2 DEF StepInv, NothingIsCutOff, OwnFields
<1> QED
  BY <1>3, <1>4, <1>6, <1>7, <1>8 DEF StepInv

LEMMA GoneKeeps == ASSUME StepInv, Gone PROVE StepInv'
<1>1. /\ proc' = "off" /\ consuming' = FALSE /\ open' = FALSE /\ scheduling' = 0 /\ callback' = FALSE
      /\ input' = [m \in Inputs |-> [Returned[m] EXCEPT !.work = "none"]]
      /\ UNCHANGED <<prefetch, messagesCount, fields, signals, starts, leaked, preparing, mixed>>
  BY DEF Gone
<1>2. \A m \in Inputs : input'[m].work = "none" /\ input'[m].at # "unsettled" /\ input'[m] \in InputRec
  BY <1>1, ReturnedFacts DEF InputRec, Works
<1>3. StepTypeOK'
  <2>1. input' \in [Inputs -> InputRec]
    BY <1>1, <1>2
  <2>2. consuming' \in BOOLEAN /\ open' \in BOOLEAN /\ callback' \in BOOLEAN
    BY <1>1
  <2>3. scheduling' \in 0 .. MaxSignals
    BY <1>1, StepAssumption
  <2> QED
    BY <1>1, <2>1, <2>2, <2>3 DEF StepInv, StepTypeOK, InputRec
<1>4. ProcessInv'
  BY <1>1, <1>2, ProcessFacts DEF ProcessInv
<1>5. messagesCount' \in Int /\ messagesCount' >= 0
  BY <1>1, ProcessFacts, FS_CardinalityType DEF StepInv, CountInv
<1>6. CountInv' /\ PrefetchInv' /\ NothingIsCutOff'
  BY <1>2, <1>5, NothingInWork
<1>7. OwnFields'
  BY <1>1 DEF StepInv, OwnFields
<1> QED
  BY <1>3, <1>4, <1>6, <1>7 DEF StepInv

----------------------------------------------------------------------------
(* Inputs.                                                                  *)

LEMMA SettledFacts ==
    ASSUME StepInv, NEW m \in Inputs
    PROVE  /\ Settled(m) \in [Inputs -> InputRec]
           /\ Settled(m)[m].work = "none" /\ (Settled(m)[m].at = "unsettled" => input[m].at = "unsettled")
           /\ \A n \in Inputs : n # m => Settled(m)[n] = input[n]
<1> DEFINE v == [at |-> IF input[m].at = "unsettled" /\ open THEN "settled" ELSE input[m].at, work |-> "none"]
<1>1. v \in InputRec /\ v.work = "none" /\ (v.at = "unsettled" => input[m].at = "unsettled")
  BY ProcessFacts DEF InputRec, Whereabouts, Works
<1>2. Settled(m) = [input EXCEPT ![m] = v]
  BY DEF Settled
<1> HIDE DEF v
<1> QED
  BY <1>1, <1>2, ProcessFacts

(* What the end of processMessage does to the process, given that it counts  *)
(* no fewer inputs than there are.                                          *)
LEMMA FinallyFacts ==
    ASSUME StepInv, NEW count \in Int, Finally(count)
    PROVE  /\ messagesCount' = count
           /\ \/ proc' = proc /\ preparing' = preparing /\ callback' = callback
              \/ callback' = FALSE /\ callback /\ count = 0 /\ proc' = "closing"
                 /\ (IF proc = "closing" THEN preparing' = preparing ELSE preparing' = InWork("taken"))
           /\ proc' \in {"off", "booting", "up", "closing"} /\ preparing' \subseteq Inputs
           /\ callback' \in BOOLEAN
<1>1. /\ messagesCount' = count
      /\ \/ proc' = proc /\ preparing' = preparing /\ callback' = callback
         \/ callback' = FALSE /\ callback /\ count = 0 /\ proc' = "closing"
            /\ (IF proc = "closing" THEN preparing' = preparing ELSE preparing' = InWork("taken"))
  BY DEF Finally, NoneLeft, Decide
<1>2. InWork("taken") \subseteq Inputs
  BY DEF InWork
<1>3. proc \in {"off", "booting", "up", "closing"} /\ preparing \subseteq Inputs /\ callback \in BOOLEAN
  BY ProcessFacts
<1>4. callback' \in BOOLEAN
  BY <1>1, <1>3
<1> QED
  BY <1>1, <1>2, <1>3, <1>4

(* An input m that was in work ends or goes on; the others stay as they are. *)
LEMMA WorkKeeps ==
    ASSUME StepInv, NEW m \in Inputs, input[m].work # "none",
           input' \in [Inputs -> InputRec],
           \A n \in Inputs : n # m => input'[n] = input[n],
           input'[m].work \notin {"taken"},
           input'[m].at = "unsettled" => input[m].at = "unsettled",
           input'[m].work \in {"counted", "executing"} =>
               input[m].work \in {"taken", "counted", "executing"},
           NEW count \in Int, messagesCount' = count,
           IsFiniteSet(Counted'), Cardinality(Counted') <= count,
           \/ proc' = proc /\ preparing' = preparing /\ callback' = callback
           \/ callback' = FALSE /\ callback /\ count = 0 /\ proc' = "closing"
              /\ (IF proc = "closing" THEN preparing' = preparing ELSE preparing' = InWork("taken")),
           proc' \in {"off", "booting", "up", "closing"}, preparing' \subseteq Inputs, callback' \in BOOLEAN,
           UNCHANGED <<consuming, open, scheduling, prefetch, fields, signals, starts>>,
           leaked' \in BOOLEAN, mixed' \subseteq Inputs,
           fields = m \/ input[m].work # "taken" => mixed' = mixed
    PROVE  StepInv'
<1>1. proc \in {"up", "closing"}
  BY ProcessFacts DEF StepInv, ProcessInv
<1>2. StepTypeOK'
  BY DEF StepInv, StepTypeOK, InputRec
<1>3. ProcessInv'
  BY <1>1 DEF StepInv, ProcessInv
<1>4. CountInv'
  BY DEF CountInv
<1>5. \A n \in Inputs : input'[n].work = "taken" => n # m /\ input[n].work = "taken"
  OBVIOUS
<1>6. PrefetchInv'
  <2>1. IsFiniteSet(Unsettled')
    <3>1. Unsettled' \subseteq Unsettled
      BY DEF Unsettled
    <3> QED
      BY <3>1, FS_Subset DEF StepInv, PrefetchInv
  <2>2. proc = "closing" => proc' = "closing"
    OBVIOUS
  <2> QED
    BY <1>5, <2>1, <2>2 DEF StepInv, PrefetchInv
<1>7. NothingIsCutOff'
  <2> SUFFICES ASSUME proc' = "closing", NEW n \in Inputs,
                      input'[n].work \in {"taken", "counted", "executing"}
               PROVE  n \in preparing'
    BY DEF NothingIsCutOff
  <2>1. CASE proc = "closing"
    BY <2>1 DEF StepInv, NothingIsCutOff
  <2>2. CASE proc # "closing"
    <3>1. count = 0 /\ preparing' = InWork("taken")
      BY <2>2
    <3>2. Counted' = {}
      BY <3>1, CountZero
    <3>3. input'[n].work = "taken"
      BY <3>2 DEF Counted
    <3> QED
      BY <1>5, <3>1, <3>3 DEF InWork
  <2> QED
    BY <2>1, <2>2
<1>8. OwnFields'
  BY DEF StepInv, OwnFields, PrefetchInv
<1> QED
  BY <1>2, <1>3, <1>4, <1>6, <1>7, <1>8 DEF StepInv

(* The set of counted inputs after a step that changes m alone.             *)
LEMMA CountedAfter ==
    ASSUME StepInv, NEW m \in Inputs, \A n \in Inputs : n # m => input'[n] = input[n]
    PROVE  LET c == Cardinality(Counted) IN
           /\ IsFiniteSet(Counted')
           /\ c \in Nat /\ c <= messagesCount
           /\ input[m].work \notin {"counted", "executing"} /\ input'[m].work \notin {"counted", "executing"}
                 => Cardinality(Counted') = c
           /\ input[m].work \in {"counted", "executing"} /\ input'[m].work \in {"counted", "executing"}
                 => Cardinality(Counted') = c
           /\ input[m].work \in {"counted", "executing"} /\ input'[m].work \notin {"counted", "executing"}
                 => Cardinality(Counted') = c - 1
           /\ input[m].work \notin {"counted", "executing"} /\ input'[m].work \in {"counted", "executing"}
                 => Cardinality(Counted') = c + 1
<1>1. IsFiniteSet(Counted) /\ Cardinality(Counted) \in Nat /\ Cardinality(Counted) <= messagesCount
  BY FS_CardinalityType DEF StepInv, CountInv
<1>2. CASE /\ input[m].work \notin {"counted", "executing"} /\ input'[m].work \notin {"counted", "executing"}
  <2>1. Counted' = Counted
    BY <1>2 DEF Counted
  <2> QED
    BY <1>1, <1>2, <2>1
<1>3. CASE /\ input[m].work \in {"counted", "executing"} /\ input'[m].work \in {"counted", "executing"}
  <2>1. Counted' = Counted
    BY <1>3 DEF Counted
  <2> QED
    BY <1>1, <1>3, <2>1
<1>4. CASE /\ input[m].work \in {"counted", "executing"} /\ input'[m].work \notin {"counted", "executing"}
  <2>1. Counted' = Counted \ {m} /\ m \in Counted
    BY <1>4 DEF Counted
  <2>2. IsFiniteSet(Counted') /\ Cardinality(Counted') = Cardinality(Counted) - 1
    BY <1>1, <2>1, FS_RemoveElement
  <2> QED
    BY <1>1, <1>4, <2>2
<1>5. CASE /\ input[m].work \notin {"counted", "executing"} /\ input'[m].work \in {"counted", "executing"}
  <2>1. Counted' = Counted \cup {m} /\ m \notin Counted
    BY <1>5 DEF Counted
  <2>2. IsFiniteSet(Counted') /\ Cardinality(Counted') = Cardinality(Counted) + 1
    BY <1>1, <2>1, FS_AddElement
  <2> QED
    BY <1>1, <1>5, <2>2
<1> QED
  BY <1>2, <1>3, <1>4, <1>5

LEMMA BlockKeeps == ASSUME StepInv, NEW m \in Inputs, Block(m) PROVE StepInv'
<1>1. /\ input[m].work = "taken" /\ input' = Settled(m) /\ Finally(messagesCount)
      /\ mixed' = IF fields = m THEN mixed ELSE mixed \cup {m}
      /\ UNCHANGED <<consuming, open, scheduling, prefetch, fields, signals, starts, leaked>>
  BY DEF Block
<1>2. /\ input' \in [Inputs -> InputRec] /\ input'[m].work = "none"
      /\ input'[m].at = "unsettled" => input[m].at = "unsettled"
      /\ \A n \in Inputs : n # m => input'[n] = input[n]
  BY <1>1, SettledFacts
<1>3. IsFiniteSet(Counted') /\ Cardinality(Counted') <= messagesCount
  BY <1>1, <1>2, CountedAfter
<1>4. mixed' \subseteq Inputs /\ leaked' \in BOOLEAN
  BY <1>1, ProcessFacts
<1> QED
  BY <1>1, <1>2, <1>3, <1>4, ProcessFacts, FinallyFacts, WorkKeeps

LEMMA CountKeeps == ASSUME StepInv, NEW m \in Inputs, Count(m) PROVE StepInv'
<1>1. /\ input[m].work = "taken" /\ input' = [input EXCEPT ![m] = [input[m] EXCEPT !.work = "counted"]]
      /\ messagesCount' = messagesCount + 1
      /\ mixed' = IF fields = m THEN mixed ELSE mixed \cup {m}
      /\ UNCHANGED <<processVars, prefetch, fields, signals, starts, leaked, preparing>>
  BY ProcessFacts DEF Count
<1>2. /\ input' \in [Inputs -> InputRec] /\ input'[m].work = "counted"
      /\ input'[m].at = input[m].at
      /\ \A n \in Inputs : n # m => input'[n] = input[n]
  BY <1>1, ProcessFacts DEF InputRec, Works
<1>3. IsFiniteSet(Counted') /\ Cardinality(Counted') <= messagesCount + 1
  BY <1>1, <1>2, CountedAfter, ProcessFacts
<1>4. mixed' \subseteq Inputs /\ leaked' \in BOOLEAN
  BY <1>1, ProcessFacts
<1>5. messagesCount + 1 \in Int
  BY ProcessFacts
<1> QED
  BY <1>1, <1>2, <1>3, <1>4, <1>5, ProcessFacts, WorkKeeps

LEMMA LoadFailsKeeps == ASSUME StepInv, NEW m \in Inputs, LoadFails(m) PROVE StepInv'
<1>1. /\ input[m].work = "counted" /\ input' = Settled(m) /\ Finally(messagesCount) /\ leaked' = TRUE
      /\ UNCHANGED <<consuming, open, scheduling, prefetch, fields, signals, starts, mixed>>
  BY DEF LoadFails
<1>2. /\ input' \in [Inputs -> InputRec] /\ input'[m].work = "none"
      /\ input'[m].at = "unsettled" => input[m].at = "unsettled"
      /\ \A n \in Inputs : n # m => input'[n] = input[n]
  BY <1>1, SettledFacts
<1>3. IsFiniteSet(Counted') /\ Cardinality(Counted') <= messagesCount
  BY <1>1, <1>2, CountedAfter, ProcessFacts
<1>4. mixed' \subseteq Inputs /\ leaked' \in BOOLEAN
  BY <1>1, ProcessFacts
<1> QED
  BY <1>1, <1>2, <1>3, <1>4, ProcessFacts, FinallyFacts, WorkKeeps

LEMMA ExecuteKeeps == ASSUME StepInv, NEW m \in Inputs, Execute(m) PROVE StepInv'
<1>1. /\ input[m].work = "counted" /\ input' = [input EXCEPT ![m] = [input[m] EXCEPT !.work = "executing"]]
      /\ UNCHANGED <<processVars, messagesCount, prefetch, fields, signals, starts, leaked, preparing, mixed>>
  BY ProcessFacts DEF Execute
<1>2. /\ input' \in [Inputs -> InputRec] /\ input'[m].work = "executing"
      /\ input'[m].at = input[m].at
      /\ \A n \in Inputs : n # m => input'[n] = input[n]
  BY <1>1, ProcessFacts DEF InputRec, Works
<1>3. IsFiniteSet(Counted') /\ Cardinality(Counted') <= messagesCount
  BY <1>1, <1>2, CountedAfter, ProcessFacts
<1>4. mixed' \subseteq Inputs /\ leaked' \in BOOLEAN
  BY <1>1, ProcessFacts
<1> QED
  BY <1>1, <1>2, <1>3, <1>4, ProcessFacts, WorkKeeps

LEMMA InputEndKeeps == ASSUME StepInv, NEW m \in Inputs, End(m) PROVE StepInv'
<1>0. /\ UNCHANGED <<consuming, open, scheduling, prefetch, fields, signals, starts, leaked, mixed>>
      /\ mixed' \subseteq Inputs /\ leaked' \in BOOLEAN
  BY ProcessFacts DEF End
<1>1. CASE input[m].work = "executing"
  <2>1. input' = [Settled(m) EXCEPT ![m] = [Settled(m)[m] EXCEPT !.work = "ended"]]
        /\ Finally(messagesCount - 1)
    BY <1>1, SettledFacts DEF End, CountAfterEnd
  <2>2. Settled(m)[m] \in InputRec
    BY SettledFacts
  <2>3. /\ input' \in [Inputs -> InputRec] /\ input'[m].work = "ended"
        /\ input'[m].at = "unsettled" => input[m].at = "unsettled"
        /\ \A n \in Inputs : n # m => input'[n] = input[n]
    BY <2>1, <2>2, SettledFacts DEF InputRec, Works
  <2>4. IsFiniteSet(Counted') /\ Cardinality(Counted') <= messagesCount - 1
    BY <1>1, <2>3, CountedAfter, ProcessFacts
  <2>5. messagesCount - 1 \in Int
    BY ProcessFacts
  <2> QED
    BY <1>0, <1>1, <2>1, <2>3, <2>4, <2>5, FinallyFacts, WorkKeeps
<1>2. CASE input[m].work = "ended"
  <2>1. /\ input' = [input EXCEPT ![m] = [input[m] EXCEPT !.work = "none"]]
        /\ messagesCount' = messagesCount /\ UNCHANGED <<callback, proc, preparing>>
    BY <1>2, ProcessFacts DEF End, CountAfterEnd
  <2>2. /\ input' \in [Inputs -> InputRec] /\ input'[m].work = "none"
        /\ input'[m].at = input[m].at
        /\ \A n \in Inputs : n # m => input'[n] = input[n]
    BY <2>1, ProcessFacts DEF InputRec, Works
  <2>3. IsFiniteSet(Counted') /\ Cardinality(Counted') <= messagesCount
    BY <1>2, <2>2, CountedAfter, ProcessFacts
  <2> QED
    BY <1>0, <1>2, <2>1, <2>2, <2>3, ProcessFacts, WorkKeeps
<1> QED
  BY <1>1, <1>2 DEF End

(* An input is only taken by a process that is up and was not asked to end,  *)
(* so that an early return of processMessage decides nothing.               *)
LEMMA TakeKeeps == ASSUME StepInv, NEW m \in Inputs, Take(m) PROVE StepInv'
<1>1. /\ consuming /\ open /\ input[m].at = "queued" /\ input[m].work = "none"
      /\ Cardinality(Unsettled) < prefetch
      /\ UNCHANGED <<consuming, open, scheduling, prefetch, signals, starts, leaked, mixed>>
  BY DEF Take
<1>2. proc = "up" /\ ~callback
  BY <1>1, ProcessFacts DEF StepInv, ProcessInv
<1>3. UNCHANGED <<messagesCount, callback, proc, preparing>>
  BY <1>2 DEF Take, Finally
<1> DEFINE w == IF m \in Unmarked THEN "none" ELSE "taken"
<1>4. /\ input' = [input EXCEPT ![m] = [at |-> "unsettled", work |-> w]]
      /\ fields' = IF m \in Unmarked THEN fields ELSE m
  <2>1. CASE m \in Unmarked
    <3>1. input' = [input EXCEPT ![m] = [input[m] EXCEPT !.at = "unsettled"]] /\ fields' = fields
      BY <2>1, ProcessFacts DEF Take
    <3>2. [input[m] EXCEPT !.at = "unsettled"] = [at |-> "unsettled", work |-> "none"]
      BY <1>1, ProcessFacts DEF InputRec
    <3> QED
      BY <2>1, <3>1, <3>2
  <2>2. CASE m \notin Unmarked
    BY <2>2 DEF Take
  <2> QED
    BY <2>1, <2>2
<1>5. /\ input' \in [Inputs -> InputRec]
      /\ input'[m].work = w /\ input'[m].at = "unsettled"
      /\ \A n \in Inputs : n # m => input'[n] = input[n]
  BY <1>4, ProcessFacts DEF InputRec, Whereabouts, Works
<1>6. StepTypeOK'
  <2>1. fields' \in Inputs \cup {None}
    BY <1>4, ProcessFacts
  <2> QED
    BY <1>1, <1>3, <1>5, <2>1 DEF StepInv, StepTypeOK, InputRec
<1>7. ProcessInv'
  BY <1>1, <1>2, <1>3 DEF StepInv, ProcessInv
<1>8. CountInv'
  BY <1>1, <1>3, <1>5, CountedAfter DEF CountInv
<1>9. PrefetchInv'
  <2>1. IsFiniteSet(Unsettled) /\ Unsettled' = Unsettled \cup {m}
    BY <1>5 DEF StepInv, PrefetchInv, Unsettled
  <2>2. IsFiniteSet(Unsettled')
    BY <2>1, FS_AddElement
  <2>3. ASSUME prefetch = 1 PROVE \A n \in Inputs : n # m => input[n].work # "taken"
    <3>1. Unsettled = {}
      BY <1>1, <2>1, <2>3, FS_CardinalityType, FS_EmptySet
    <3> QED
      BY <1>2, <3>1 DEF StepInv, PrefetchInv, Unsettled
  <2>4. ASSUME NEW n \in Inputs, input'[n].work = "taken"
        PROVE  input'[n].at = "unsettled" \/ proc' = "closing"
    BY <1>2, <1>5, <2>4 DEF StepInv, PrefetchInv
  <2>5. ASSUME prefetch' = 1, NEW n \in Inputs, input'[n].work = "taken"
        PROVE  fields' = n
    <3>1. n = m
      BY <1>1, <1>5, <2>3, <2>5
    <3>2. m \notin Unmarked
      BY <1>5, <2>5, <3>1
    <3> QED
      BY <1>4, <3>1, <3>2
  <2> QED
    BY <2>2, <2>4, <2>5 DEF PrefetchInv
<1>10. NothingIsCutOff' /\ OwnFields'
  BY <1>1, <1>2, <1>3 DEF StepInv, NothingIsCutOff, OwnFields
<1> QED
  BY <1>6, <1>7, <1>8, <1>9, <1>10 DEF StepInv

----------------------------------------------------------------------------

LEMMA StepKeeps == StepInv /\ [StepNext]_StepVars => StepInv'
<1> SUFFICES ASSUME StepInv, [StepNext]_StepVars PROVE StepInv'
  OBVIOUS
<1>1. CASE Boot
  BY <1>1, BootKeeps
<1>2. CASE Signal
  BY <1>2, SignalKeeps
<1>3. CASE Kill
  BY <1>3, GoneKeeps DEF Kill
<1>4. CASE ShutdownStep
  BY <1>4, ListenKeeps, CancelKeeps, CloseKeeps, GoneKeeps DEF ShutdownStep, Exit
<1>5. ASSUME NEW m \in Inputs, Take(m) PROVE StepInv'
  BY <1>5, TakeKeeps
<1>6. ASSUME NEW m \in Inputs, Proceed(m) PROVE StepInv'
  BY <1>6, BlockKeeps, CountKeeps, LoadFailsKeeps, ExecuteKeeps, InputEndKeeps DEF Proceed
<1>7. CASE UNCHANGED StepVars
  BY <1>7 DEF StepInv, StepTypeOK, ProcessInv, CountInv, PrefetchInv, NothingIsCutOff, OwnFields,
              Counted, Unsettled, InWork
<1> QED
  BY <1>1, <1>2, <1>3, <1>4, <1>5, <1>6, <1>7 DEF StepNext

LEMMA StepInvHolds == StepSpec => []StepInv
  BY InitStep, StepKeeps, PTL DEF StepSpec

(* The process and its inputs keep their types, and Ferryman.messagesCount,   *)
(* which the code adds to and subtracts from unchecked, is never negative:   *)
(* only counted inputs are subtracted, each of them once.                    *)
THEOREM StepTypesHold == StepSpec => [](StepTypeOK /\ messagesCount >= 0)
<1>1. StepInv => StepTypeOK /\ messagesCount >= 0
  <2> SUFFICES ASSUME StepInv PROVE StepTypeOK /\ messagesCount >= 0
    OBVIOUS
  <2>1. StepTypeOK /\ messagesCount \in Int
    BY DEF StepInv, StepTypeOK
  <2>2. Cardinality(Counted) \in Nat /\ Cardinality(Counted) <= messagesCount
    BY FS_CardinalityType DEF StepInv, CountInv
  <2> QED
    BY <2>1, <2>2
<1> QED
  BY <1>1, StepInvHolds, PTL

(* runGlobal.js and Ferryman.scheduleShutdown: whatever inputs, signals and   *)
(* restarts, a shutdown that was decided cuts off nothing that was counted.  *)
THEOREM NothingIsCutOffHolds == StepSpec => []NothingIsCutOff
<1>1. StepInv => NothingIsCutOff
  BY DEF StepInv
<1> QED
  BY <1>1, StepInvHolds, PTL

(* Ferryman.processMessage: while the prefetch is 1, every input is prepared  *)
(* with the fields of its own token.                                        *)
THEOREM OwnFieldsHolds == StepSpec => []OwnFields
<1>1. StepInv => OwnFields
  BY DEF StepInv
<1> QED
  BY <1>1, StepInvHolds, PTL

----------------------------------------------------------------------------
(* The queue of the component.                                              *)

HandStep == [Queue!Next]_(Queue!vars)
Wheres ==
    /\ \A m : m \in Rest("queued") <=> m \in Inputs /\ input[m].at = "queued"
    /\ \A m : m \in Rest("settled") <=> m \in Inputs /\ input[m].at = "settled"
    /\ \A m : m \in Unsettled <=> m \in Inputs /\ input[m].at = "unsettled"

LEMMA WheresHold == Wheres
  BY DEF Wheres, Rest, Unsettled

LEMMA WheresHoldNext == Wheres'
  BY DEF Wheres, Rest, Unsettled

(* A step that leaves every input where it is.                              *)
LEMMA HandRests ==
    ASSUME UNCHANGED prefetch, \A m \in Inputs : input'[m].at = input[m].at
    PROVE  HandStep
<1>1. Rest("queued")' = Rest("queued")
  <2>1. \A m : m \in Rest("queued")' <=> m \in Rest("queued")
    BY WheresHold, WheresHoldNext DEF Wheres
  <2> QED
    BY <2>1
<1>2. Rest("settled")' = Rest("settled")
  <2>1. \A m : m \in Rest("settled")' <=> m \in Rest("settled")
    BY WheresHold, WheresHoldNext DEF Wheres
  <2> QED
    BY <2>1
<1>3. Unsettled' = Unsettled
  <2>1. \A m : m \in Unsettled' <=> m \in Unsettled
    BY WheresHold, WheresHoldNext DEF Wheres
  <2> QED
    BY <2>1
<1> HIDE DEF Rest, Unsettled
<1> QED
  BY <1>1, <1>2, <1>3 DEF HandStep, Queue!vars

LEMMA HandTakes ==
    ASSUME StepInv, NEW m \in Inputs, Take(m)
    PROVE  HandStep
<1>1. input[m].at = "queued" /\ Cardinality(Unsettled) < prefetch /\ UNCHANGED prefetch
  BY DEF Take
<1>2. input'[m].at = "unsettled" /\ \A n \in Inputs : n # m => input'[n].at = input[n].at
  BY ProcessFacts DEF Take, InputRec
<1>3. Rest("queued")' = Rest("queued") \ {m}
  <2>1. \A n : n \in Rest("queued")' <=> n \in Rest("queued") /\ n # m
    BY <1>1, <1>2, WheresHold, WheresHoldNext DEF Wheres
  <2> QED
    BY <2>1
<1>4. Rest("settled")' = Rest("settled")
  <2>1. \A n : n \in Rest("settled")' <=> n \in Rest("settled")
    BY <1>1, <1>2, WheresHold, WheresHoldNext DEF Wheres
  <2> QED
    BY <2>1
<1>5. Unsettled' = Unsettled \cup {m}
  <2>1. \A n : n \in Unsettled' <=> n \in Unsettled \/ n = m
    BY <1>1, <1>2, WheresHold, WheresHoldNext DEF Wheres
  <2> QED
    BY <2>1
<1>6. m \in Rest("queued")
  BY <1>1, WheresHold DEF Wheres
<1> HIDE DEF Rest, Unsettled
<1>7. Queue!Take(m)
  BY <1>1, <1>3, <1>4, <1>5, <1>6 DEF Queue!Take, Queue!Cardinality, Cardinality
<1> QED
  BY <1>7 DEF HandStep, Queue!Next

(* Settling is heard only while the input's channel is open.                *)
LEMMA HandSettles ==
    ASSUME StepInv, NEW m \in Inputs, UNCHANGED prefetch,
           input' = Settled(m) \/ input' = [Settled(m) EXCEPT ![m].work = "ended"]
    PROVE  HandStep
<1>1. /\ Settled(m) \in [Inputs -> InputRec]
      /\ \A n \in Inputs : n # m => Settled(m)[n] = input[n]
  BY SettledFacts
<1>2. Settled(m)[m].at = IF input[m].at = "unsettled" /\ open THEN "settled" ELSE input[m].at
  BY ProcessFacts DEF Settled
<1> HIDE DEF Settled
<1>3. /\ input'[m].at = Settled(m)[m].at
      /\ \A n \in Inputs : n # m => input'[n].at = input[n].at
  BY <1>1 DEF InputRec
<1>4. CASE ~(input[m].at = "unsettled" /\ open)
  BY <1>2, <1>3, <1>4, HandRests
<1>5. CASE input[m].at = "unsettled" /\ open
  <2>1. input'[m].at = "settled"
    BY <1>2, <1>3, <1>5
  <2>2. Rest("queued")' = Rest("queued")
    <3>1. \A n : n \in Rest("queued")' <=> n \in Rest("queued")
      BY <1>3, <1>5, <2>1, WheresHold, WheresHoldNext DEF Wheres
    <3> QED
      BY <3>1
  <2>3. Rest("settled")' = Rest("settled") \cup {m}
    <3>1. \A n : n \in Rest("settled")' <=> n \in Rest("settled") \/ n = m
      BY <1>3, <1>5, <2>1, WheresHold, WheresHoldNext DEF Wheres
    <3> QED
      BY <3>1
  <2>4. Unsettled' = Unsettled \ {m}
    <3>1. \A n : n \in Unsettled' <=> n \in Unsettled /\ n # m
      BY <1>3, <1>5, <2>1, WheresHold, WheresHoldNext DEF Wheres
    <3> QED
      BY <3>1
  <2>5. m \in Unsettled
    BY <1>5, WheresHold DEF Wheres
  <2> HIDE DEF Rest, Unsettled
  <2>6. Queue!Settle(m)
    BY <2>2, <2>3, <2>4, <2>5 DEF Queue!Settle
  <2> QED
    BY <2>6 DEF HandStep, Queue!Next
<1> QED
  BY <1>4, <1>5

(* The channel is closed, or lost with its process.                         *)
LEMMA HandGivesBack ==
    ASSUME StepInv, CloseChannel \/ Gone
    PROVE  HandStep
<1>1. UNCHANGED prefetch /\ \A m \in Inputs : input'[m].at = Returned[m].at
  <2>1. Returned \in [Inputs -> InputRec]
    BY ReturnedFacts DEF Returned
  <2> HIDE DEF Returned
  <2> QED
    BY <2>1, ReturnedFacts DEF CloseChannel, Gone, InputRec
<1>2. \A m \in Inputs : Returned[m].at = IF input[m].at = "unsettled" THEN "queued" ELSE input[m].at
  BY ProcessFacts DEF Returned, Unsettled, InputRec
<1>3. \A m \in Inputs : input'[m].at = IF input[m].at = "unsettled" THEN "queued" ELSE input[m].at
  BY <1>1, <1>2
<1>4. Rest("queued")' = Rest("queued") \cup Unsettled
  <2>1. \A n : n \in Rest("queued")' <=> n \in Rest("queued") \/ n \in Unsettled
    BY <1>3, WheresHold, WheresHoldNext DEF Wheres
  <2> QED
    BY <2>1
<1>5. Rest("settled")' = Rest("settled")
  <2>1. \A n : n \in Rest("settled")' <=> n \in Rest("settled")
    BY <1>3, WheresHold, WheresHoldNext DEF Wheres
  <2> QED
    BY <2>1
<1>6. Unsettled' = {}
  <2>1. \A n : n \notin Unsettled'
    BY <1>3, WheresHoldNext DEF Wheres
  <2> QED
    BY <2>1
<1> HIDE DEF Rest, Unsettled
<1>7. Queue!GiveBack
  BY <1>1, <1>4, <1>5, <1>6 DEF Queue!GiveBack, Queue!Enqueue
<1> QED
  BY <1>7 DEF HandStep, Queue!Next

LEMMA HandSteps == StepInv /\ [StepNext]_StepVars => HandStep
<1> SUFFICES ASSUME StepInv, [StepNext]_StepVars PROVE HandStep
  OBVIOUS
<1>1. CASE UNCHANGED <<prefetch, input>>
  BY <1>1, HandRests
<1>2. CASE CloseChannel \/ Exit \/ Kill
  BY <1>2, HandGivesBack DEF Exit, Kill
<1>3. ASSUME NEW m \in Inputs, Take(m) PROVE HandStep
  BY <1>3, HandTakes
<1>4. ASSUME NEW m \in Inputs, Block(m) \/ LoadFails(m) PROVE HandStep
  BY <1>4, HandSettles DEF Block, LoadFails
<1>5. ASSUME NEW m \in Inputs, Count(m) \/ Execute(m) PROVE HandStep
  <2>1. UNCHANGED prefetch /\ \E w : input' = [input EXCEPT ![m].work = w]
    BY <1>5 DEF Count, Execute
  <2>2. \A n \in Inputs : input'[n].at = input[n].at
    BY <2>1, ProcessFacts DEF InputRec
  <2> QED
    BY <2>1, <2>2, HandRests
<1>6. ASSUME NEW m \in Inputs, End(m) PROVE HandStep
  <2>1. UNCHANGED prefetch
    BY <1>6 DEF End
  <2>2. CASE input' = [Settled(m) EXCEPT ![m].work = "ended"]
    BY <2>1, <2>2, HandSettles
  <2>3. CASE input' = [input EXCEPT ![m].work = "none"]
    <3>1. \A n \in Inputs : input'[n].at = input[n].at
      BY <2>3, ProcessFacts DEF InputRec
    <3> QED
      BY <2>1, <3>1, HandRests
  <2> QED
    BY <1>6, <2>2, <2>3 DEF End
<1>7. \/ UNCHANGED <<prefetch, input>>
      \/ CloseChannel \/ Exit \/ Kill
      \/ \E m \in Inputs : Take(m) \/ Block(m) \/ LoadFails(m) \/ Count(m) \/ Execute(m) \/ End(m)
  BY DEF StepNext, ShutdownStep, Boot, Signal, Listen, ConsumerCancelled, Proceed
<1> QED
  BY <1>1, <1>2, <1>3, <1>4, <1>5, <1>6, <1>7

(* Ferryman.processMessage and runGlobal.js: across shutdowns, kills and      *)
(* restarts, inputs leave their queue as InputQueue says, the abstract queue *)
(* that FlowExecution implements from the other end.                        *)
THEOREM InputsAreHandedOverHolds == StepSpec => InputsAreHandedOver
<1>1. StepInit => Queue!Init
  <2> SUFFICES ASSUME StepInit PROVE Queue!Init
    OBVIOUS
  <2>1. \A m \in Inputs : input[m].at = "queued"
    BY DEF StepInit
  <2>2. Unsettled = {} /\ Rest("settled") = {} /\ Rest("queued") \subseteq Inputs
    BY <2>1, WheresHold DEF Wheres
  <2>3. prefetch \in Nat
    BY StepAssumption DEF StepInit
  <2> HIDE DEF Unsettled, Rest
  <2> QED
    BY <2>2, <2>3 DEF Queue!Init
<1>2. StepInv /\ [StepNext]_StepVars => [Queue!Next]_(Queue!vars)
  BY HandSteps DEF HandStep
<1> QED
  BY <1>1, <1>2, StepInvHolds, PTL DEF StepSpec, InputsAreHandedOver, Queue!Spec
=============================================================================
