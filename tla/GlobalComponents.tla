--------------------------- MODULE GlobalComponents ---------------------------
(***************************************************************************)
(* A global component is deployed once and shared by the flows that use it. *)
(* An administrator starts and stops it through the component repository,   *)
(* which publishes an event and keeps a flag; the orchestrator's handlers   *)
(* of these events create or delete its queue, its RabbitMQ user, the       *)
(* stored credential, the Kubernetes secret and the deployment, one call    *)
(* after the other.  The loop does the same start for a flow that uses the  *)
(* component and does not find it among the apps.                          *)
(*                                                                         *)
(* Storing a credential or a secret first looks whether there is one: the   *)
(* two are a step, a conflict is one of the failing calls.                 *)
(*                                                                         *)
(* Global components have nothing in common but the restart of all, which   *)
(* treats them one by one: the model follows one.  The REST service of a    *)
(* component and the events component.started and .stopped, which nobody    *)
(* reads, are left out.                                                    *)
(***************************************************************************)
EXTENDS Naturals, Sequences, FiniteSets

CONSTANTS
    Admins,          \* requests of administrators
    Wishes,          \* what they may ask for: kinds of the requests
    UserFlows,       \* flows that may use the component
    Passwords,       \* passwords to choose from; enough for all at work
    MaxOrders,       \* bound: events on the bus
    MaxGlobalFaults  \* bound: failing calls, lost requests and crashes

ASSUME GlobalAssumption ==
    /\ Wishes \subseteq [Admins -> {"start", "stop", "restart"}]
    /\ MaxOrders \in Nat /\ MaxGlobalFaults \in Nat
    /\ UserFlows \cap (1 .. MaxOrders) = {} /\ IsFiniteSet(UserFlows)
    /\ 0 \notin Passwords
    /\ IsFiniteSet(Passwords) => Cardinality(Passwords) > MaxOrders + Cardinality(UserFlows) + 3

VARIABLES
    active,          \* flag of the component in the repository
    admin,           \* admin[a]: kind and progress of a request
    orders,          \* component.starting and component.stopping, as published
    users,           \* users[f]: status of a flow that uses it
    errand,          \* errand[w]: progress of the handler of order or flow w
    globalQueue,     \* its queue exists
    brokerPassword,  \* password of its RabbitMQ user
    keptPassword,    \* the stored credential
    podSecret,       \* password in its Kubernetes secret
    deployment,      \* it is deployed
    overlapped,      \* history: two errands overlapped
    halfStopped,     \* history: a stop failed half way
    globalFaults

adminVars == <<active, admin>>
clusterState == <<globalQueue, brokerPassword, keptPassword, podSecret, deployment>>
GlobalVars == <<adminVars, orders, users, errand, clusterState, overlapped, halfStopped, globalFaults>>

NoPassword == 0
PasswordOrNone == Passwords \cup {NoPassword}
Workers == (1 .. MaxOrders) \cup UserFlows
StartSteps == {"queue", "credential", "user", "keep", "secret", "deploy"}
StopSteps == {"dropQueue", "dropUser", "forget", "dropApp", "dropSecret"}

(* password: the one in hand.                                              *)
Errand == [pc : {"none"} \cup StartSteps \cup StopSteps, password : PasswordOrNone]
Resting == [pc |-> "none", password |-> NoPassword]

(* absent: not recorded, or stopping.  ready: the loop has started all that *)
(* the flow needs.  stale: preparing by a process that is gone.             *)
UserStatuses == {"absent", "starting", "preparing", "ready", "started", "stale"}

(* whole: the payload is the document of the component, not its _id alone.  *)
Orders == [kind : {"start", "stop"}, whole : BOOLEAN, at : {"queued", "work", "settled"}]

GlobalTypeOK ==
    /\ active \in BOOLEAN
    /\ admin \in [Admins -> [kind : {"start", "stop", "restart"},
                             pc : {"new", "published", "stopped", "again", "done"}]]
    /\ orders \in Seq(Orders) /\ Len(orders) <= MaxOrders
    /\ users \in [UserFlows -> UserStatuses]
    /\ errand \in [Workers -> Errand]
    /\ globalQueue \in BOOLEAN /\ deployment \in BOOLEAN
    /\ brokerPassword \in PasswordOrNone /\ keptPassword \in PasswordOrNone /\ podSecret \in PasswordOrNone
    /\ overlapped \in BOOLEAN /\ halfStopped \in BOOLEAN
    /\ globalFaults \in 0 .. MaxGlobalFaults

GlobalInit ==
    /\ active = FALSE
    /\ admin \in {[a \in Admins |-> [kind |-> wish[a], pc |-> "new"]] : wish \in Wishes}
    /\ orders = <<>> /\ users = [f \in UserFlows |-> "absent"] /\ errand = [w \in Workers |-> Resting]
    /\ globalQueue = FALSE /\ deployment = FALSE
    /\ brokerPassword = NoPassword /\ keptPassword = NoPassword /\ podSecret = NoPassword
    /\ overlapped = FALSE /\ halfStopped = FALSE /\ globalFaults = 0

GlobalFault == globalFaults < MaxGlobalFaults /\ globalFaults' = globalFaults + 1

----------------------------------------------------------------------------
(* The component repository.                                               *)

Order(kind, whole) ==
    /\ Len(orders) < MaxOrders
    /\ orders' = Append(orders, [kind |-> kind, whole |-> whole, at |-> "queued"])

(* A publish that fails is logged.  A start and a stop set the flag all the *)
(* same, a restart does not.                                               *)
PublishOrder(a, kind, whole, pc, pcAfterError) ==
    \/ /\ Order(kind, whole)
       /\ admin' = [admin EXCEPT ![a].pc = pc]
       /\ UNCHANGED globalFaults
    \/ /\ GlobalFault
       /\ admin' = [admin EXCEPT ![a].pc = pcAfterError]
       /\ UNCHANGED orders

(* The restart sends the _id of the component, first to stop it.  Its start *)
(* follows after a delay.                                                  *)
AdminPublishes(a) ==
    /\ \/ admin[a].pc = "new" /\ admin[a].kind # "restart"
          /\ PublishOrder(a, admin[a].kind, TRUE, "published", "published")
       \/ admin[a].pc = "new" /\ admin[a].kind = "restart" /\ active
          /\ PublishOrder(a, "stop", FALSE, "published", "stopped")
       \/ admin[a].pc = "stopped"
          /\ PublishOrder(a, "start", FALSE, "again", "done")
    /\ UNCHANGED <<active, users, errand, clusterState, overlapped, halfStopped>>

AdminSetsFlag(a) ==
    /\ \/ /\ admin[a].pc = "published"
          /\ active' = (admin[a].kind = "start")
          /\ admin' = [admin EXCEPT ![a].pc = IF admin[a].kind = "restart" THEN "stopped" ELSE "done"]
       \/ /\ admin[a].pc = "again"
          /\ active' = TRUE
          /\ admin' = [admin EXCEPT ![a].pc = "done"]
    /\ UNCHANGED <<orders, users, errand, clusterState, overlapped, halfStopped, globalFaults>>

(* The repository stops before a request is through, or the flag cannot be  *)
(* set: that is logged, and a restart goes on to its start.                 *)
AdminIsCut(a) ==
    /\ GlobalFault
    /\ \/ /\ admin[a].pc \in {"published", "stopped", "again"}
          /\ admin' = [admin EXCEPT ![a].pc = "done"]
       \/ /\ admin[a].pc = "published" /\ admin[a].kind = "restart"
          /\ admin' = [admin EXCEPT ![a].pc = "stopped"]
    /\ UNCHANGED <<active, orders, users, errand, clusterState, overlapped, halfStopped>>

----------------------------------------------------------------------------
(* The orchestrator: who begins an errand.                                 *)

(* flow.starting; that of a flow which the loop has in hand is left to      *)
(* FlowLifecycle.                                                          *)
FlowAppears(f) ==
    /\ users[f] \in {"absent", "stale"} /\ errand[f].pc = "none"
    /\ users' = [users EXCEPT ![f] = "starting"]
    /\ UNCHANGED <<adminVars, orders, errand, clusterState, overlapped, halfStopped, globalFaults>>
FlowLeaves(f) ==
    /\ users[f] # "absent"
    /\ users' = [users EXCEPT ![f] = "absent"]
    /\ UNCHANGED <<adminVars, orders, errand, clusterState, overlapped, halfStopped, globalFaults>>

Begin(w, pc) ==
    /\ errand[w].pc = "none"
    /\ errand' = [errand EXCEPT ![w].pc = pc]
    /\ overlapped' = (overlapped \/ \E v \in Workers : errand[v].pc # "none")

TakeOrder(i) ==
    /\ orders[i].at = "queued" /\ \A j \in 1 .. i - 1 : orders[j].at # "queued"
    /\ orders' = [orders EXCEPT ![i].at = "work"]
    /\ Begin(i, IF orders[i].kind = "start" THEN "queue" ELSE "dropQueue")
    /\ UNCHANGED <<adminVars, users, clusterState, halfStopped, globalFaults>>

(* _handleFlowState: at most one per flow at a time.  A flow that another   *)
(* process is preparing is passed over before its components are looked at. *)
LoopStarts(f) ==
    /\ users[f] \in {"starting", "preparing", "started"} /\ ~deployment
    /\ Begin(f, "queue")
    /\ users' = [users EXCEPT ![f] = IF @ = "starting" THEN "preparing" ELSE @]
    /\ UNCHANGED <<adminVars, orders, clusterState, halfStopped, globalFaults>>

(* The component is there: the flow is taken, and then has started.         *)
LoopPasses(f) ==
    /\ errand[f].pc = "none"
    /\ \/ users[f] = "starting" /\ deployment /\ users' = [users EXCEPT ![f] = "preparing"]
       \/ users[f] = "preparing" /\ deployment /\ users' = [users EXCEPT ![f] = "started"]
       \/ users[f] = "ready" /\ users' = [users EXCEPT ![f] = "started"]
    /\ UNCHANGED <<adminVars, orders, errand, clusterState, overlapped, halfStopped, globalFaults>>

----------------------------------------------------------------------------
(* The steps of an errand.                                                 *)

Goes(w, pc) == errand' = [errand EXCEPT ![w].pc = pc] /\ UNCHANGED orders

(* It ends, well or by an error: an event is acknowledged or nacked without *)
(* requeue, the flow is not in process any more.                           *)
Ends(w) ==
    /\ errand' = [errand EXCEPT ![w] = Resting]
    /\ orders' = IF w \in DOMAIN orders THEN [orders EXCEPT ![w].at = "settled"] ELSE orders

(* The deployment of a component whose isGlobal is missing throws.          *)
Deployable(w) == w \in DOMAIN orders => orders[w].whole

InUse == {brokerPassword, keptPassword, podSecret} \cup {errand[w].password : w \in Workers}
FreshPassword == CHOOSE p \in Passwords : p \notin InUse

StartComponent(w) ==
    /\ \/ /\ errand[w].pc = "queue" /\ Goes(w, "credential")
          /\ globalQueue' = TRUE
          /\ UNCHANGED <<brokerPassword, keptPassword, podSecret, deployment>>
       \/ /\ errand[w].pc = "credential"
          /\ errand' = [errand EXCEPT ![w] = [pc |-> IF keptPassword = NoPassword THEN "user" ELSE "secret",
                                              password |-> keptPassword]]
          /\ UNCHANGED <<orders, clusterState>>
       \/ /\ errand[w].pc = "user"
          /\ brokerPassword' = FreshPassword
          /\ errand' = [errand EXCEPT ![w].pc = "keep", ![w].password = FreshPassword]
          /\ UNCHANGED <<orders, globalQueue, keptPassword, podSecret, deployment>>
       \/ /\ errand[w].pc = "keep" /\ Goes(w, "secret")
          /\ keptPassword' = errand[w].password
          /\ UNCHANGED <<globalQueue, brokerPassword, podSecret, deployment>>
       \/ /\ errand[w].pc = "secret" /\ ~Deployable(w) /\ Ends(w)
          /\ UNCHANGED clusterState
       \/ /\ errand[w].pc = "secret" /\ Deployable(w) /\ Goes(w, "deploy")
          /\ podSecret' = errand[w].password
          /\ UNCHANGED <<globalQueue, brokerPassword, keptPassword, deployment>>
       \/ /\ errand[w].pc = "deploy" /\ Ends(w)
          /\ deployment' = TRUE
          /\ UNCHANGED <<globalQueue, brokerPassword, keptPassword, podSecret>>
    /\ users' = [f \in UserFlows |-> IF f = w /\ users[f] = "preparing" /\ errand[w].pc = "deploy"
                                      THEN "ready" ELSE users[f]]
    /\ UNCHANGED <<adminVars, overlapped, halfStopped, globalFaults>>

(* Slip: the stored credential outlives the user it is for.                 *)
ForgottenNot == keptPassword
Forgotten == NoPassword

StopComponent(w) ==
    /\ \/ /\ errand[w].pc = "dropQueue" /\ Goes(w, "dropUser")
          /\ globalQueue' = FALSE
          /\ UNCHANGED <<brokerPassword, keptPassword, podSecret, deployment>>
       \/ /\ errand[w].pc = "dropUser" /\ Goes(w, "forget")
          /\ brokerPassword' = NoPassword
          /\ UNCHANGED <<globalQueue, keptPassword, podSecret, deployment>>
       \/ /\ errand[w].pc = "forget" /\ Goes(w, "dropApp")
          /\ keptPassword' = Forgotten
          /\ UNCHANGED <<globalQueue, brokerPassword, podSecret, deployment>>
       \/ /\ errand[w].pc = "dropApp" /\ Goes(w, "dropSecret")
          /\ deployment' = FALSE
          /\ UNCHANGED <<globalQueue, brokerPassword, keptPassword, podSecret>>
       \/ /\ errand[w].pc = "dropSecret" /\ Ends(w)
          /\ podSecret' = NoPassword
          /\ UNCHANGED <<globalQueue, brokerPassword, keptPassword, deployment>>
    /\ UNCHANGED <<adminVars, users, overlapped, halfStopped, globalFaults>>

(* Slip: a flow whose start of the component failed stays in process.       *)
ErrandFailsForGood(w) ==
    /\ errand[w].pc # "none" /\ GlobalFault
    /\ errand' = [errand EXCEPT ![w].pc = "in process"]
    /\ UNCHANGED <<adminVars, orders, users, clusterState, overlapped, halfStopped>>
(* A call fails.  Errors of Kubernetes are logged, others end the errand.   *)
ErrandFails(w) ==
    /\ errand[w].pc # "none" /\ GlobalFault
    /\ IF errand[w].pc = "dropApp" THEN Goes(w, "dropSecret") ELSE Ends(w)
    /\ halfStopped' = (halfStopped \/ errand[w].pc \in StopSteps)
    /\ UNCHANGED <<adminVars, users, clusterState, overlapped>>

(* The orchestrator stops: unacknowledged events are delivered again, flows *)
(* it was preparing stay so.                                               *)
OrchestratorCrashes ==
    /\ GlobalFault
    /\ errand' = [w \in Workers |-> Resting]
    /\ orders' = [i \in DOMAIN orders |->
                     IF orders[i].at = "work" THEN [orders[i] EXCEPT !.at = "queued"] ELSE orders[i]]
    /\ users' = [f \in UserFlows |-> IF users[f] \in {"preparing", "ready"} THEN "stale" ELSE users[f]]
    /\ UNCHANGED <<adminVars, clusterState, overlapped, halfStopped>>

ErrandStep(w) == StartComponent(w) \/ StopComponent(w)
GlobalNext ==
    \/ \E a \in Admins : AdminPublishes(a) \/ AdminSetsFlag(a) \/ AdminIsCut(a)
    \/ \E f \in UserFlows : FlowAppears(f) \/ FlowLeaves(f) \/ LoopStarts(f) \/ LoopPasses(f)
    \/ \E i \in DOMAIN orders : TakeOrder(i)
    \/ \E w \in Workers : ErrandStep(w) \/ ErrandFails(w)
    \/ OrchestratorCrashes

GlobalSpec == GlobalInit /\ [][GlobalNext]_GlobalVars

(* The loop ticks for ever, calls return, the bus delivers.                 *)
GlobalFairness ==
    /\ \A w \in Workers : WF_GlobalVars(ErrandStep(w))
    /\ \A f \in UserFlows : WF_GlobalVars(LoopStarts(f)) /\ WF_GlobalVars(LoopPasses(f))
    /\ \A i \in 1 .. MaxOrders : WF_GlobalVars(i \in DOMAIN orders /\ TakeOrder(i))

----------------------------------------------------------------------------

NoErrand == (\A w \in Workers : errand[w].pc = "none") /\ (\A i \in DOMAIN orders : orders[i].at = "settled")

(* When no event is unsettled and no start under way, a deployed component  *)
(* has its queue, and its secret holds the password of its user, after any  *)
(* sequence of starts, stops and restarts and any crash in the middle of    *)
(* one.  Not so if two of them overlapped, as two flows of one tick do that *)
(* both miss the component, or if a call of a stop failed.                  *)
RunningIsReachable ==
    NoErrand /\ deployment /\ ~overlapped /\ ~halfStopped =>
        globalQueue /\ brokerPassword # NoPassword /\ podSecret = brokerPassword

(* The component of a flow that the loop looks after is deployed sooner or  *)
(* later, stopped or not, whatever fails in between.  The loop never comes  *)
(* to the component of a flow that a process was preparing when it stopped, *)
(* until the flow is started anew.                                         *)
NeededComponentsRun ==
    \A f \in UserFlows : users[f] \notin {"absent", "stale"} ~> deployment \/ users[f] \in {"absent", "stale"}

(* openapi.json of the component repository on /components/global/restart/  *)
(* all: "Restarts all currently running global components".  So after a     *)
(* restart that published both its events, as the last request, it runs.    *)
RestartedComponentsRun ==
    \A a \in Admins :
        /\ admin[a].kind = "restart" /\ admin[a].pc = "done"
        /\ \A b \in Admins \ {a} : admin[b].pc = "done" \/ admin[b].pc = "new"
        /\ orders # <<>> /\ orders[Len(orders)].kind = "start" /\ ~orders[Len(orders)].whole
        /\ NoErrand /\ ~overlapped /\ ~halfStopped /\ globalFaults = 0
        => deployment
=============================================================================
