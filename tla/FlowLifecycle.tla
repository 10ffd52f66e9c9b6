--------------------------- MODULE FlowLifecycle ---------------------------
(***************************************************************************)
(* How a flow is started and stopped: the flow repository that the user    *)
(* talks to, the event bus, and the replicas of the component orchestrator *)
(* that reconcile their own flow records with the cluster once per tick.   *)
(*                                                                         *)
(* The repository answers a start or a stop by writing a status and        *)
(* publishing an event.  An orchestrator's event handlers turn the events  *)
(* into a record of the flow; its loop lists the records, then the running *)
(* apps, and starts one asynchronous handler per flow that works from that *)
(* (possibly outdated) picture.  Every await of the code is a step here.   *)
(*                                                                         *)
(* A RabbitMQ user and the credential stored for it, an IAM token and the   *)
(* row stored for it, are two things each, made and deleted one after the   *)
(* other.  A flow is started by one user: the code keeps the rows of every  *)
(* user that started it and deletes those of the last one.                  *)
(***************************************************************************)
EXTENDS Integers

CONSTANTS
    Flows,            \* flow ids
    Nodes,            \* the nodes of a flow's graph, all of local components
    Orchestrators,    \* ids of orchestrator processes, one per process start
    InitialReplicas,  \* the processes that run at the beginning
    MaxRequests,      \* bound: start and stop requests in a behaviour
    MaxFaults         \* bound: failing calls and lost apps in a behaviour

(* The values of the status field that are not preparing-by-<id>.  A status *)
(* that is an orchestrator id o stands for "preparing-by-o".                *)
Statuses == {"none", "starting", "prepared", "started", "stopping"}

ASSUME ReplicasAssumption == InitialReplicas \subseteq Orchestrators
ASSUME StatusAssumption == Orchestrators \cap Statuses = {}
ASSUME BoundsAssumption == MaxRequests \in Nat /\ MaxFaults \in Nat

VARIABLES
    repo,       \* repo[f]: status of flow f in the flow repository
    requests,   \* start and stop requests made so far
    faults,     \* faults that have happened so far
    events,     \* events[e][f]: number of events e about f on the bus
    record,     \* record[f]: status of the orchestrators' document of f
    receiving,  \* receiving[o][e][f]: what a running event handler has read
    life,       \* life[o]: "new", "up" or "dead"
    vacant,     \* number of replicas that crashed and are not yet replaced
    tick,       \* tick[o]: progress of the current loop iteration
    allFlows,   \* allFlows[o]: the records read by that iteration
    allApps,    \* allApps[o]: the apps listed by that iteration
    work,       \* work[o][f]: progress of _handleFlowState
    lost,       \* lost[o]: apps _removeLostDeployments still has to destroy
    unsecret,   \* unsecret[o]: apps destroyed by it up to their secret
    deployed,   \* Kubernetes deployments
    secrets,    \* Kubernetes secrets, one per deployment
    queues,     \* flows that have their exchange and queues in RabbitMQ
    users,      \* RabbitMQ users, one per flow node
    creds,      \* stored credentials, one per flow node
    cut,        \* history: apps left with one of the two, by a failure
    tokens,     \* tokens[f]: the stored row of an IAM token of f
    issued,     \* issued[f]: number of IAM tokens of f
    unrecorded  \* history: unrecorded[f] of them were left without a row

repoVars == <<repo, requests>>
clusterVars == <<deployed, secrets>>
brokerVars == <<queues, users, creds, cut>>
tokenVars == <<tokens, issued, unrecorded>>
loopVars == <<tick, allFlows, allApps>>
lostVars == <<lost, unsecret>>
lifeVars == <<life, vacant>>
vars == <<repoVars, faults, events, record, receiving, lifeVars, loopVars,
          work, lostVars, clusterVars, brokerVars, tokenVars>>

----------------------------------------------------------------------------
(* Types.                                                                  *)

Apps == Flows \X Nodes
NoNode == "no node"
RepoStatuses == {"inactive", "starting", "active", "stopping"}
OrchestratorEvents == {"flow.starting", "flow.stopping"}
RepoEvents == {"flow.started", "flow.stopped", "flow.failed"}
Events == OrchestratorEvents \cup RepoEvents
RecordStatuses == Statuses \cup Orchestrators

StopSteps == {"destroy", "dropSecret", "dropQueues", "dropCreds", "dropUser",
              "dropCred", "dropToken", "dropRow", "sayStopped", "forget"}
NodeSteps == {"nodes", "credential", "putUser", "saveCred", "secret", "deploy"}
StartSteps == {"getToken", "saveToken", "prepared", "sayStarted", "started"}
Steps == {"idle", "claim"} \cup StopSteps \cup NodeSteps \cup StartSteps

(* pc: the next step; preparing: isPreparing of the flow held in memory;    *)
(* left: the nodes still to destroy, to deploy or whose user is to be       *)
(* deleted, node: the one in hand;                                          *)
(* queued: flowSettings is set, the queues need not be prepared again.      *)
Work == [pc: Steps, preparing: BOOLEAN, left: SUBSET Nodes,
         node: Nodes \cup {NoNode}, queued: BOOLEAN]

WorkAt(pc, left, preparing) ==
    [pc |-> pc, preparing |-> preparing, left |-> left, node |-> NoNode,
     queued |-> FALSE]

Idle == WorkAt("idle", {}, FALSE)

(* A row outlives its token when it cannot be deleted after it.             *)
Rows == {"none", "live", "dead"}

(* What an event handler remembers of the document it read: there was none, *)
(* it already had the status to assign (mongoose then writes nothing), or   *)
(* it had another one.                                                      *)
Readings == {"no handler", "absent", "unchanged", "changed"}

RepositoryTypeOK ==
    /\ repo \in [Flows -> RepoStatuses]
    /\ requests \in 0..MaxRequests
    /\ faults \in 0..MaxFaults

BusTypeOK ==
    /\ events \in [Events -> [Flows -> Nat]]
    /\ record \in [Flows -> RecordStatuses]
    /\ receiving \in [Orchestrators -> [OrchestratorEvents ->
                                            [Flows -> Readings]]]

LoopTypeOK ==
    /\ life \in [Orchestrators -> {"new", "up", "dead"}]
    /\ vacant \in Nat
    /\ tick \in [Orchestrators -> {"idle", "flows", "apps"}]
    /\ allFlows \in [Orchestrators -> [Flows -> RecordStatuses]]
    /\ allApps \in [Orchestrators -> SUBSET Apps]
    /\ lost \in [Orchestrators -> SUBSET Apps]
    /\ unsecret \in [Orchestrators -> SUBSET Apps]

WorkTypeOK ==
    work \in [Orchestrators -> [Flows -> Work]]

ResourceTypeOK ==
    /\ deployed \in SUBSET Apps /\ secrets \in SUBSET Apps
    /\ queues \in SUBSET Flows
    /\ users \in SUBSET Apps /\ creds \in SUBSET Apps /\ cut \in SUBSET Apps
    /\ tokens \in [Flows -> Rows]
    /\ issued \in [Flows -> Int] /\ unrecorded \in [Flows -> Nat]

TypeOK ==
    /\ RepositoryTypeOK /\ BusTypeOK /\ LoopTypeOK /\ WorkTypeOK
    /\ ResourceTypeOK

Init ==
    /\ repo = [f \in Flows |-> "inactive"]
    /\ requests = 0
    /\ faults = 0
    /\ events = [e \in Events |-> [f \in Flows |-> 0]]
    /\ record = [f \in Flows |-> "none"]
    /\ receiving = [o \in Orchestrators |-> [e \in OrchestratorEvents |->
                                            [f \in Flows |-> "no handler"]]]
    /\ life = [o \in Orchestrators |->
                 IF o \in InitialReplicas THEN "up" ELSE "new"]
    /\ vacant = 0
    /\ tick = [o \in Orchestrators |-> "idle"]
    /\ allFlows = [o \in Orchestrators |-> [f \in Flows |-> "none"]]
    /\ allApps = [o \in Orchestrators |-> {}]
    /\ work = [o \in Orchestrators |-> [f \in Flows |-> Idle]]
    /\ lost = [o \in Orchestrators |-> {}]
    /\ unsecret = [o \in Orchestrators |-> {}]
    /\ deployed = {} /\ secrets = {}
    /\ queues = {} /\ users = {} /\ creds = {} /\ cut = {}
    /\ tokens = [f \in Flows |-> "none"]
    /\ issued = [f \in Flows |-> 0] /\ unrecorded = [f \in Flows |-> 0]

----------------------------------------------------------------------------
(* The bus.  Consumers run their handlers concurrently and without a        *)
(* prefetch, so nothing keeps the events of a flow in order.                *)

Publish(e, f) == events' = [events EXCEPT ![e][f] = @ + 1]

Fault == faults < MaxFaults /\ faults' = faults + 1

----------------------------------------------------------------------------
(* The flow repository.                                                     *)

(* POST /:id/start or /:id/stop: whatever the current status is, write the  *)
(* new one and publish; publishQueue logs a publish that fails and goes on. *)
Request(f, status, e) ==
    /\ requests < MaxRequests
    /\ requests' = requests + 1
    /\ repo' = [repo EXCEPT ![f] = status]
    /\ \/ Publish(e, f) /\ UNCHANGED faults
       \/ Fault /\ UNCHANGED events
    /\ UNCHANGED <<record, receiving, lifeVars, loopVars, work, lostVars,
                   clusterVars, brokerVars, tokenVars>>

StartFlow(f) == Request(f, "starting", "flow.starting")
StopFlow(f) == Request(f, "stopping", "flow.stopping")

(* The three subscriptions of the repository: each is one update.           *)
RepoHandles(f, e, status) ==
    /\ events[e][f] > 0
    /\ repo' = [repo EXCEPT ![f] = status]
    /\ UNCHANGED <<requests, faults, record, receiving, lifeVars, loopVars,
                   work, lostVars, clusterVars, brokerVars, tokenVars>>

FlowStarted(f) ==
    /\ RepoHandles(f, "flow.started", "active")
    /\ events' = [events EXCEPT !["flow.started"][f] = @ - 1]

FlowStopped(f) ==
    /\ RepoHandles(f, "flow.stopped", "inactive")
    /\ events' = [events EXCEPT !["flow.stopped"][f] = @ - 1]

(* A failed flow is stopped: the repository publishes flow.stopping itself. *)
FlowFailed(f) ==
    /\ RepoHandles(f, "flow.failed", "stopping")
    /\ events' = [events EXCEPT !["flow.failed"][f] = @ - 1,
                                !["flow.stopping"][f] = @ + 1]

----------------------------------------------------------------------------
(* The event handlers of an orchestrator: find the document, then save it.  *)

Reading(f, status) ==
    IF record[f] = "none" THEN "absent"
    ELSE IF record[f] = status THEN "unchanged" ELSE "changed"

(* At most one handler per event and flow runs in a process at a time.      *)
Receive(o, f, e, status) ==
    /\ life[o] = "up"
    /\ events[e][f] > 0
    /\ receiving[o][e][f] = "no handler"
    /\ events' = [events EXCEPT ![e][f] = @ - 1]
    /\ receiving' = [receiving EXCEPT ![o][e][f] = Reading(f, status)]
    /\ UNCHANGED <<repoVars, faults, record, lifeVars, loopVars, work,
                   lostVars, clusterVars, brokerVars, tokenVars>>

(* A save of a document that was deleted in between fails, and so does the  *)
(* insertion of one that exists: the event is then dropped (nack without    *)
(* requeue).  A database error drops it as well.                            *)
HandleFlowStarting(o, f) ==
    LET read == receiving[o]["flow.starting"][f] IN
    /\ read # "no handler"
    /\ receiving' = [receiving EXCEPT ![o]["flow.starting"][f] = "no handler"]
    /\ \/ /\ \/ read = "absent" /\ record[f] = "none"
             \/ read = "changed" /\ record[f] # "none"
          /\ record' = [record EXCEPT ![f] = "starting"]
          /\ UNCHANGED faults
       \/ /\ \/ read = "absent" /\ record[f] # "none"
             \/ read = "changed" /\ record[f] = "none"
             \/ read = "unchanged"
          /\ UNCHANGED <<record, faults>>
       \/ Fault /\ UNCHANGED record
    /\ UNCHANGED <<repoVars, events, lifeVars, loopVars, work, lostVars,
                   clusterVars, brokerVars, tokenVars>>

(* A stop of a flow that the orchestrators do not know is acknowledged.     *)
HandleFlowStopping(o, f) ==
    LET read == receiving[o]["flow.stopping"][f] IN
    /\ read # "no handler"
    /\ receiving' = [receiving EXCEPT ![o]["flow.stopping"][f] = "no handler"]
    /\ \/ /\ read = "changed" /\ record[f] # "none"
          /\ record' = [record EXCEPT ![f] = "stopping"]
          /\ UNCHANGED faults
       \/ /\ read # "changed" \/ record[f] = "none"
          /\ UNCHANGED <<record, faults>>
       \/ Fault /\ UNCHANGED record
    /\ UNCHANGED <<repoVars, events, lifeVars, loopVars, work, lostVars,
                   clusterVars, brokerVars, tokenVars>>

ReceiveFlowStarting(o, f) == Receive(o, f, "flow.starting", "starting")
ReceiveFlowStopping(o, f) == Receive(o, f, "flow.stopping", "stopping")

----------------------------------------------------------------------------
(* The loop: list the records, list the apps, start the handlers.           *)

FindAll(o) ==
    /\ life[o] = "up" /\ tick[o] = "idle"
    /\ tick' = [tick EXCEPT ![o] = "flows"]
    /\ allFlows' = [allFlows EXCEPT ![o] = record]
    /\ UNCHANGED <<repoVars, faults, events, record, receiving, lifeVars,
                   allApps, work, lostVars, clusterVars, brokerVars, tokenVars>>

GetAppList(o) ==
    /\ tick[o] = "flows"
    /\ tick' = [tick EXCEPT ![o] = "apps"]
    /\ allApps' = [allApps EXCEPT ![o] = deployed]
    /\ UNCHANGED <<repoVars, faults, events, record, receiving, lifeVars,
                   allFlows, work, lostVars, clusterVars, brokerVars, tokenVars>>

Running(o, f) == {n \in Nodes : <<f, n>> \in allApps[o]}

StoppingWork(running) ==
    WorkAt(IF running = {} THEN "dropQueues" ELSE "destroy", running, FALSE)

(* Slip: a flow whose apps all run already is taken for finished.           *)
DeployingWorkForgetsPreparing(missing, preparing) ==
    IF missing # {} THEN WorkAt("nodes", missing, preparing) ELSE Idle

DeployingWork(missing, preparing) ==
    IF missing # {} THEN WorkAt("nodes", missing, preparing)
    ELSE IF preparing THEN WorkAt("getToken", {}, TRUE) ELSE Idle

(* Slip: only flows that are being started are looked at.                   *)
NewWorkForgetsStarted(o, f) ==
    LET missing == Nodes \ Running(o, f)
    IN  IF allFlows[o][f] = "stopping" THEN StoppingWork(Running(o, f))
        ELSE IF allFlows[o][f] = "starting" THEN WorkAt("claim", missing, FALSE)
        ELSE IF allFlows[o][f] = o THEN DeployingWork(missing, TRUE)
        ELSE Idle

(* The synchronous beginning of _handleFlowState.  A flow that another      *)
(* process prepares is left alone.                                          *)
NewWork(o, f) ==
    LET status == allFlows[o][f]
        missing == Nodes \ Running(o, f)
    IN  IF status = "stopping" THEN StoppingWork(Running(o, f))
        ELSE IF status = "starting" THEN WorkAt("claim", missing, FALSE)
        ELSE IF status \in {"prepared", "started", o}
             THEN DeployingWork(missing, status = o)
        ELSE Idle

(* Slip: apps of unknown flows are looked for among the known flows.        *)
HandleFlowsMissesLost(o) ==
    /\ tick[o] = "apps"
    /\ tick' = [tick EXCEPT ![o] = "idle"]
    /\ work' = [work EXCEPT ![o] =
                  [f \in Flows |-> IF work[o][f].pc = "idle" THEN NewWork(o, f)
                                   ELSE work[o][f]]]
    /\ allFlows' = [allFlows EXCEPT ![o] = [f \in Flows |-> "none"]]
    /\ allApps' = [allApps EXCEPT ![o] = {}]
    /\ UNCHANGED <<repoVars, faults, events, record, receiving, lifeVars,
                   lostVars, clusterVars, brokerVars, tokenVars>>

(* One turn of the event loop: a handler for every flow that has none       *)
(* running (isProcessingFlow), then _removeLostDeployments.                 *)
HandleFlows(o) ==
    /\ tick[o] = "apps"
    /\ tick' = [tick EXCEPT ![o] = "idle"]
    /\ work' = [work EXCEPT ![o] =
                  [f \in Flows |-> IF work[o][f].pc = "idle" THEN NewWork(o, f)
                                   ELSE work[o][f]]]
    /\ lost' = [lost EXCEPT ![o] = @ \cup {app \in allApps[o] :
                                              allFlows[o][app[1]] = "none"}]
    /\ allFlows' = [allFlows EXCEPT ![o] = [f \in Flows |-> "none"]]
    /\ allApps' = [allApps EXCEPT ![o] = {}]
    /\ UNCHANGED <<repoVars, faults, events, record, receiving, lifeVars,
                   unsecret, clusterVars, brokerVars, tokenVars>>

(* The loop body throws: the next tick starts over.                         *)
TickFails(o) ==
    /\ tick[o] = "flows"
    /\ Fault
    /\ tick' = [tick EXCEPT ![o] = "idle"]
    /\ allFlows' = [allFlows EXCEPT ![o] = [f \in Flows |-> "none"]]
    /\ UNCHANGED <<repoVars, events, record, receiving, lifeVars, allApps, work,
                   lostVars, clusterVars, brokerVars, tokenVars>>

(* destroyApp deletes the deployment, then its secret; it logs what the     *)
(* cluster refuses and goes on as if it had been deleted.                   *)
Undeploy(app) ==
    \/ deployed' = deployed \ {app} /\ UNCHANGED faults
    \/ Fault /\ UNCHANGED deployed

DeleteSecret(app) ==
    \/ secrets' = secrets \ {app} /\ UNCHANGED faults
    \/ Fault /\ UNCHANGED secrets

(* _removeLostDeployments runs unawaited next to the handlers.              *)
DestroyLost(o, app) ==
    /\ app \in lost[o]
    /\ lost' = [lost EXCEPT ![o] = @ \ {app}]
    /\ unsecret' = [unsecret EXCEPT ![o] = @ \cup {app}]
    /\ Undeploy(app)
    /\ UNCHANGED <<repoVars, events, record, receiving, lifeVars,
                   loopVars, work, secrets, brokerVars, tokenVars>>

DropLostSecret(o, app) ==
    /\ app \in unsecret[o]
    /\ unsecret' = [unsecret EXCEPT ![o] = @ \ {app}]
    /\ DeleteSecret(app)
    /\ UNCHANGED <<repoVars, events, record, receiving, lifeVars,
                   loopVars, work, lost, deployed, brokerVars, tokenVars>>

----------------------------------------------------------------------------
(* _handleFlowState for a stopping flow.                                    *)

At(o, f, pc) == work[o][f].pc = pc
Goto(o, f, pc) == work' = [work EXCEPT ![o][f] = [@ EXCEPT !.pc = pc]]
Done(o, f) == work' = [work EXCEPT ![o][f] = Idle]

DestroyApp(o, f, n) ==
    /\ At(o, f, "destroy") /\ n \in work[o][f].left
    /\ Undeploy(<<f, n>>)
    /\ work' = [work EXCEPT ![o][f] = [@ EXCEPT !.pc = "dropSecret", !.node = n]]
    /\ UNCHANGED <<repoVars, events, record, receiving, lifeVars,
                   loopVars, lostVars, secrets, brokerVars, tokenVars>>

DropSecret(o, f) ==
    LET left == work[o][f].left \ {work[o][f].node} IN
    /\ At(o, f, "dropSecret")
    /\ DeleteSecret(<<f, work[o][f].node>>)
    /\ work' = [work EXCEPT ![o][f] = StoppingWork(left)]
    /\ UNCHANGED <<repoVars, events, record, receiving, lifeVars,
                   loopVars, lostVars, deployed, brokerVars, tokenVars>>

DropQueues(o, f) ==
    /\ At(o, f, "dropQueues")
    /\ queues' = queues \ {f}
    /\ Goto(o, f, "dropCreds")
    /\ UNCHANGED <<repoVars, faults, events, record, receiving, lifeVars,
                   loopVars, lostVars, clusterVars, users, creds, cut, tokenVars>>

(* Slip: the credentials of the running apps are listed, after the apps.    *)
ListCredsOfRunning(o, f) ==
    /\ At(o, f, "dropCreds")
    /\ work' = [work EXCEPT ![o][f] =
                  WorkAt("dropUser", {n \in Nodes : <<f, n>> \in creds \cap deployed}, FALSE)]
    /\ UNCHANGED <<repoVars, faults, events, record, receiving, lifeVars,
                   loopVars, lostVars, clusterVars, brokerVars, tokenVars>>

(* The users to delete are those of the stored credentials.                 *)
ListCreds(o, f) ==
    /\ At(o, f, "dropCreds")
    /\ work' = [work EXCEPT ![o][f] =
                  WorkAt("dropUser", {n \in Nodes : <<f, n>> \in creds}, FALSE)]
    /\ UNCHANGED <<repoVars, faults, events, record, receiving, lifeVars,
                   loopVars, lostVars, clusterVars, brokerVars, tokenVars>>

(* A user that is not there counts as deleted.                              *)
DropUser(o, f) ==
    /\ At(o, f, "dropUser")
    /\ \/ \E n \in work[o][f].left :
             /\ users' = users \ {<<f, n>>}
             /\ work' = [work EXCEPT ![o][f] = [@ EXCEPT !.pc = "dropCred", !.node = n]]
       \/ /\ work[o][f].left = {}
          /\ Goto(o, f, "dropToken")
          /\ UNCHANGED users
    /\ UNCHANGED <<repoVars, faults, events, record, receiving, lifeVars,
                   loopVars, lostVars, clusterVars, queues, creds, cut, tokenVars>>

DropCred(o, f) ==
    LET app == <<f, work[o][f].node>> IN
    /\ At(o, f, "dropCred")
    /\ creds' = creds \ {app}
    /\ cut' = IF app \in users THEN cut ELSE cut \ {app}
    /\ work' = [work EXCEPT ![o][f] =
                  WorkAt("dropUser", work[o][f].left \ {work[o][f].node}, FALSE)]
    /\ UNCHANGED <<repoVars, faults, events, record, receiving, lifeVars,
                   loopVars, lostVars, clusterVars, queues, users, tokenVars>>

(* Slip: deleting the token of a flow that has none does not return.        *)
DropTokenNeedsOne(o, f) ==
    /\ At(o, f, "dropToken") /\ tokens[f] # "none"
    /\ tokens' = [tokens EXCEPT ![f] = "dead"]
    /\ issued' = [issued EXCEPT ![f] = IF tokens[f] = "live" THEN @ - 1 ELSE @]
    /\ Goto(o, f, "dropRow")
    /\ UNCHANGED <<repoVars, faults, events, record, receiving, lifeVars,
                   loopVars, lostVars, clusterVars, brokerVars, unrecorded>>

(* The token of the row, if there is one, then the row.  The IAM answers    *)
(* that it deleted one that is not there.                                   *)
DropToken(o, f) ==
    /\ At(o, f, "dropToken")
    /\ \/ /\ tokens[f] # "none"
          /\ tokens' = [tokens EXCEPT ![f] = "dead"]
          /\ issued' = [issued EXCEPT ![f] = IF tokens[f] = "live" THEN @ - 1 ELSE @]
          /\ Goto(o, f, "dropRow")
       \/ /\ tokens[f] = "none"
          /\ Goto(o, f, "sayStopped")
          /\ UNCHANGED <<tokens, issued>>
    /\ UNCHANGED <<repoVars, faults, events, record, receiving, lifeVars,
                   loopVars, lostVars, clusterVars, brokerVars, unrecorded>>

(* By its _id: a row stored since is another one.                           *)
DropRow(o, f) ==
    /\ At(o, f, "dropRow")
    /\ tokens' = [tokens EXCEPT ![f] = IF @ = "dead" THEN "none" ELSE @]
    /\ Goto(o, f, "sayStopped")
    /\ UNCHANGED <<repoVars, faults, events, record, receiving, lifeVars,
                   loopVars, lostVars, clusterVars, brokerVars, issued, unrecorded>>

SayStopped(o, f) ==
    /\ At(o, f, "sayStopped")
    /\ Publish("flow.stopped", f)
    /\ Goto(o, f, "forget")
    /\ UNCHANGED <<repoVars, faults, record, receiving, lifeVars, loopVars,
                   lostVars, clusterVars, brokerVars, tokenVars>>

(* onStopped removes the document whatever its status has become.           *)
OnStopped(o, f) ==
    /\ At(o, f, "forget")
    /\ record' = [record EXCEPT ![f] = "none"]
    /\ Done(o, f)
    /\ UNCHANGED <<repoVars, faults, events, receiving, lifeVars, loopVars,
                   lostVars, clusterVars, brokerVars, tokenVars>>

----------------------------------------------------------------------------
(* _handleFlowState for a flow that is starting, prepared or started.       *)

(* flow.save(): writes the status over whatever the document has by now,    *)
(* and throws when the document is gone.                                    *)
Save(o, f, status, next) ==
    /\ \/ /\ record[f] # "none"
          /\ record' = [record EXCEPT ![f] = status]
          /\ work' = [work EXCEPT ![o][f] = next]
       \/ record[f] = "none" /\ Done(o, f) /\ UNCHANGED record
    /\ UNCHANGED <<repoVars, faults, events, receiving, lifeVars, loopVars,
                   lostVars, clusterVars, brokerVars, tokenVars>>

(* Slip: the status is saved without the id of the orchestrator.            *)
OnStartingAnonymous(o, f) ==
    /\ At(o, f, "claim")
    /\ Save(o, f, "preparing", DeployingWork(work[o][f].left, TRUE))

OnStarting(o, f) ==
    At(o, f, "claim") /\ Save(o, f, o, DeployingWork(work[o][f].left, TRUE))

(* Fetch the component; the first missing node also prepares the queues.    *)
PrepareNode(o, f, n) ==
    /\ At(o, f, "nodes") /\ n \in work[o][f].left
    /\ queues' = IF work[o][f].queued THEN queues ELSE queues \cup {f}
    /\ work' = [work EXCEPT ![o][f] = [@ EXCEPT !.pc = "credential", !.node = n,
                                            !.queued = TRUE]]
    /\ UNCHANGED <<repoVars, faults, events, record, receiving, lifeVars,
                   loopVars, lostVars, clusterVars, users, creds, cut, tokenVars>>

(* Slip: one credential serves the flow instead of one for each node.       *)
FindCredOfFlow(o, f) ==
    /\ At(o, f, "credential")
    /\ Goto(o, f, IF \E n \in Nodes : <<f, n>> \in creds THEN "secret" ELSE "putUser")
    /\ UNCHANGED <<repoVars, faults, events, record, receiving, lifeVars,
                   loopVars, lostVars, clusterVars, brokerVars, tokenVars>>

(* Where a credential is stored no user is made.                            *)
FindCred(o, f) ==
    /\ At(o, f, "credential")
    /\ Goto(o, f, IF <<f, work[o][f].node>> \in creds THEN "secret" ELSE "putUser")
    /\ UNCHANGED <<repoVars, faults, events, record, receiving, lifeVars,
                   loopVars, lostVars, clusterVars, brokerVars, tokenVars>>

PutUser(o, f) ==
    /\ At(o, f, "putUser")
    /\ users' = users \cup {<<f, work[o][f].node>>}
    /\ Goto(o, f, "saveCred")
    /\ UNCHANGED <<repoVars, faults, events, record, receiving, lifeVars,
                   loopVars, lostVars, clusterVars, queues, creds, cut, tokenVars>>

SaveCred(o, f) ==
    LET app == <<f, work[o][f].node>> IN
    /\ At(o, f, "saveCred")
    /\ creds' = creds \cup {app}
    /\ cut' = IF app \in users THEN cut \ {app} ELSE cut
    /\ Goto(o, f, "secret")
    /\ UNCHANGED <<repoVars, faults, events, record, receiving, lifeVars,
                   loopVars, lostVars, clusterVars, queues, users, tokenVars>>

EnsureSecret(o, f) ==
    /\ At(o, f, "secret")
    /\ secrets' = secrets \cup {<<f, work[o][f].node>>}
    /\ Goto(o, f, "deploy")
    /\ UNCHANGED <<repoVars, faults, events, record, receiving, lifeVars,
                   loopVars, lostVars, deployed, brokerVars, tokenVars>>

(* The node in hand is finished.                                            *)
NextNode(o, f) ==
    LET w == work[o][f]
        next == DeployingWork(w.left \ {w.node}, w.preparing)
    IN  work' = [work EXCEPT ![o][f] =
                   IF next.pc = "nodes" THEN [next EXCEPT !.queued = TRUE]
                   ELSE next]

CreateDeployment(o, f) ==
    /\ At(o, f, "deploy")
    /\ deployed' = deployed \cup {<<f, work[o][f].node>>}
    /\ NextNode(o, f)
    /\ UNCHANGED <<repoVars, faults, events, record, receiving, lifeVars,
                   loopVars, lostVars, secrets, brokerVars, tokenVars>>

(* createApp logs what the cluster refuses and returns normally.            *)
CreateAppFails(o, f) ==
    /\ work[o][f].pc \in {"secret", "deploy"}
    /\ Fault
    /\ NextNode(o, f)
    /\ UNCHANGED <<repoVars, events, record, receiving, lifeVars, loopVars,
                   lostVars, clusterVars, brokerVars, tokenVars>>

(* Anything else that fails for a node fails the flow.  Making a user is    *)
(* two calls, so it may be there when that fails.  Storing its credential   *)
(* first looks whether there is one: the two are a step here, a conflict of *)
(* two replicas on the unique index is one of the failing calls.            *)
FlowFails(o, f) ==
    LET app == <<f, work[o][f].node>> IN
    /\ \/ work[o][f].pc \in {"nodes", "credential"} /\ Fault /\ UNCHANGED <<users, cut>>
       \/ /\ At(o, f, "putUser") /\ Fault
          /\ \/ UNCHANGED <<users, cut>>
             \/ users' = users \cup {app} /\ cut' = cut \cup {app}
       \/ /\ At(o, f, "saveCred")
          /\ Fault
          /\ cut' = cut \cup {app}
          /\ UNCHANGED users
    /\ Publish("flow.failed", f)
    /\ Done(o, f)
    /\ UNCHANGED <<repoVars, record, receiving, lifeVars, loopVars, lostVars,
                   clusterVars, queues, creds, tokenVars>>

(* The stored token is taken as it is.  One that cannot be had is logged,   *)
(* the start goes on.                                                       *)
GetToken(o, f) ==
    /\ At(o, f, "getToken")
    /\ \/ tokens[f] # "none" /\ Goto(o, f, "prepared") /\ UNCHANGED <<issued, faults>>
       \/ /\ tokens[f] = "none" /\ Goto(o, f, "saveToken") /\ UNCHANGED faults
          /\ issued' = [issued EXCEPT ![f] = @ + 1]
       \/ Fault /\ Goto(o, f, "prepared") /\ UNCHANGED issued
    /\ UNCHANGED <<repoVars, events, record, receiving, lifeVars, loopVars,
                   lostVars, clusterVars, brokerVars, tokens, unrecorded>>

(* A row that is not stored, also because another replica stored one, is    *)
(* logged as well: nothing will find that token again.                      *)
SaveToken(o, f) ==
    /\ At(o, f, "saveToken")
    /\ \/ /\ tokens[f] = "none"
          /\ tokens' = [tokens EXCEPT ![f] = "live"]
          /\ UNCHANGED <<unrecorded, faults>>
       \/ /\ Fault \/ (tokens[f] # "none" /\ UNCHANGED faults)
          /\ unrecorded' = [unrecorded EXCEPT ![f] = @ + 1]
          /\ UNCHANGED tokens
    /\ Goto(o, f, "prepared")
    /\ UNCHANGED <<repoVars, events, record, receiving, lifeVars, loopVars,
                   lostVars, clusterVars, brokerVars, issued>>

OnPrepared(o, f) ==
    /\ At(o, f, "prepared")
    /\ Save(o, f, "prepared", [work[o][f] EXCEPT !.pc = "sayStarted"])

SayStarted(o, f) ==
    /\ At(o, f, "sayStarted")
    /\ Publish("flow.started", f)
    /\ Goto(o, f, "started")
    /\ UNCHANGED <<repoVars, faults, record, receiving, lifeVars, loopVars,
                   lostVars, clusterVars, brokerVars, tokenVars>>

OnStarted(o, f) == At(o, f, "started") /\ Save(o, f, "started", Idle)

(* A call that throws outside the try block ends the handler; the next tick *)
(* finds the record as it was left.                                         *)
HandlerFails(o, f) ==
    /\ work[o][f].pc \in {"claim", "dropQueues", "dropCreds", "dropUser", "dropCred",
                          "dropToken", "dropRow", "sayStopped", "forget",
                          "prepared", "sayStarted", "started"}
    /\ Fault
    /\ Done(o, f)
    /\ cut' = IF At(o, f, "dropCred") THEN cut \cup {<<f, work[o][f].node>>} ELSE cut
    /\ UNCHANGED <<repoVars, events, record, receiving, lifeVars, loopVars,
                   lostVars, clusterVars, queues, users, creds, tokenVars>>

----------------------------------------------------------------------------
(* Processes.  The bus takes back the events a dead process has not         *)
(* acknowledged; its successor has a new id.                                *)

Unacknowledged(o, e, f) ==
    IF e \in OrchestratorEvents /\ receiving[o][e][f] # "no handler"
    THEN 1 ELSE 0

(* What a crash leaves half done.                                           *)
Halved(o) == {<<f, work[o][f].node>> :
                 f \in {g \in Flows : work[o][g].pc \in {"saveCred", "dropCred"}}}

Crash(o) ==
    /\ life[o] = "up"
    /\ \E p \in Orchestrators : life[p] = "new"
    /\ life' = [life EXCEPT ![o] = "dead"]
    /\ vacant' = vacant + 1
    /\ events' = [e \in Events |-> [f \in Flows |->
                    events[e][f] + Unacknowledged(o, e, f)]]
    /\ receiving' = [receiving EXCEPT ![o] = [e \in OrchestratorEvents |->
                                              [f \in Flows |-> "no handler"]]]
    /\ tick' = [tick EXCEPT ![o] = "idle"]
    /\ allFlows' = [allFlows EXCEPT ![o] = [f \in Flows |-> "none"]]
    /\ allApps' = [allApps EXCEPT ![o] = {}]
    /\ work' = [work EXCEPT ![o] = [f \in Flows |-> Idle]]
    /\ lost' = [lost EXCEPT ![o] = {}]
    /\ unsecret' = [unsecret EXCEPT ![o] = {}]
    /\ cut' = cut \cup Halved(o)
    /\ unrecorded' = [f \in Flows |-> IF At(o, f, "saveToken") THEN unrecorded[f] + 1
                                      ELSE unrecorded[f]]
    /\ UNCHANGED <<repoVars, faults, record, clusterVars, queues, users, creds,
                   tokens, issued>>

Restart(o) ==
    /\ vacant > 0
    /\ life[o] = "new"
    /\ vacant' = vacant - 1
    /\ life' = [life EXCEPT ![o] = "up"]
    /\ UNCHANGED <<repoVars, faults, events, record, receiving, loopVars, work,
                   lostVars, clusterVars, brokerVars, tokenVars>>

----------------------------------------------------------------------------
RepoStep == \E f \in Flows : FlowStarted(f) \/ FlowStopped(f) \/ FlowFailed(f)

ReceiveStep(f) ==
    \E o \in Orchestrators : ReceiveFlowStarting(o, f) \/ ReceiveFlowStopping(o, f)

EventStep(o, f) == HandleFlowStarting(o, f) \/ HandleFlowStopping(o, f)

LoopStep(o) == FindAll(o) \/ GetAppList(o) \/ HandleFlows(o)

LostStep(o) == \E app \in Apps : DestroyLost(o, app) \/ DropLostSecret(o, app)

StopStep(o, f) ==
    \/ \E n \in Nodes : DestroyApp(o, f, n)
    \/ DropSecret(o, f) \/ DropQueues(o, f) \/ ListCreds(o, f) \/ DropUser(o, f)
    \/ DropCred(o, f) \/ DropToken(o, f) \/ DropRow(o, f)
    \/ SayStopped(o, f) \/ OnStopped(o, f)

StartStep(o, f) ==
    \/ \E n \in Nodes : PrepareNode(o, f, n)
    \/ OnStarting(o, f) \/ FindCred(o, f) \/ PutUser(o, f) \/ SaveCred(o, f)
    \/ EnsureSecret(o, f) \/ CreateDeployment(o, f)
    \/ GetToken(o, f) \/ SaveToken(o, f) \/ OnPrepared(o, f)
    \/ SayStarted(o, f) \/ OnStarted(o, f)

FailureStep(o, f) ==
    CreateAppFails(o, f) \/ FlowFails(o, f) \/ HandlerFails(o, f)

RequestStep == \E f \in Flows : StartFlow(f) \/ StopFlow(f)

Next ==
    \/ RequestStep
    \/ RepoStep
    \/ \E f \in Flows : ReceiveStep(f)
    \/ \E o \in Orchestrators, f \in Flows :
          EventStep(o, f) \/ StopStep(o, f) \/ StartStep(o, f) \/ FailureStep(o, f)
    \/ \E o \in Orchestrators :
          LoopStep(o) \/ TickFails(o) \/ LostStep(o) \/ Crash(o) \/ Restart(o)

Spec == Init /\ [][Next]_vars

(* What the runtime schedules: promises settle, timers fire, the broker     *)
(* delivers, the cluster restarts a dead process.  Users, failures and      *)
(* crashes are never forced.                                                *)
Fairness ==
    /\ WF_vars(RepoStep)
    /\ \A f \in Flows : WF_vars(ReceiveStep(f))
    /\ WF_vars(\E o \in Orchestrators : Restart(o))
    /\ \A o \in Orchestrators :
         /\ WF_vars(LoopStep(o))
         /\ WF_vars(LostStep(o))
         /\ \A f \in Flows : /\ WF_vars(EventStep(o, f))
                              /\ WF_vars(StopStep(o, f) \/ StartStep(o, f))

FairSpec == Spec /\ Fairness

----------------------------------------------------------------------------
(* Properties.                                                              *)

(* With one replica a container is launched only into a wired flow: when    *)
(* createApp is about to create the deployment of a node, the queues of the *)
(* flow and the stored credential of the node exist, and so does its user,  *)
(* unless a failure or a crash came between the two the last time they were *)
(* made or deleted.  It relies on isProcessingFlow keeping a stop and a     *)
(* start of the same flow from overlapping.                                 *)
LaunchIsWired ==
    \A o \in Orchestrators, f \in Flows :
        At(o, f, "deploy") =>
            LET app == <<f, work[o][f].node>>
            IN  f \in queues /\ app \in creds /\ (app \in users \/ app \in cut)

(* With one replica flow.stopped tells the truth about what was recorded:   *)
(* once it is published and until the record is removed, the flow has no    *)
(* queues, no stored credential and no stored token.  Of its users only     *)
(* those are left whose credential a failure or a crash kept from being     *)
(* stored, and of its tokens exactly those whose row it did.                *)
StoppedMeansTornDown ==
    \A o \in Orchestrators, f \in Flows :
        At(o, f, "forget") =>
            /\ f \notin queues /\ tokens[f] = "none" /\ issued[f] = unrecorded[f]
            /\ creds \cap ({f} \X Nodes) = {}
            /\ users \cap ({f} \X Nodes) \subseteq cut

(* Without failures no flow is left half way: whatever is requested while   *)
(* it is being started or stopped, and in whatever order the events of the  *)
(* requests arrive, its record ends up started or removed (the repository's *)
(* own status may still differ).                                            *)
Settles ==
    <>[](\A f \in Flows : record[f] \in {"none", "started"})

(* The loop heals: a flow that stays started gets every deployment that a   *)
(* failed createApp or a late cleanup took from it.                         *)
StartedFlowsAreDeployed ==
    \A f \in Flows :
        <>[](record[f] = "started") => <>[]({f} \X Nodes \subseteq deployed)

(* Deployments that lost their flow are found and destroyed, even those     *)
(* that a handler working from an outdated record creates after the stop.   *)
LostAppsAreDestroyed ==
    \A f \in Flows :
        <>[](record[f] = "none") => <>[](deployed \cap ({f} \X Nodes) = {})

(* A stop that reached the orchestrators' record survives failing calls and  *)
(* crashes: some replica keeps tearing the flow down until the record goes, *)
(* unless a start overwrites the record meanwhile.                          *)
StopsAreServed ==
    \A f \in Flows : []<>(record[f] # "stopping")

(* README of the orchestrator: each iteration makes sure that all nodes of  *)
(* each flow have been deployed.                                            *)
EveryFlowIsDeployed ==
    \A f \in Flows :
        []<>(record[f] \in {"none", "stopping"} \/ {f} \X Nodes \subseteq deployed)
====
