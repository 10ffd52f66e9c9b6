------------------------ MODULE FlowLifecycle_proofs ------------------------
(***************************************************************************)
(* Proofs about FlowLifecycle for any flows, nodes, processes and bounds:  *)
(* the type invariant for any number of replicas, and the two safety       *)
(* invariants for a single replica that may crash and be replaced.         *)
(***************************************************************************)
EXTENDS FlowLifecycle, TLAPS

USE DEF vars, repoVars, lifeVars, loopVars, lostVars, clusterVars, brokerVars, tokenVars

(* The type invariant is not inductive by itself: a handler about to make a *)
(* user, a secret or a deployment, or to forget a credential, must have a   *)
(* node in hand.                                                            *)
HandSteps == {"credential", "putUser", "saveCred", "secret", "deploy", "dropCred"}
GoodWork == {w \in Work : w.pc \in HandSteps => w.node \in Nodes}
HandlersOK == work \in [Orchestrators -> [Flows -> GoodWork]]
TypeInv ==
    /\ RepositoryTypeOK /\ BusTypeOK /\ LoopTypeOK /\ HandlersOK
    /\ ResourceTypeOK

(* The handler states that the actions build are well typed.                *)
LEMMA WorkTypes ==
    /\ Idle \in GoodWork
    /\ \A s \in SUBSET Nodes : StoppingWork(s) \in GoodWork /\ WorkAt("claim", s, FALSE) \in GoodWork
    /\ \A s \in SUBSET Nodes : WorkAt("dropUser", s, FALSE) \in GoodWork
    /\ \A s \in SUBSET Nodes, p \in BOOLEAN : DeployingWork(s, p) \in GoodWork
  BY DEF Idle, GoodWork, Work, WorkAt, StoppingWork, DeployingWork, Steps, StopSteps,
     NodeSteps, StartSteps, HandSteps

LEMMA NewWorkType ==
    ASSUME NEW o \in Orchestrators, NEW f \in Flows
    PROVE  NewWork(o, f) \in GoodWork
  BY WorkTypes DEF NewWork, Running

LEMMA InitTypes == Init => TypeInv
<1> SUFFICES ASSUME Init PROVE TypeInv
  OBVIOUS
<1>1. RepositoryTypeOK
  <2>1. requests = 0 /\ faults = 0
    BY DEF Init
  <2>2. repo \in [Flows -> RepoStatuses]
    BY DEF Init, RepoStatuses
  <2> QED
    BY <2>1, <2>2, BoundsAssumption DEF RepositoryTypeOK
<1>2. BusTypeOK
  BY DEF Init, BusTypeOK, RecordStatuses, Statuses, Readings
<1>3. LoopTypeOK
  BY DEF Init, LoopTypeOK, RecordStatuses, Statuses
<1>4. HandlersOK
  BY WorkTypes DEF Init, HandlersOK
<1>5. ResourceTypeOK
  <2>1. tokens \in [Flows -> Rows]
    BY DEF Init, Rows
  <2>2. issued \in [Flows -> Int] /\ unrecorded \in [Flows -> Nat]
    <3>1. issued = [f \in Flows |-> 0] /\ unrecorded = [f \in Flows |-> 0]
      BY DEF Init
    <3> QED
      BY <3>1
  <2>3. /\ deployed = {} /\ secrets = {} /\ queues = {}
        /\ users = {} /\ creds = {} /\ cut = {}
    BY DEF Init
  <2> QED
    BY <2>1, <2>2, <2>3 DEF ResourceTypeOK
<1> QED
  BY <1>1, <1>2, <1>3, <1>4, <1>5 DEF TypeInv

LEMMA RepositoryTypes ==
    ASSUME TypeInv, NEW f \in Flows,
           StartFlow(f) \/ StopFlow(f) \/ FlowStarted(f) \/ FlowStopped(f) \/ FlowFailed(f)
    PROVE  TypeInv'
<1>1. RepositoryTypeOK'
  BY BoundsAssumption DEF TypeInv, RepositoryTypeOK, StartFlow, StopFlow, Request, Fault,
     FlowStarted, FlowStopped, FlowFailed, RepoHandles, RepoStatuses
<1>2. BusTypeOK'
  <2>1. events' \in [Events -> [Flows -> Nat]]
    <3>0. events \in [Events -> [Flows -> Nat]]
      BY DEF TypeInv, BusTypeOK
    <3>1. /\ \A e \in Events : e \in {"flow.started", "flow.stopped", "flow.failed"} /\ events[e][f] > 0
                => events[e][f] - 1 \in Nat
          /\ \A e \in Events : events[e][f] + 1 \in Nat
      BY <3>0
    <3>2. {"flow.starting", "flow.stopping", "flow.started", "flow.stopped", "flow.failed"}
              \subseteq Events
      BY DEF Events, OrchestratorEvents, RepoEvents
    <3>3. CASE StartFlow(f) \/ StopFlow(f)
      BY <3>0, <3>1, <3>2, <3>3 DEF StartFlow, StopFlow, Request, Publish
    <3>4. CASE FlowStarted(f)
      BY <3>0, <3>1, <3>2, <3>4 DEF FlowStarted, RepoHandles
    <3>5. CASE FlowStopped(f)
      BY <3>0, <3>1, <3>2, <3>5 DEF FlowStopped, RepoHandles
    <3>6. CASE FlowFailed(f)
      BY <3>0, <3>1, <3>2, <3>6 DEF FlowFailed, RepoHandles
    <3> QED
      BY <3>3, <3>4, <3>5, <3>6
  <2>2. UNCHANGED <<record, receiving>>
    BY DEF StartFlow, StopFlow, Request, FlowStarted, FlowStopped, FlowFailed, RepoHandles
  <2> QED
    BY <2>1, <2>2 DEF TypeInv, BusTypeOK
<1>3. UNCHANGED <<lifeVars, loopVars, lostVars, work, clusterVars, brokerVars, tokenVars>>
  BY DEF StartFlow, StopFlow, Request, FlowStarted, FlowStopped, FlowFailed, RepoHandles
<1> QED
  BY <1>1, <1>2, <1>3 DEF TypeInv, LoopTypeOK, HandlersOK, ResourceTypeOK

(* A step that may fail stays within the bound on faults.                   *)
LEMMA FaultType ==
    ASSUME RepositoryTypeOK, UNCHANGED repoVars, UNCHANGED faults \/ Fault
    PROVE  RepositoryTypeOK'
<1>1. faults' \in 0..MaxFaults
  <2>1. faults \in 0..MaxFaults
    BY DEF RepositoryTypeOK
  <2>2. CASE UNCHANGED faults
    BY <2>1, <2>2
  <2>3. CASE Fault
    <3>1. faults < MaxFaults /\ faults' = faults + 1
      BY <2>3 DEF Fault
    <3> QED
      BY <2>1, <3>1, BoundsAssumption
  <2> QED
    BY <2>2, <2>3
<1> QED
  BY <1>1 DEF RepositoryTypeOK

(* An event handler reads the document in one step and saves it in another. *)
LEMMA EventTypes ==
    ASSUME TypeInv, NEW o \in Orchestrators, NEW f \in Flows,
           \/ ReceiveFlowStarting(o, f) \/ ReceiveFlowStopping(o, f)
           \/ EventStep(o, f)
    PROVE  TypeInv'
<1> USE DEF TypeInv
<1>1. CASE \E e \in OrchestratorEvents, status \in RecordStatuses :
               Receive(o, f, e, status)
  <2> PICK e \in OrchestratorEvents, status \in RecordStatuses :
               Receive(o, f, e, status)
    BY <1>1
  <2>1. events' \in [Events -> [Flows -> Nat]]
    <3>1. events[e][f] > 0 /\ events' = [events EXCEPT ![e][f] = @ - 1]
      BY DEF Receive
    <3> QED
      BY <3>1 DEF BusTypeOK, Events
  <2>2. Reading(f, status) \in Readings
    BY DEF Reading, Readings
  <2>3. receiving' \in [Orchestrators -> [OrchestratorEvents -> [Flows -> Readings]]]
    BY <2>2 DEF BusTypeOK, Receive
  <2> QED
    BY <2>1, <2>3 DEF Receive, RepositoryTypeOK, BusTypeOK, LoopTypeOK,
       HandlersOK, ResourceTypeOK
<1>2. CASE EventStep(o, f)
  <2> USE <1>2 DEF EventStep, HandleFlowStarting, HandleFlowStopping
  <2>1. record' \in [Flows -> RecordStatuses]
    BY DEF BusTypeOK, RecordStatuses, Statuses
  <2>2. receiving' \in [Orchestrators -> [OrchestratorEvents -> [Flows -> Readings]]]
    <3>1. PICK e \in OrchestratorEvents :
              receiving' = [receiving EXCEPT ![o][e][f] = "no handler"]
      BY DEF OrchestratorEvents
    <3> QED
      BY <3>1 DEF BusTypeOK, Readings
  <2>3. RepositoryTypeOK'
    <3>1. UNCHANGED repoVars /\ (UNCHANGED faults \/ Fault)
      OBVIOUS
    <3> QED
      BY <3>1, FaultType
  <2>4. UNCHANGED <<repoVars, events, lifeVars, loopVars, work, lostVars,
                    clusterVars, brokerVars, tokenVars>>
    OBVIOUS
  <2> QED
    BY <2>1, <2>2, <2>3, <2>4 DEF BusTypeOK, LoopTypeOK, HandlersOK, ResourceTypeOK
<1> QED
  BY <1>1, <1>2 DEF ReceiveFlowStarting, ReceiveFlowStopping, OrchestratorEvents,
     RecordStatuses, Statuses

LEMMA LoopTypes ==
    ASSUME TypeInv, NEW o \in Orchestrators,
           LoopStep(o) \/ TickFails(o) \/ LostStep(o)
    PROVE  TypeInv'
<1> USE DEF TypeInv
<1>1. CASE FindAll(o)
  BY <1>1 DEF FindAll, RepositoryTypeOK, BusTypeOK, LoopTypeOK, HandlersOK, ResourceTypeOK
<1>2. CASE GetAppList(o)
  BY <1>2 DEF GetAppList, RepositoryTypeOK, BusTypeOK, LoopTypeOK, HandlersOK,
     ResourceTypeOK
<1>3. CASE HandleFlows(o)
  <2>1. HandlersOK'
    <3>1. [f \in Flows |-> IF work[o][f].pc = "idle" THEN NewWork(o, f)
                           ELSE work[o][f]] \in [Flows -> GoodWork]
      BY NewWorkType DEF HandlersOK
    <3> QED
      BY <1>3, <3>1 DEF HandleFlows, HandlersOK
  <2>2. LoopTypeOK'
    BY <1>3 DEF HandleFlows, LoopTypeOK, RecordStatuses, Statuses
  <2> QED
    BY <1>3, <2>1, <2>2 DEF HandleFlows, RepositoryTypeOK, BusTypeOK, ResourceTypeOK
<1>4. CASE LostStep(o)
  <2> PICK app \in Apps : DestroyLost(o, app) \/ DropLostSecret(o, app)
    BY <1>4 DEF LostStep
  <2>1. LoopTypeOK'
    <3>1. /\ lost' \in [Orchestrators -> SUBSET Apps]
          /\ unsecret' \in [Orchestrators -> SUBSET Apps]
      <4>1. CASE DestroyLost(o, app)
        BY <4>1 DEF DestroyLost, LoopTypeOK
      <4>2. CASE DropLostSecret(o, app)
        BY <4>2 DEF DropLostSecret, LoopTypeOK
      <4> QED
        BY <4>1, <4>2
    <3>2. UNCHANGED <<lifeVars, loopVars>>
      BY DEF DestroyLost, DropLostSecret
    <3> QED
      BY <3>1, <3>2 DEF LoopTypeOK
  <2>2. ResourceTypeOK'
    BY DEF DestroyLost, DropLostSecret, Undeploy, DeleteSecret, ResourceTypeOK
  <2>3. UNCHANGED repoVars /\ (UNCHANGED faults \/ Fault)
    BY DEF DestroyLost, DropLostSecret, Undeploy, DeleteSecret
  <2> QED
    BY <2>1, <2>2, <2>3, FaultType DEF DestroyLost, DropLostSecret, BusTypeOK, HandlersOK
<1>5. CASE TickFails(o)
  <2>1. LoopTypeOK'
    BY <1>5 DEF TickFails, LoopTypeOK, RecordStatuses, Statuses
  <2> QED
    BY <1>5, <2>1, FaultType DEF TickFails, BusTypeOK, HandlersOK, ResourceTypeOK
<1> QED
  BY <1>1, <1>2, <1>3, <1>4, <1>5 DEF LoopStep

Allowed(o, f, pc) ==
    pc \in HandSteps => work[o][f].node \in Nodes

(* A handler moves on: its own entry of work is replaced.                   *)
LEMMA MoveTypes ==
    ASSUME HandlersOK, NEW o \in Orchestrators, NEW f \in Flows
    PROVE  /\ \A w \in GoodWork : work' = [work EXCEPT ![o][f] = w] => HandlersOK'
           /\ \A pc \in Steps : Allowed(o, f, pc) /\ Goto(o, f, pc) => HandlersOK'
           /\ Done(o, f) => HandlersOK'
           /\ NextNode(o, f) => HandlersOK'
<1>1. \A w \in GoodWork : work' = [work EXCEPT ![o][f] = w] => HandlersOK'
  BY DEF HandlersOK
<1>2. ASSUME NEW pc \in Steps, Allowed(o, f, pc), Goto(o, f, pc) PROVE HandlersOK'
  <2>1. work[o][f] \in GoodWork
    BY DEF HandlersOK
  <2>2. [work[o][f] EXCEPT !.pc = pc] \in GoodWork
    BY <1>2, <2>1 DEF GoodWork, Work, Allowed
  <2> QED
    BY <1>1, <1>2, <2>2 DEF Goto
<1>3. Done(o, f) => HandlersOK'
  BY <1>1, WorkTypes DEF Done
<1>4. ASSUME NextNode(o, f) PROVE HandlersOK'
  <2> DEFINE next == DeployingWork(work[o][f].left \ {work[o][f].node},
                                   work[o][f].preparing)
  <2>0. work[o][f] \in GoodWork
    BY DEF HandlersOK
  <2>1. next \in GoodWork
    BY <2>0, WorkTypes DEF GoodWork, Work
  <2>2. [next EXCEPT !.queued = TRUE] \in GoodWork
    BY <2>1 DEF GoodWork, Work
  <2>3. work' = [work EXCEPT ![o][f] = IF next.pc = "nodes"
                                       THEN [next EXCEPT !.queued = TRUE] ELSE next]
    BY <1>4 DEF NextNode
  <2> HIDE DEF next
  <2> QED
    BY <2>1, <2>2, <2>3, <1>1
<1> QED
  BY <1>1, <1>2, <1>3, <1>4

(* The steps of a handler leave the repository, the event handlers and the  *)
(* loop alone.                                                              *)
LEMMA HandlerFrame ==
    ASSUME TypeInv, UNCHANGED <<repoVars, receiving, lifeVars, loopVars, lostVars>>,
           UNCHANGED faults \/ Fault,
           events' \in [Events -> [Flows -> Nat]],
           record' \in [Flows -> RecordStatuses],
           HandlersOK', ResourceTypeOK'
    PROVE  TypeInv'
  BY FaultType DEF TypeInv, BusTypeOK, LoopTypeOK

LEMMA PublishType ==
    ASSUME BusTypeOK, NEW e \in Events, NEW f \in Flows
    PROVE  /\ Publish(e, f) => events' \in [Events -> [Flows -> Nat]]
           /\ UNCHANGED events => events' \in [Events -> [Flows -> Nat]]
<1>1. events \in [Events -> [Flows -> Nat]]
  BY DEF BusTypeOK
<1>2. events[e][f] + 1 \in Nat
  BY <1>1
<1>3. [events EXCEPT ![e][f] = @ + 1] \in [Events -> [Flows -> Nat]]
  BY <1>1, <1>2
<1> QED
  BY <1>1, <1>3 DEF Publish

LEMMA StopTypes ==
    ASSUME TypeInv, NEW o \in Orchestrators, NEW f \in Flows, StopStep(o, f)
    PROVE  TypeInv'
<1> USE DEF TypeInv
<1> DEFINE Rest == /\ UNCHANGED <<repoVars, receiving, lifeVars, loopVars, lostVars>>
                   /\ UNCHANGED faults \/ Fault
                   /\ events' \in [Events -> [Flows -> Nat]]
                   /\ record' \in [Flows -> RecordStatuses]
                   /\ ResourceTypeOK'
<1>0. work[o][f] \in GoodWork
  BY DEF HandlersOK
<1>1. ASSUME NEW n \in Nodes, DestroyApp(o, f, n) PROVE HandlersOK' /\ Rest
  <2>1. [work[o][f] EXCEPT !.pc = "dropSecret", !.node = n] \in GoodWork
    BY <1>0 DEF GoodWork, Work, Steps, StopSteps, HandSteps
  <2>2. HandlersOK'
    BY <1>1, <2>1, MoveTypes DEF DestroyApp
  <2> QED
    BY <1>1, <2>2 DEF DestroyApp, Undeploy, BusTypeOK, ResourceTypeOK
<1>2. ASSUME DropSecret(o, f) PROVE HandlersOK' /\ Rest
  <2>1. StoppingWork(work[o][f].left \ {work[o][f].node}) \in GoodWork
    BY <1>0, WorkTypes DEF GoodWork, Work
  <2>2. HandlersOK'
    BY <1>2, <2>1, MoveTypes DEF DropSecret
  <2> QED
    BY <1>2, <2>2 DEF DropSecret, DeleteSecret, BusTypeOK, ResourceTypeOK
<1>3. ASSUME DropQueues(o, f) PROVE HandlersOK' /\ Rest
  <2>1. HandlersOK'
    BY <1>3, MoveTypes DEF DropQueues, Allowed, Steps, StopSteps, HandSteps
  <2> QED
    BY <1>3, <2>1 DEF DropQueues, BusTypeOK, ResourceTypeOK
<1>7. ASSUME ListCreds(o, f) PROVE HandlersOK' /\ Rest
  <2>1. WorkAt("dropUser", {n \in Nodes : <<f, n>> \in creds}, FALSE) \in GoodWork
    BY WorkTypes
  <2>2. HandlersOK'
    BY <1>7, <2>1, MoveTypes DEF ListCreds
  <2> QED
    BY <1>7, <2>2 DEF ListCreds, BusTypeOK, ResourceTypeOK
<1>8. ASSUME DropUser(o, f) PROVE HandlersOK' /\ Rest
  <2>1. \A n \in Nodes : [work[o][f] EXCEPT !.pc = "dropCred", !.node = n] \in GoodWork
    BY <1>0 DEF GoodWork, Work, Steps, StopSteps
  <2>2. work[o][f].left \subseteq Nodes
    BY <1>0 DEF GoodWork, Work
  <2>3. "dropToken" \in Steps /\ Allowed(o, f, "dropToken")
    BY DEF Allowed, Steps, StopSteps, HandSteps
  <2>4. HandlersOK'
    <3>1. CASE Goto(o, f, "dropToken")
      BY <2>3, <3>1, MoveTypes
    <3>2. ASSUME NEW n \in work[o][f].left,
                 work' = [work EXCEPT ![o][f] = [@ EXCEPT !.pc = "dropCred", !.node = n]]
          PROVE  HandlersOK'
      BY <2>1, <2>2, <3>2, MoveTypes
    <3> QED
      BY <1>8, <3>1, <3>2 DEF DropUser
  <2>5. ResourceTypeOK'
    BY <1>8 DEF DropUser, ResourceTypeOK
  <2> QED
    BY <1>8, <2>4, <2>5 DEF DropUser, BusTypeOK
<1>9. ASSUME DropCred(o, f) PROVE HandlersOK' /\ Rest
  <2>1. WorkAt("dropUser", work[o][f].left \ {work[o][f].node}, FALSE) \in GoodWork
    BY <1>0, WorkTypes DEF GoodWork, Work
  <2>2. HandlersOK'
    BY <1>9, <2>1, MoveTypes DEF DropCred
  <2>3. ResourceTypeOK'
    BY <1>9 DEF DropCred, ResourceTypeOK
  <2> QED
    BY <1>9, <2>2, <2>3 DEF DropCred, BusTypeOK
<1>10. ASSUME DropToken(o, f) \/ DropRow(o, f) PROVE HandlersOK' /\ Rest
  <2>1. PICK pc \in {"dropRow", "sayStopped"} : Goto(o, f, pc)
    BY <1>10 DEF DropToken, DropRow
  <2>2. pc \in Steps /\ Allowed(o, f, pc)
    BY DEF Allowed, Steps, StopSteps, HandSteps
  <2>3. HandlersOK'
    BY <2>1, <2>2, MoveTypes
  <2>4. tokens' \in [Flows -> Rows] /\ issued' \in [Flows -> Int]
    BY <1>10 DEF DropToken, DropRow, ResourceTypeOK, Rows
  <2> QED
    BY <1>10, <2>3, <2>4 DEF DropToken, DropRow, BusTypeOK, ResourceTypeOK
<1>4. ASSUME SayStopped(o, f) PROVE HandlersOK' /\ Rest
  <2>1. HandlersOK'
    BY <1>4, MoveTypes DEF SayStopped, Allowed, Steps, StopSteps, HandSteps
  <2>2. events' \in [Events -> [Flows -> Nat]]
    BY <1>4, PublishType DEF SayStopped, Events, RepoEvents
  <2> QED
    BY <1>4, <2>1, <2>2 DEF SayStopped, BusTypeOK, ResourceTypeOK
<1>5. ASSUME OnStopped(o, f) PROVE HandlersOK' /\ Rest
  <2>1. HandlersOK'
    BY <1>5, MoveTypes DEF OnStopped
  <2> QED
    BY <1>5, <2>1 DEF OnStopped, BusTypeOK, ResourceTypeOK, RecordStatuses, Statuses
<1>6. HandlersOK' /\ Rest
  BY <1>1, <1>2, <1>3, <1>4, <1>5, <1>7, <1>8, <1>9, <1>10 DEF StopStep
<1> QED
  BY <1>6, HandlerFrame

(* A save writes a status that the record may have and moves the handler.   *)
LEMMA SaveTypes ==
    ASSUME TypeInv, NEW o \in Orchestrators, NEW f \in Flows,
           NEW status \in RecordStatuses, NEW next \in GoodWork,
           Save(o, f, status, next)
    PROVE  TypeInv'
<1>1. HandlersOK'
  <2>1. work' = [work EXCEPT ![o][f] = next] \/ Done(o, f)
    BY DEF Save
  <2> QED
    BY <2>1, MoveTypes DEF TypeInv
<1>2. record' \in [Flows -> RecordStatuses]
  BY DEF Save, TypeInv, BusTypeOK
<1> QED
  BY <1>1, <1>2, HandlerFrame DEF Save, TypeInv, BusTypeOK, ResourceTypeOK

LEMMA StartTypes ==
    ASSUME TypeInv, NEW o \in Orchestrators, NEW f \in Flows, StartStep(o, f)
    PROVE  TypeInv'
<1> USE DEF TypeInv
<1> DEFINE Rest == /\ UNCHANGED <<repoVars, receiving, lifeVars, loopVars, lostVars>>
                   /\ UNCHANGED faults \/ Fault
                   /\ events' \in [Events -> [Flows -> Nat]]
                   /\ record' \in [Flows -> RecordStatuses]
                   /\ ResourceTypeOK'
<1>0. work[o][f] \in GoodWork
  BY DEF HandlersOK
<1>1. ASSUME NEW n \in Nodes, PrepareNode(o, f, n) PROVE HandlersOK' /\ Rest
  <2>1. [work[o][f] EXCEPT !.pc = "credential", !.node = n, !.queued = TRUE] \in GoodWork
    BY <1>0 DEF GoodWork, Work, Steps, NodeSteps, HandSteps
  <2>2. HandlersOK'
    BY <1>1, <2>1, MoveTypes DEF PrepareNode
  <2> QED
    BY <1>1, <2>2 DEF PrepareNode, BusTypeOK, ResourceTypeOK
<1>2. CASE OnStarting(o, f)
  <2>1. DeployingWork(work[o][f].left, TRUE) \in GoodWork
    BY <1>0, WorkTypes DEF GoodWork, Work
  <2> QED
    BY <1>2, <2>1, SaveTypes DEF OnStarting, RecordStatuses
<1>3. ASSUME FindCred(o, f) \/ PutUser(o, f) \/ SaveCred(o, f) PROVE HandlersOK' /\ Rest
  <2>1. work[o][f].node \in Nodes
    BY <1>0, <1>3 DEF FindCred, PutUser, SaveCred, At, GoodWork, HandSteps
  <2>2. PICK pc \in {"secret", "putUser", "saveCred"} : Goto(o, f, pc)
    BY <1>3 DEF FindCred, PutUser, SaveCred
  <2>3. pc \in Steps /\ Allowed(o, f, pc)
    BY <2>1 DEF Allowed, Steps, NodeSteps, HandSteps
  <2>4. HandlersOK'
    BY <2>2, <2>3, MoveTypes
  <2>5. ResourceTypeOK'
    BY <1>3, <2>1 DEF FindCred, PutUser, SaveCred, ResourceTypeOK, Apps
  <2> QED
    BY <1>3, <2>4, <2>5 DEF FindCred, PutUser, SaveCred, BusTypeOK
<1>4. ASSUME EnsureSecret(o, f) PROVE HandlersOK' /\ Rest
  <2>1. work[o][f].node \in Nodes
    BY <1>0, <1>4 DEF EnsureSecret, At, GoodWork, HandSteps
  <2>2. HandlersOK'
    BY <1>4, <2>1, MoveTypes DEF EnsureSecret, Allowed, Steps, NodeSteps
  <2> QED
    BY <1>4, <2>1, <2>2 DEF EnsureSecret, BusTypeOK, ResourceTypeOK, Apps
<1>5. ASSUME CreateDeployment(o, f) PROVE HandlersOK' /\ Rest
  <2>1. work[o][f].node \in Nodes
    BY <1>0, <1>5 DEF CreateDeployment, At, GoodWork, HandSteps
  <2>2. HandlersOK'
    BY <1>5, MoveTypes DEF CreateDeployment
  <2> QED
    BY <1>5, <2>1, <2>2 DEF CreateDeployment, BusTypeOK, ResourceTypeOK, Apps
<1>6. ASSUME GetToken(o, f) \/ SaveToken(o, f) PROVE HandlersOK' /\ Rest
  <2>1. PICK pc \in {"prepared", "saveToken"} : Goto(o, f, pc)
    BY <1>6 DEF GetToken, SaveToken
  <2>2. pc \in Steps /\ Allowed(o, f, pc)
    BY DEF Allowed, Steps, StartSteps, HandSteps
  <2>3. HandlersOK'
    BY <2>1, <2>2, MoveTypes
  <2>4. ResourceTypeOK'
    BY <1>6 DEF GetToken, SaveToken, ResourceTypeOK, Rows
  <2>5. UNCHANGED faults \/ Fault
    BY <1>6 DEF GetToken, SaveToken
  <2> QED
    BY <1>6, <2>3, <2>4, <2>5 DEF GetToken, SaveToken, BusTypeOK
<1>7. CASE OnPrepared(o, f)
  <2>1. [work[o][f] EXCEPT !.pc = "sayStarted"] \in GoodWork
    BY <1>0 DEF GoodWork, Work, Steps, StartSteps, HandSteps
  <2> QED
    BY <1>7, <2>1, SaveTypes DEF OnPrepared, RecordStatuses, Statuses
<1>8. ASSUME SayStarted(o, f) PROVE HandlersOK' /\ Rest
  <2>1. HandlersOK'
    BY <1>8, MoveTypes DEF SayStarted, Allowed, Steps, StartSteps, HandSteps
  <2>2. events' \in [Events -> [Flows -> Nat]]
    BY <1>8, PublishType DEF SayStarted, Events, RepoEvents
  <2> QED
    BY <1>8, <2>1, <2>2 DEF SayStarted, BusTypeOK, ResourceTypeOK
<1>9. CASE OnStarted(o, f)
  BY <1>9, WorkTypes, SaveTypes DEF OnStarted, RecordStatuses, Statuses
<1>10. HandlersOK' /\ Rest => TypeInv'
  BY HandlerFrame
<1> HIDE DEF TypeInv, Rest
<1> QED
  BY <1>1, <1>2, <1>3, <1>4, <1>5, <1>6, <1>7, <1>8, <1>9, <1>10 DEF StartStep

LEMMA FailureTypes ==
    ASSUME TypeInv, NEW o \in Orchestrators, NEW f \in Flows, FailureStep(o, f)
    PROVE  TypeInv'
<1>1. HandlersOK'
  BY MoveTypes DEF TypeInv, FailureStep, CreateAppFails, FlowFails, HandlerFails
<1>2. events' \in [Events -> [Flows -> Nat]]
  BY PublishType DEF TypeInv, FailureStep, CreateAppFails, FlowFails, HandlerFails,
     Events, RepoEvents
<1>3. /\ UNCHANGED <<repoVars, receiving, lifeVars, loopVars, lostVars, record,
                     clusterVars, queues, creds, tokenVars>>
      /\ Fault
  BY DEF FailureStep, CreateAppFails, FlowFails, HandlerFails
<1>4. users' \in SUBSET Apps /\ cut' \in SUBSET Apps
  <2>1. work[o][f] \in GoodWork
    BY DEF TypeInv, HandlersOK
  <2>2. CASE CreateAppFails(o, f)
    BY <2>2 DEF CreateAppFails, TypeInv, ResourceTypeOK
  <2>3. CASE FlowFails(o, f)
    <3>1. CASE UNCHANGED <<users, cut>>
      BY <3>1 DEF TypeInv, ResourceTypeOK
    <3>2. CASE work[o][f].pc \in {"putUser", "saveCred"}
      <4>1. <<f, work[o][f].node>> \in Apps
        BY <2>1, <3>2 DEF GoodWork, HandSteps, Apps
      <4> QED
        BY <2>3, <4>1 DEF FlowFails, TypeInv, ResourceTypeOK
    <3> QED
      BY <2>3, <3>1, <3>2 DEF FlowFails, At
  <2>4. CASE HandlerFails(o, f)
    <3>1. At(o, f, "dropCred") => <<f, work[o][f].node>> \in Apps
      BY <2>1 DEF At, GoodWork, HandSteps, Apps
    <3> QED
      BY <2>4, <3>1 DEF HandlerFails, TypeInv, ResourceTypeOK
  <2> QED
    BY <2>2, <2>3, <2>4 DEF FailureStep
<1> QED
  BY <1>1, <1>2, <1>3, <1>4, HandlerFrame DEF TypeInv, BusTypeOK, ResourceTypeOK

LEMMA ProcessTypes ==
    ASSUME TypeInv, NEW o \in Orchestrators, Crash(o) \/ Restart(o)
    PROVE  TypeInv'
<1> USE DEF TypeInv
<1>1. CASE Crash(o)
  <2>1. events' \in [Events -> [Flows -> Nat]]
    <3>1. \A e \in Events, f \in Flows : Unacknowledged(o, e, f) \in Nat
      BY DEF Unacknowledged
    <3>2. events' = [e \in Events |-> [f \in Flows |->
                       events[e][f] + Unacknowledged(o, e, f)]]
      BY <1>1 DEF Crash
    <3> QED
      BY <3>1, <3>2 DEF BusTypeOK
  <2>2. receiving' \in [Orchestrators -> [OrchestratorEvents -> [Flows -> Readings]]]
    BY <1>1 DEF Crash, BusTypeOK, Readings
  <2>3. HandlersOK'
    BY <1>1, WorkTypes DEF Crash, HandlersOK
  <2>4. LoopTypeOK'
    <3>1. vacant' \in Nat
      <4>1. vacant' = vacant + 1
        BY <1>1 DEF Crash
      <4> QED
        BY <4>1 DEF LoopTypeOK
    <3>2. /\ life' \in [Orchestrators -> {"new", "up", "dead"}]
          /\ tick' \in [Orchestrators -> {"idle", "flows", "apps"}]
      BY <1>1 DEF Crash, LoopTypeOK
    <3>3. allFlows' \in [Orchestrators -> [Flows -> RecordStatuses]]
      BY <1>1 DEF Crash, LoopTypeOK, RecordStatuses, Statuses
    <3>4. /\ allApps' \in [Orchestrators -> SUBSET Apps]
          /\ lost' \in [Orchestrators -> SUBSET Apps]
          /\ unsecret' \in [Orchestrators -> SUBSET Apps]
      BY <1>1 DEF Crash, LoopTypeOK
    <3> QED
      BY <3>1, <3>2, <3>3, <3>4 DEF LoopTypeOK
  <2>5. UNCHANGED <<repoVars, faults, record, clusterVars, queues, users, creds, tokens, issued>>
    BY <1>1 DEF Crash
  <2>6. cut' \in SUBSET Apps
    <3>1. Halved(o) \subseteq Apps
      <4>1. \A f \in Flows : work[o][f] \in GoodWork
        BY DEF HandlersOK
      <4> QED
        BY <4>1 DEF Halved, GoodWork, HandSteps, Apps
    <3> QED
      BY <1>1, <3>1 DEF Crash, ResourceTypeOK
  <2>7. unrecorded' \in [Flows -> Nat]
    <3>1. \A f \in Flows : unrecorded[f] \in Nat /\ unrecorded[f] + 1 \in Nat
      BY DEF ResourceTypeOK
    <3> QED
      BY <1>1, <3>1 DEF Crash
  <2> QED
    BY <2>1, <2>2, <2>3, <2>4, <2>5, <2>6, <2>7 DEF RepositoryTypeOK, BusTypeOK, ResourceTypeOK
<1>2. CASE Restart(o)
  <2>1. vacant' \in Nat
    <3>1. vacant > 0 /\ vacant' = vacant - 1
      BY <1>2 DEF Restart
    <3> QED
      BY <3>1 DEF LoopTypeOK
  <2>2. life' \in [Orchestrators -> {"new", "up", "dead"}]
    BY <1>2 DEF Restart, LoopTypeOK
  <2> QED
    BY <1>2, <2>1, <2>2 DEF Restart, RepositoryTypeOK, BusTypeOK, LoopTypeOK,
       HandlersOK, ResourceTypeOK
<1> QED
  BY <1>1, <1>2

LEMMA TypesPreserved == TypeInv /\ [Next]_vars => TypeInv'
<1> SUFFICES ASSUME TypeInv, [Next]_vars PROVE TypeInv'
  OBVIOUS
<1>1. CASE UNCHANGED vars
  BY <1>1 DEF TypeInv, RepositoryTypeOK, BusTypeOK, LoopTypeOK, HandlersOK, ResourceTypeOK
<1>2. CASE RequestStep \/ RepoStep
  BY <1>2, RepositoryTypes DEF RequestStep, RepoStep
<1>3. CASE \E f \in Flows : ReceiveStep(f)
  BY <1>3, EventTypes DEF ReceiveStep
<1>4. CASE \E o \in Orchestrators, f \in Flows :
             EventStep(o, f) \/ StopStep(o, f) \/ StartStep(o, f) \/ FailureStep(o, f)
  BY <1>4, EventTypes, StopTypes, StartTypes, FailureTypes
<1>5. CASE \E o \in Orchestrators :
             LoopStep(o) \/ TickFails(o) \/ LostStep(o) \/ Crash(o) \/ Restart(o)
  BY <1>5, LoopTypes, ProcessTypes
<1> QED
  BY <1>1, <1>2, <1>3, <1>4, <1>5 DEF Next

(* For any flows, nodes, replicas and bounds every variable keeps its type; *)
(* in particular every user, secret and deployment is that of a flow node.  *)
THEOREM TypeCorrect == Spec => []TypeOK
<1>1. TypeInv => TypeOK
  BY DEF TypeInv, TypeOK, WorkTypeOK, HandlersOK, GoodWork
<1>2. Spec => []TypeInv
  BY InitTypes, TypesPreserved, PTL DEF Spec
<1> QED
  BY <1>1, <1>2, PTL
----------------------------------------------------------------------------
(* A single replica, which may crash and be replaced.  The claims of a      *)
(* handler about the broker and the tokens hold because nothing else works  *)
(* on its flow: one process is up, a process that is not up has no handler, *)
(* and a process has one handler per flow.                                  *)

SingleReplica == \A p, q \in InitialReplicas : p = q

OneUp ==
    /\ \A p, q \in Orchestrators : life[p] = "up" /\ life[q] = "up" => p = q
    /\ vacant > 0 => \A p \in Orchestrators : life[p] # "up"
    /\ vacant \in {0, 1}

OnlyTheLiveWork ==
    \A o \in Orchestrators : life[o] # "up" =>
        tick[o] = "idle" /\ \A f \in Flows : work[o][f] = Idle

(* What a start has made so far and still finds.                            *)
Wired(o, f) ==
    /\ work[o][f].queued => f \in queues
    /\ work[o][f].pc \in {"credential", "putUser", "saveCred", "secret", "deploy"} =>
          work[o][f].queued
    /\ work[o][f].pc = "saveCred" => <<f, work[o][f].node>> \in users
    /\ work[o][f].pc \in {"secret", "deploy"} => <<f, work[o][f].node>> \in creds

(* What a stop has deleted so far stays deleted, and the credentials that   *)
(* are left are all on its list.                                            *)
TornDown(o, f) ==
    /\ work[o][f].pc \in StopSteps => ~work[o][f].queued
    /\ work[o][f].pc \in {"dropCreds", "dropUser", "dropCred", "dropToken", "dropRow",
                          "sayStopped", "forget"} => f \notin queues
    /\ work[o][f].pc \in {"dropUser", "dropCred"} =>
          \A n \in Nodes : <<f, n>> \in creds => n \in work[o][f].left
    /\ work[o][f].pc = "dropCred" => <<f, work[o][f].node>> \notin users
    /\ work[o][f].pc \in {"dropToken", "dropRow", "sayStopped", "forget"} =>
          \A n \in Nodes : <<f, n>> \notin creds
    /\ work[o][f].pc = "dropRow" => tokens[f] = "dead"
    /\ work[o][f].pc \in {"sayStopped", "forget"} => tokens[f] = "none"

HandlersHold == \A o \in Orchestrators, f \in Flows : Wired(o, f) /\ TornDown(o, f)

(* A user and its credential come and go together, but for the node that a  *)
(* handler has in hand between the two and those a failure left.            *)
InHand(o, f, n) == work[o][f].pc \in {"saveCred", "dropCred"} /\ work[o][f].node = n

Paired(f, n) == <<f, n>> \in cut \/ (<<f, n>> \in users <=> <<f, n>> \in creds)

Pairs(f) ==
    \A n \in Nodes : Paired(f, n) \/ \E o \in Orchestrators : InHand(o, f, n)

(* Every token is the one of the row, one that a handler is about to store, *)
(* or one that a failure left without a row.                                *)
Count(P) == IF P THEN 1 ELSE 0

Counted(f) ==
    issued[f] = unrecorded[f] + Count(tokens[f] = "live")
                + Count(\E o \in Orchestrators : At(o, f, "saveToken"))

SingleInv ==
    /\ TypeInv /\ OneUp /\ OnlyTheLiveWork /\ HandlersHold
    /\ \A f \in Flows : Pairs(f) /\ Counted(f)

(* A handler that has just begun, or turns to its next node or app, has     *)
(* promised nothing yet.                                                    *)
Fresh(w) ==
    ~w.queued /\ w.pc \in {"idle", "claim", "destroy", "dropQueues", "nodes", "getToken"}

LEMMA FreshWork ==
    /\ Fresh(Idle)
    /\ \A s \in SUBSET Nodes : Fresh(StoppingWork(s)) /\ Fresh(WorkAt("claim", s, FALSE))
    /\ \A s \in SUBSET Nodes, p \in BOOLEAN :
          /\ Fresh(DeployingWork(s, p))
          /\ DeployingWork(s, p).pc \in {"nodes", "getToken", "idle"}
  BY DEF Fresh, Idle, WorkAt, StoppingWork, DeployingWork

LEMMA FreshNewWork ==
    ASSUME NEW o \in Orchestrators, NEW f \in Flows
    PROVE  Fresh(NewWork(o, f))
  BY FreshWork DEF NewWork, Running

LEMMA FreshHolds ==
    \A o \in Orchestrators, f \in Flows :
        Fresh(work[o][f]) => Wired(o, f) /\ TornDown(o, f)
<1> SUFFICES ASSUME NEW o \in Orchestrators, NEW f \in Flows, Fresh(work[o][f])
             PROVE  Wired(o, f) /\ TornDown(o, f)
  OBVIOUS
<1>1. /\ ~work[o][f].queued
      /\ work[o][f].pc \in {"idle", "claim", "destroy", "dropQueues", "nodes", "getToken"}
  BY DEF Fresh
<1> QED
  BY <1>1 DEF Wired, TornDown

(* The steps at which a handler has one of two things done.                 *)
HalfSteps == {"saveCred", "dropCred", "saveToken"}

LEMMA InitSingle == ASSUME SingleReplica, Init PROVE SingleInv
<1>1. TypeInv
  BY InitTypes
<1>2. OneUp
  <2>1. vacant = 0
    BY DEF Init
  <2>2. \A p \in Orchestrators : life[p] = "up" => p \in InitialReplicas
    BY DEF Init
  <2> QED
    BY <2>1, <2>2 DEF OneUp, SingleReplica
<1>3. \A o \in Orchestrators : tick[o] = "idle" /\ \A f \in Flows : work[o][f] = Idle
  BY DEF Init
<1>4. OnlyTheLiveWork
  BY <1>3 DEF OnlyTheLiveWork
<1>5. HandlersHold
  BY <1>3, FreshWork, FreshHolds DEF HandlersHold
<1>6. ASSUME NEW f \in Flows PROVE Pairs(f) /\ Counted(f)
  <2>1. users = {} /\ creds = {}
    BY DEF Init
  <2>2. issued[f] = 0 /\ unrecorded[f] = 0 /\ tokens[f] = "none"
    BY DEF Init
  <2>3. \A o \in Orchestrators : ~At(o, f, "saveToken")
    BY <1>3 DEF At, Idle, WorkAt
  <2> QED
    BY <2>1, <2>2, <2>3 DEF Pairs, Paired, Counted, Count
<1> QED
  BY <1>1, <1>2, <1>4, <1>5, <1>6 DEF SingleInv

(* Steps that touch neither the handlers nor what they promise.             *)
LEMMA QuietStep ==
    ASSUME SingleInv, UNCHANGED <<lifeVars, work, brokerVars, tokenVars>>,
           \A o \in Orchestrators : life[o] # "up" => UNCHANGED tick[o],
           TypeInv'
    PROVE  SingleInv'
<1>1. OneUp' /\ HandlersHold'
  BY DEF SingleInv, OneUp, HandlersHold, Wired, TornDown
<1>2. OnlyTheLiveWork'
  BY DEF SingleInv, OnlyTheLiveWork
<1>3. \A f \in Flows : Pairs(f)' /\ Counted(f)'
  BY DEF SingleInv, Pairs, Paired, InHand, Counted, Count, At
<1> QED
  BY <1>1, <1>2, <1>3 DEF SingleInv

Moves(o, f) == \E w \in GoodWork : work' = [work EXCEPT ![o][f] = w]

(* No other process works on the flow of a handler that runs.               *)
LEMMA Alone ==
    ASSUME SingleInv, NEW o \in Orchestrators, NEW f \in Flows, ~At(o, f, "idle")
    PROVE  /\ life[o] = "up"
           /\ \A p \in Orchestrators : p # o => life[p] # "up" /\ work[p][f] = Idle
<1>1. life[o] = "up"
  BY DEF SingleInv, OnlyTheLiveWork, At, Idle, WorkAt
<1> QED
  BY <1>1 DEF SingleInv, OneUp, OnlyTheLiveWork

(* What the accounts of a flow say while one of its handlers runs.          *)
PairsAt(o, f) == \A n \in Nodes : Paired(f, n) \/ InHand(o, f, n)

CountedAt(o, f) ==
    issued[f] = unrecorded[f] + Count(tokens[f] = "live") + Count(At(o, f, "saveToken"))

LEMMA Accounts ==
    ASSUME SingleInv, NEW o \in Orchestrators, NEW f \in Flows, ~At(o, f, "idle")
    PROVE  PairsAt(o, f) /\ CountedAt(o, f)
<1>1. ASSUME NEW p \in Orchestrators, p # o
      PROVE  work[p][f].pc = "idle"
  BY <1>1, Alone DEF Idle, WorkAt
<1>2. PairsAt(o, f)
  BY <1>1 DEF SingleInv, Pairs, PairsAt, InHand
<1>3. (\E p \in Orchestrators : At(p, f, "saveToken")) <=> At(o, f, "saveToken")
  BY <1>1 DEF At
<1>4. Counted(f)
  BY DEF SingleInv
<1> QED
  BY <1>2, <1>3, <1>4 DEF Counted, CountedAt, Count

(* What a handler does concerns its own flow only, and no other handler of  *)
(* that flow is running.                                                    *)
LEMMA HandlerStep ==
    ASSUME SingleInv, NEW o \in Orchestrators, NEW f \in Flows,
           ~At(o, f, "idle"),
           UNCHANGED <<lifeVars, tick>>,
           Moves(o, f),
           \A g \in Flows : g # f =>
              /\ (g \in queues') = (g \in queues)
              /\ tokens'[g] = tokens[g]
              /\ issued'[g] = issued[g] /\ unrecorded'[g] = unrecorded[g]
              /\ \A n \in Nodes : /\ (<<g, n>> \in users') = (<<g, n>> \in users)
                                  /\ (<<g, n>> \in creds') = (<<g, n>> \in creds)
                                  /\ (<<g, n>> \in cut') = (<<g, n>> \in cut),
           Wired(o, f)', TornDown(o, f)', PairsAt(o, f)', CountedAt(o, f)',
           TypeInv'
    PROVE  SingleInv'
<1> PICK w \in GoodWork : work' = [work EXCEPT ![o][f] = w]
  BY DEF Moves
<1>0. /\ life[o] = "up"
      /\ \A p \in Orchestrators : p # o => life[p] # "up"
      /\ \A p \in Orchestrators, g \in Flows : p # o \/ g # f => work'[p][g] = work[p][g]
  BY Alone DEF SingleInv, TypeInv, HandlersOK
<1>1. OneUp'
  BY DEF SingleInv, OneUp
<1>2. OnlyTheLiveWork'
  BY <1>0 DEF SingleInv, OnlyTheLiveWork
<1>7. ASSUME NEW p \in Orchestrators, NEW g \in Flows, p # o
      PROVE  ~work'[p][g].queued /\ work'[p][g].pc = "idle"
  BY <1>0, <1>7 DEF SingleInv, OnlyTheLiveWork, Idle, WorkAt
<1>3. ASSUME NEW p \in Orchestrators, NEW g \in Flows
      PROVE  Wired(p, g)' /\ TornDown(p, g)'
  <2>1. CASE p = o /\ g = f
    BY <2>1
  <2>2. CASE p # o
    BY <1>7, <2>2 DEF Wired, TornDown, StopSteps
  <2>3. CASE p = o /\ g # f
    <3>1. Wired(p, g) /\ TornDown(p, g) /\ work[p][g] \in GoodWork
      BY DEF SingleInv, HandlersHold, TypeInv, HandlersOK
    <3>2. work'[p][g] = work[p][g]
      BY <1>0, <2>3
    <3> QED
      BY <2>3, <3>1, <3>2 DEF Wired, TornDown, GoodWork, HandSteps
  <2> QED
    BY <2>1, <2>2, <2>3
<1>4. HandlersHold'
  BY <1>3 DEF HandlersHold
<1>5. ASSUME NEW g \in Flows PROVE Pairs(g)'
  <2>1. CASE g = f
    BY <2>1 DEF PairsAt, Pairs
  <2>2. CASE g # f
    <3>1. \A p \in Orchestrators : work'[p][g] = work[p][g]
      BY <1>0, <2>2
    <3>2. \A n \in Nodes : Paired(g, n) => Paired(g, n)'
      BY <2>2 DEF Paired
    <3>3. Pairs(g)
      BY DEF SingleInv
    <3> QED
      BY <3>1, <3>2, <3>3 DEF Pairs, InHand
  <2> QED
    BY <2>1, <2>2
<1>6. ASSUME NEW g \in Flows PROVE Counted(g)'
  <2>1. CASE g = f
    <3>1. (\E p \in Orchestrators : At(p, f, "saveToken")') <=> At(o, f, "saveToken")'
      BY <1>7 DEF At
    <3> QED
      BY <2>1, <3>1 DEF CountedAt, Counted, Count
  <2>2. CASE g # f
    <3>1. \A p \in Orchestrators : work'[p][g] = work[p][g]
      BY <1>0, <2>2
    <3>2. (\E p \in Orchestrators : At(p, g, "saveToken")')
              <=> \E p \in Orchestrators : At(p, g, "saveToken")
      BY <3>1 DEF At
    <3>3. Counted(g)
      BY DEF SingleInv
    <3> QED
      BY <2>2, <3>2, <3>3 DEF Counted, Count
  <2> QED
    BY <2>1, <2>2
<1> QED
  BY <1>1, <1>2, <1>4, <1>5, <1>6 DEF SingleInv

(* A step that is no half of two, and leaves users, credentials and tokens  *)
(* alone.                                                                   *)
LEMMA PlainStep ==
    ASSUME SingleInv, NEW o \in Orchestrators, NEW f \in Flows,
           ~At(o, f, "idle"), Moves(o, f),
           UNCHANGED <<lifeVars, tick, users, creds, cut, tokenVars>>,
           \A g \in Flows : g # f => (g \in queues') = (g \in queues),
           work[o][f].pc \notin HalfSteps, work'[o][f].pc \notin HalfSteps,
           Wired(o, f)', TornDown(o, f)',
           TypeInv'
    PROVE  SingleInv'
<1>1. PairsAt(o, f) /\ CountedAt(o, f)
  BY Accounts
<1>2. PairsAt(o, f)'
  BY <1>1 DEF PairsAt, Paired, InHand, HalfSteps
<1>3. CountedAt(o, f)'
  BY <1>1 DEF CountedAt, Count, At, HalfSteps
<1> QED
  BY <1>2, <1>3, HandlerStep

(* Where a handler is after it moves.                                       *)
LEMMA MoveEffect ==
    ASSUME TypeInv, NEW o \in Orchestrators, NEW f \in Flows
    PROVE  /\ \A w \in GoodWork : work' = [work EXCEPT ![o][f] = w] =>
                 Moves(o, f) /\ work'[o][f] = w
           /\ \A pc \in Steps : Allowed(o, f, pc) /\ Goto(o, f, pc) =>
                 /\ Moves(o, f)
                 /\ work'[o][f].pc = pc
                 /\ work'[o][f].queued = work[o][f].queued
                 /\ work'[o][f].node = work[o][f].node
           /\ Done(o, f) => Moves(o, f) /\ work'[o][f] = Idle
<1>0. HandlersOK /\ work[o][f] \in GoodWork
  BY DEF TypeInv, HandlersOK
<1>1. ASSUME NEW w \in GoodWork, work' = [work EXCEPT ![o][f] = w]
      PROVE  Moves(o, f) /\ work'[o][f] = w
  BY <1>0, <1>1 DEF Moves, HandlersOK
<1>2. ASSUME NEW pc \in Steps, Allowed(o, f, pc), Goto(o, f, pc)
      PROVE  /\ Moves(o, f)
             /\ work'[o][f].pc = pc
             /\ work'[o][f].queued = work[o][f].queued
             /\ work'[o][f].node = work[o][f].node
  <2> DEFINE w == [work[o][f] EXCEPT !.pc = pc]
  <2>1. w \in GoodWork
    BY <1>0, <1>2 DEF GoodWork, Work, Allowed
  <2>2. work' = [work EXCEPT ![o][f] = w]
    BY <1>2 DEF Goto
  <2>3. w.pc = pc /\ w.queued = work[o][f].queued /\ w.node = work[o][f].node
    BY <1>0 DEF GoodWork, Work
  <2> HIDE DEF w
  <2> QED
    BY <1>1, <2>1, <2>2, <2>3
<1>3. Done(o, f) => Moves(o, f) /\ work'[o][f] = Idle
  BY <1>1, WorkTypes DEF Done
<1> QED
  BY <1>1, <1>2, <1>3

(* Steps of a handler that end in a state which has promised nothing.       *)
LEMMA FreshStep ==
    ASSUME SingleInv, NEW o \in Orchestrators, NEW f \in Flows,
           ~At(o, f, "idle"), work[o][f].pc \notin HalfSteps,
           UNCHANGED <<lifeVars, tick, brokerVars, tokenVars>>,
           NEW w \in GoodWork, Fresh(w), work' = [work EXCEPT ![o][f] = w],
           TypeInv'
    PROVE  SingleInv'
<1>1. Moves(o, f) /\ work'[o][f] = w
  BY MoveEffect DEF SingleInv
<1>2. ~w.queued /\ w.pc \in {"idle", "claim", "destroy", "dropQueues", "nodes", "getToken"}
  BY DEF Fresh
<1>3. Wired(o, f)' /\ TornDown(o, f)' /\ work'[o][f].pc \notin HalfSteps
  BY <1>1, <1>2 DEF Wired, TornDown, HalfSteps
<1> QED
  BY <1>1, <1>3, PlainStep

LEMMA StopSingle ==
    ASSUME SingleInv, NEW o \in Orchestrators, NEW f \in Flows, StopStep(o, f), TypeInv'
    PROVE  SingleInv'
<1>0. /\ TypeInv /\ Wired(o, f) /\ TornDown(o, f) /\ work[o][f] \in GoodWork
  BY DEF SingleInv, HandlersHold, TypeInv, HandlersOK
<1>1. ~At(o, f, "idle") /\ UNCHANGED <<lifeVars, tick>>
  BY DEF StopStep, At, DestroyApp, DropSecret, DropQueues, ListCreds, DropUser, DropCred,
     DropToken, DropRow, SayStopped, OnStopped
<1>2. PairsAt(o, f) /\ CountedAt(o, f)
  BY <1>1, Accounts
<1>3. /\ work[o][f].pc \in StopSteps /\ ~work[o][f].queued
      /\ tokens \in [Flows -> Rows]
      /\ issued \in [Flows -> Int] /\ unrecorded \in [Flows -> Nat]
  <2>1. work[o][f].pc \in StopSteps
    BY DEF StopStep, At, StopSteps, DestroyApp, DropSecret, DropQueues, ListCreds, DropUser,
       DropCred, DropToken, DropRow, SayStopped, OnStopped
  <2> QED
    BY <1>0, <2>1 DEF TornDown, TypeInv, ResourceTypeOK
<1>4. ASSUME NEW n \in Nodes, DestroyApp(o, f, n) PROVE SingleInv'
  <2> DEFINE w == [work[o][f] EXCEPT !.pc = "dropSecret", !.node = n]
  <2>1. w \in GoodWork /\ w.pc = "dropSecret" /\ w.queued = work[o][f].queued
    BY <1>0 DEF GoodWork, Work, Steps, StopSteps, HandSteps
  <2>2. /\ work' = [work EXCEPT ![o][f] = w] /\ UNCHANGED <<brokerVars, tokenVars>>
        /\ work[o][f].pc \notin HalfSteps
    BY <1>4 DEF DestroyApp, At, HalfSteps
  <2> HIDE DEF w
  <2>3. Moves(o, f) /\ work'[o][f] = w
    BY <1>0, <2>1, <2>2, MoveEffect
  <2>4. Wired(o, f)' /\ TornDown(o, f)' /\ work'[o][f].pc \notin HalfSteps
    BY <1>3, <2>1, <2>3 DEF Wired, TornDown, HalfSteps
  <2> QED
    BY <1>1, <2>2, <2>3, <2>4, PlainStep
<1>5. ASSUME DropSecret(o, f) PROVE SingleInv'
  <2> DEFINE w == StoppingWork(work[o][f].left \ {work[o][f].node})
  <2>1. w \in GoodWork /\ Fresh(w)
    BY <1>0, WorkTypes, FreshWork DEF GoodWork, Work
  <2>2. /\ work' = [work EXCEPT ![o][f] = w] /\ UNCHANGED <<brokerVars, tokenVars>>
        /\ work[o][f].pc \notin HalfSteps
    BY <1>5 DEF DropSecret, At, HalfSteps
  <2> HIDE DEF w
  <2> QED
    BY <1>1, <2>1, <2>2, FreshStep
<1>6. ASSUME DropQueues(o, f) PROVE SingleInv'
  <2>1. Moves(o, f) /\ work'[o][f].pc = "dropCreds" /\ work'[o][f].queued = work[o][f].queued
    BY <1>0, <1>6, MoveEffect DEF DropQueues, Allowed, Steps, StopSteps, HandSteps
  <2>2. /\ \A g \in Flows : g # f => (g \in queues') = (g \in queues)
        /\ UNCHANGED <<users, creds, cut, tokenVars>>
        /\ work[o][f].pc \notin HalfSteps /\ f \notin queues'
    BY <1>6 DEF DropQueues, At, HalfSteps
  <2>3. Wired(o, f)' /\ TornDown(o, f)' /\ work'[o][f].pc \notin HalfSteps
    BY <1>3, <2>1, <2>2 DEF Wired, TornDown, HalfSteps
  <2> QED
    BY <1>1, <2>1, <2>2, <2>3, PlainStep
<1>7. ASSUME ListCreds(o, f) PROVE SingleInv'
  <2> DEFINE w == WorkAt("dropUser", {n \in Nodes : <<f, n>> \in creds}, FALSE)
  <2>1. /\ w \in GoodWork /\ w.pc = "dropUser" /\ ~w.queued
        /\ w.left = {n \in Nodes : <<f, n>> \in creds}
    BY WorkTypes DEF WorkAt
  <2>2. /\ work' = [work EXCEPT ![o][f] = w] /\ UNCHANGED <<brokerVars, tokenVars>>
        /\ work[o][f].pc \notin HalfSteps /\ f \notin queues
    BY <1>0, <1>7 DEF ListCreds, At, HalfSteps, TornDown
  <2> HIDE DEF w
  <2>3. Moves(o, f) /\ work'[o][f] = w
    BY <1>0, <2>1, <2>2, MoveEffect
  <2>4. Wired(o, f)' /\ TornDown(o, f)' /\ work'[o][f].pc \notin HalfSteps
    BY <2>1, <2>2, <2>3 DEF Wired, TornDown, HalfSteps
  <2> QED
    BY <1>1, <2>2, <2>3, <2>4, PlainStep
<1>8. ASSUME DropUser(o, f) PROVE SingleInv'
  <2>0. /\ work[o][f].pc = "dropUser" /\ f \notin queues
        /\ \A n \in Nodes : <<f, n>> \in creds => n \in work[o][f].left
        /\ UNCHANGED <<queues, creds, cut, tokenVars>>
    BY <1>0, <1>8 DEF DropUser, At, TornDown
  <2>1. ASSUME NEW n \in work[o][f].left, users' = users \ {<<f, n>>},
               work' = [work EXCEPT ![o][f] = [@ EXCEPT !.pc = "dropCred", !.node = n]]
        PROVE  SingleInv'
    <3> DEFINE w == [work[o][f] EXCEPT !.pc = "dropCred", !.node = n]
    <3>1. /\ w \in GoodWork /\ w.pc = "dropCred" /\ w.node = n
          /\ w.left = work[o][f].left /\ w.queued = work[o][f].queued
      BY <1>0 DEF GoodWork, Work, Steps, StopSteps
    <3>2. work' = [work EXCEPT ![o][f] = w]
      BY <2>1
    <3> HIDE DEF w
    <3>3. Moves(o, f) /\ work'[o][f] = w
      BY <1>0, <3>1, <3>2, MoveEffect
    <3>4. Wired(o, f)' /\ TornDown(o, f)'
      BY <1>3, <2>0, <2>1, <3>1, <3>3 DEF Wired, TornDown
    <3>5. PairsAt(o, f)'
      <4>1. ASSUME NEW m \in Nodes, m # n PROVE Paired(f, m)'
        <5>1. Paired(f, m)
          BY <1>2, <2>0 DEF PairsAt, InHand
        <5>2. (<<f, m>> \in users') = (<<f, m>> \in users)
          BY <2>1, <4>1
        <5> QED
          BY <2>0, <5>1, <5>2 DEF Paired
      <4>2. InHand(o, f, n)'
        BY <3>1, <3>3 DEF InHand
      <4> QED
        BY <4>1, <4>2 DEF PairsAt
    <3>6. CountedAt(o, f)'
      BY <1>2, <2>0, <3>1, <3>3 DEF CountedAt, Count, At
    <3>7. \A g \in Flows, m \in Nodes : g # f => (<<g, m>> \in users') = (<<g, m>> \in users)
      BY <2>1
    <3> QED
      BY <1>1, <2>0, <3>3, <3>4, <3>5, <3>6, <3>7, HandlerStep
  <2>2. ASSUME work[o][f].left = {}, Goto(o, f, "dropToken"), UNCHANGED users
        PROVE  SingleInv'
    <3>1. Moves(o, f) /\ work'[o][f].pc = "dropToken" /\ work'[o][f].queued = work[o][f].queued
      BY <1>0, <2>2, MoveEffect DEF Allowed, Steps, StopSteps, HandSteps
    <3>2. \A n \in Nodes : <<f, n>> \notin creds
      BY <2>0, <2>2
    <3>3. /\ Wired(o, f)' /\ TornDown(o, f)'
          /\ work'[o][f].pc \notin HalfSteps /\ work[o][f].pc \notin HalfSteps
      BY <1>3, <2>0, <3>1, <3>2 DEF Wired, TornDown, HalfSteps
    <3> QED
      BY <1>1, <2>0, <2>2, <3>1, <3>3, PlainStep
  <2> QED
    BY <1>8, <2>1, <2>2 DEF DropUser
<1>9. ASSUME DropCred(o, f) PROVE SingleInv'
  <2> PICK n \in Nodes : work[o][f].node = n
    BY <1>0, <1>9 DEF DropCred, At, GoodWork, HandSteps
  <2> DEFINE w == WorkAt("dropUser", work[o][f].left \ {n}, FALSE)
  <2>0. /\ work[o][f].pc = "dropCred" /\ f \notin queues /\ <<f, n>> \notin users
        /\ \A m \in Nodes : <<f, m>> \in creds => m \in work[o][f].left
    BY <1>0, <1>9 DEF DropCred, At, TornDown
  <2>1. /\ UNCHANGED <<queues, users, tokenVars>> /\ creds' = creds \ {<<f, n>>}
        /\ cut' = cut \ {<<f, n>>} /\ work' = [work EXCEPT ![o][f] = w]
    BY <1>9, <2>0 DEF DropCred
  <2>2. /\ w \in GoodWork /\ w.pc = "dropUser" /\ ~w.queued
        /\ w.left = work[o][f].left \ {n}
    BY <1>0, WorkTypes DEF WorkAt, GoodWork, Work
  <2> HIDE DEF w
  <2>3. Moves(o, f) /\ work'[o][f] = w
    BY <1>0, <2>1, <2>2, MoveEffect
  <2>4. Wired(o, f)' /\ TornDown(o, f)'
    BY <2>0, <2>1, <2>2, <2>3 DEF Wired, TornDown
  <2>5. PairsAt(o, f)'
    <3>1. ASSUME NEW m \in Nodes, m # n PROVE Paired(f, m)'
      <4>1. Paired(f, m)
        BY <1>2, <3>1 DEF PairsAt, InHand
      <4> QED
        BY <2>1, <3>1, <4>1 DEF Paired
    <3>2. Paired(f, n)'
      BY <2>0, <2>1 DEF Paired
    <3> QED
      BY <3>1, <3>2 DEF PairsAt
  <2>6. CountedAt(o, f)'
    BY <1>2, <2>0, <2>1, <2>2, <2>3 DEF CountedAt, Count, At
  <2>7. \A g \in Flows, m \in Nodes : g # f =>
           /\ (<<g, m>> \in creds') = (<<g, m>> \in creds)
           /\ (<<g, m>> \in cut') = (<<g, m>> \in cut)
    BY <2>1
  <2> QED
    BY <1>1, <2>1, <2>3, <2>4, <2>5, <2>6, <2>7, HandlerStep
<1>10. ASSUME DropToken(o, f) PROVE SingleInv'
  <2>0. /\ work[o][f].pc = "dropToken" /\ f \notin queues
        /\ \A n \in Nodes : <<f, n>> \notin creds
        /\ UNCHANGED <<brokerVars, unrecorded>>
    BY <1>0, <1>10 DEF DropToken, At, TornDown
  <2>1. ASSUME tokens[f] # "none", Goto(o, f, "dropRow"),
               tokens' = [tokens EXCEPT ![f] = "dead"],
               issued' = [issued EXCEPT ![f] = IF tokens[f] = "live" THEN @ - 1 ELSE @]
        PROVE  SingleInv'
    <3>1. /\ Moves(o, f) /\ work'[o][f].pc = "dropRow"
          /\ work'[o][f].queued = work[o][f].queued
      BY <1>0, <2>1, MoveEffect DEF Allowed, Steps, StopSteps, HandSteps
    <3>2. /\ tokens'[f] = "dead"
          /\ issued'[f] = IF tokens[f] = "live" THEN issued[f] - 1 ELSE issued[f]
          /\ \A g \in Flows : g # f => tokens'[g] = tokens[g] /\ issued'[g] = issued[g]
      BY <1>3, <2>1
    <3>3. Wired(o, f)' /\ TornDown(o, f)'
      BY <1>3, <2>0, <3>1, <3>2 DEF Wired, TornDown
    <3>4. PairsAt(o, f)'
      BY <1>2, <2>0, <3>1 DEF PairsAt, Paired, InHand
    <3>5. CountedAt(o, f)'
      <4>1. issued[f] \in Int /\ unrecorded[f] \in Nat
        BY <1>3
      <4>2. issued[f] = unrecorded[f] + (IF tokens[f] = "live" THEN 1 ELSE 0) + 0
        BY <1>2, <2>0 DEF CountedAt, Count, At
      <4>3. issued'[f] = unrecorded'[f] + 0 + 0
        BY <2>0, <3>2, <4>1, <4>2
      <4> QED
        BY <3>1, <3>2, <4>3 DEF CountedAt, Count, At
    <3> QED
      BY <1>1, <2>0, <3>1, <3>2, <3>3, <3>4, <3>5, HandlerStep
  <2>2. ASSUME tokens[f] = "none", Goto(o, f, "sayStopped"), UNCHANGED <<tokens, issued>>
        PROVE  SingleInv'
    <3>1. /\ Moves(o, f) /\ work'[o][f].pc = "sayStopped"
          /\ work'[o][f].queued = work[o][f].queued
      BY <1>0, <2>2, MoveEffect DEF Allowed, Steps, StopSteps, HandSteps
    <3>2. /\ Wired(o, f)' /\ TornDown(o, f)'
          /\ work'[o][f].pc \notin HalfSteps /\ work[o][f].pc \notin HalfSteps
      BY <1>3, <2>0, <2>2, <3>1 DEF Wired, TornDown, HalfSteps
    <3> QED
      BY <1>1, <2>0, <2>2, <3>1, <3>2, PlainStep
  <2> QED
    BY <1>10, <2>1, <2>2 DEF DropToken
<1>11. ASSUME DropRow(o, f) PROVE SingleInv'
  <2>0. /\ work[o][f].pc = "dropRow" /\ f \notin queues
        /\ \A n \in Nodes : <<f, n>> \notin creds
        /\ tokens[f] = "dead" /\ UNCHANGED <<brokerVars, issued, unrecorded>>
    BY <1>0, <1>11 DEF DropRow, At, TornDown
  <2>1. /\ Moves(o, f) /\ work'[o][f].pc = "sayStopped"
        /\ work'[o][f].queued = work[o][f].queued
    BY <1>0, <1>11, MoveEffect DEF DropRow, Allowed, Steps, StopSteps, HandSteps
  <2>2. tokens'[f] = "none" /\ \A g \in Flows : g # f => tokens'[g] = tokens[g]
    BY <1>3, <1>11, <2>0 DEF DropRow
  <2>3. Wired(o, f)' /\ TornDown(o, f)'
    BY <1>3, <2>0, <2>1, <2>2 DEF Wired, TornDown
  <2>4. PairsAt(o, f)'
    BY <1>2, <2>0, <2>1 DEF PairsAt, Paired, InHand
  <2>5. CountedAt(o, f)'
    BY <1>2, <2>0, <2>1, <2>2 DEF CountedAt, Count, At
  <2> QED
    BY <1>1, <2>0, <2>1, <2>2, <2>3, <2>4, <2>5, HandlerStep
<1>12. ASSUME SayStopped(o, f) PROVE SingleInv'
  <2>0. /\ work[o][f].pc = "sayStopped" /\ f \notin queues
        /\ \A n \in Nodes : <<f, n>> \notin creds
        /\ tokens[f] = "none" /\ UNCHANGED <<brokerVars, tokenVars>>
    BY <1>0, <1>12 DEF SayStopped, At, TornDown
  <2>1. Moves(o, f) /\ work'[o][f].pc = "forget" /\ work'[o][f].queued = work[o][f].queued
    BY <1>0, <1>12, MoveEffect DEF SayStopped, Allowed, Steps, StopSteps, HandSteps
  <2>2. /\ Wired(o, f)' /\ TornDown(o, f)'
        /\ work'[o][f].pc \notin HalfSteps /\ work[o][f].pc \notin HalfSteps
    BY <1>3, <2>0, <2>1 DEF Wired, TornDown, HalfSteps
  <2> QED
    BY <1>1, <2>0, <2>1, <2>2, PlainStep
<1>13. ASSUME OnStopped(o, f) PROVE SingleInv'
  BY <1>1, <1>13, WorkTypes, FreshWork, FreshStep DEF OnStopped, Done, At, HalfSteps
<1> QED
  BY <1>4, <1>5, <1>6, <1>7, <1>8, <1>9, <1>10, <1>11, <1>12, <1>13 DEF StopStep

(* A handler done with a node keeps its queues in mind for the next one.    *)
LEMMA NextNodeSingle ==
    ASSUME SingleInv, NEW o \in Orchestrators, NEW f \in Flows,
           work[o][f].pc \in {"secret", "deploy"}, NextNode(o, f),
           UNCHANGED <<lifeVars, tick, brokerVars, tokenVars>>, TypeInv'
    PROVE  SingleInv'
<1>0. /\ TypeInv /\ work[o][f] \in GoodWork /\ f \in queues
  BY DEF SingleInv, HandlersHold, TypeInv, HandlersOK, Wired
<1> DEFINE next == DeployingWork(work[o][f].left \ {work[o][f].node},
                                 work[o][f].preparing)
<1>1. /\ next \in GoodWork /\ Fresh(next)
      /\ next.pc \in {"nodes", "getToken", "idle"}
  BY <1>0, WorkTypes, FreshWork DEF GoodWork, Work
<1>2. work' = [work EXCEPT ![o][f] = IF next.pc = "nodes"
                                     THEN [next EXCEPT !.queued = TRUE] ELSE next]
  BY DEF NextNode
<1> HIDE DEF next
<1>3. ~At(o, f, "idle") /\ work[o][f].pc \notin HalfSteps
  BY DEF At, HalfSteps
<1>4. CASE next.pc # "nodes"
  BY <1>1, <1>2, <1>3, <1>4, FreshStep
<1>5. CASE next.pc = "nodes"
  <2> DEFINE w == [next EXCEPT !.queued = TRUE]
  <2>1. w \in GoodWork /\ w.pc = "nodes"
    BY <1>1, <1>5 DEF GoodWork, Work
  <2>2. work' = [work EXCEPT ![o][f] = w]
    BY <1>2, <1>5
  <2> HIDE DEF w
  <2>3. Moves(o, f) /\ work'[o][f] = w
    BY <1>0, <2>1, <2>2, MoveEffect
  <2>4. Wired(o, f)' /\ TornDown(o, f)' /\ work'[o][f].pc \notin HalfSteps
    BY <1>0, <2>1, <2>3 DEF Wired, TornDown, StopSteps, HalfSteps
  <2> QED
    BY <1>3, <2>3, <2>4, PlainStep
<1> QED
  BY <1>4, <1>5

LEMMA StartSingle ==
    ASSUME SingleInv, NEW o \in Orchestrators, NEW f \in Flows, StartStep(o, f), TypeInv'
    PROVE  SingleInv'
<1>0. /\ TypeInv /\ Wired(o, f) /\ TornDown(o, f) /\ work[o][f] \in GoodWork
      /\ tokens \in [Flows -> Rows]
      /\ issued \in [Flows -> Int] /\ unrecorded \in [Flows -> Nat]
  BY DEF SingleInv, HandlersHold, TypeInv, HandlersOK, ResourceTypeOK
<1>1. ~At(o, f, "idle") /\ UNCHANGED <<lifeVars, tick>>
  BY DEF StartStep, At, PrepareNode, OnStarting, FindCred, PutUser, SaveCred, EnsureSecret,
     CreateDeployment, GetToken, SaveToken, OnPrepared, SayStarted, OnStarted, Save
<1>2. PairsAt(o, f) /\ CountedAt(o, f)
  BY <1>1, Accounts
<1>3. ASSUME NEW n \in Nodes, PrepareNode(o, f, n) PROVE SingleInv'
  <2> DEFINE w == [work[o][f] EXCEPT !.pc = "credential", !.node = n, !.queued = TRUE]
  <2>1. w \in GoodWork /\ w.pc = "credential" /\ w.queued = TRUE
    BY <1>0 DEF GoodWork, Work, Steps, NodeSteps
  <2>2. work' = [work EXCEPT ![o][f] = w] /\ work[o][f].pc \notin HalfSteps
    BY <1>3 DEF PrepareNode, At, HalfSteps
  <2> HIDE DEF w
  <2>3. Moves(o, f) /\ work'[o][f] = w
    BY <1>0, <2>1, <2>2, MoveEffect
  <2>4. /\ UNCHANGED <<users, creds, cut, tokenVars>> /\ f \in queues'
        /\ \A g \in Flows : g # f => (g \in queues') = (g \in queues)
    BY <1>0, <1>3 DEF PrepareNode, Wired
  <2>5. Wired(o, f)' /\ TornDown(o, f)' /\ work'[o][f].pc \notin HalfSteps
    BY <2>1, <2>3, <2>4 DEF Wired, TornDown, StopSteps, HalfSteps
  <2> QED
    BY <1>1, <2>2, <2>3, <2>4, <2>5, PlainStep
<1>4. ASSUME FindCred(o, f) PROVE SingleInv'
  <2> PICK pc \in {"secret", "putUser"} :
         /\ Goto(o, f, pc)
         /\ pc = "secret" => <<f, work[o][f].node>> \in creds
    BY <1>4 DEF FindCred
  <2>1. /\ work[o][f].pc = "credential" /\ work[o][f].node \in Nodes
        /\ work[o][f].queued /\ f \in queues /\ UNCHANGED <<brokerVars, tokenVars>>
    BY <1>0, <1>4 DEF FindCred, At, GoodWork, HandSteps, Wired
  <2>2. pc \in Steps /\ Allowed(o, f, pc)
    BY <2>1 DEF Allowed, Steps, NodeSteps
  <2>3. /\ Moves(o, f) /\ work'[o][f].pc = pc
        /\ work'[o][f].queued = work[o][f].queued /\ work'[o][f].node = work[o][f].node
    BY <1>0, <2>2, MoveEffect
  <2>4. /\ Wired(o, f)' /\ TornDown(o, f)'
        /\ work[o][f].pc \notin HalfSteps /\ work'[o][f].pc \notin HalfSteps
    BY <2>1, <2>3 DEF Wired, TornDown, StopSteps, HalfSteps
  <2> QED
    BY <1>1, <2>1, <2>3, <2>4, PlainStep
<1>5. ASSUME PutUser(o, f) PROVE SingleInv'
  <2> PICK n \in Nodes : work[o][f].node = n
    BY <1>0, <1>5 DEF PutUser, At, GoodWork, HandSteps
  <2>1. /\ work[o][f].pc = "putUser" /\ work[o][f].queued /\ f \in queues
        /\ users' = users \cup {<<f, n>>} /\ UNCHANGED <<queues, creds, cut, tokenVars>>
    BY <1>0, <1>5 DEF PutUser, At, Wired
  <2>2. /\ Moves(o, f) /\ work'[o][f].pc = "saveCred"
        /\ work'[o][f].queued = work[o][f].queued /\ work'[o][f].node = n
    <3>1. "saveCred" \in Steps /\ Allowed(o, f, "saveCred") /\ Goto(o, f, "saveCred")
      BY <1>5 DEF PutUser, Allowed, Steps, NodeSteps
    <3> QED
      BY <1>0, <3>1, MoveEffect
  <2>3. Wired(o, f)' /\ TornDown(o, f)'
    BY <2>1, <2>2 DEF Wired, TornDown, StopSteps
  <2>4. PairsAt(o, f)'
    <3>1. ASSUME NEW m \in Nodes, m # n PROVE Paired(f, m)'
      <4>1. Paired(f, m)
        BY <1>2, <2>1 DEF PairsAt, InHand
      <4> QED
        BY <2>1, <3>1, <4>1 DEF Paired
    <3>2. InHand(o, f, n)'
      BY <2>2 DEF InHand
    <3> QED
      BY <3>1, <3>2 DEF PairsAt
  <2>5. CountedAt(o, f)'
    BY <1>2, <2>1, <2>2 DEF CountedAt, Count, At
  <2>6. \A g \in Flows, m \in Nodes : g # f => (<<g, m>> \in users') = (<<g, m>> \in users)
    BY <2>1
  <2> QED
    BY <1>1, <2>1, <2>2, <2>3, <2>4, <2>5, <2>6, HandlerStep
<1>6. ASSUME SaveCred(o, f) PROVE SingleInv'
  <2> PICK n \in Nodes : work[o][f].node = n
    BY <1>0, <1>6 DEF SaveCred, At, GoodWork, HandSteps
  <2>1. /\ work[o][f].pc = "saveCred" /\ work[o][f].queued /\ f \in queues
        /\ <<f, n>> \in users
        /\ creds' = creds \cup {<<f, n>>} /\ cut' = cut \ {<<f, n>>}
        /\ UNCHANGED <<queues, users, tokenVars>>
    BY <1>0, <1>6 DEF SaveCred, At, Wired
  <2>2. /\ Moves(o, f) /\ work'[o][f].pc = "secret"
        /\ work'[o][f].queued = work[o][f].queued /\ work'[o][f].node = n
    <3>1. "secret" \in Steps /\ Allowed(o, f, "secret") /\ Goto(o, f, "secret")
      BY <1>6 DEF SaveCred, Allowed, Steps, NodeSteps
    <3> QED
      BY <1>0, <3>1, MoveEffect
  <2>3. Wired(o, f)' /\ TornDown(o, f)'
    BY <2>1, <2>2 DEF Wired, TornDown, StopSteps
  <2>4. PairsAt(o, f)'
    <3>1. ASSUME NEW m \in Nodes, m # n PROVE Paired(f, m)'
      <4>1. Paired(f, m)
        BY <1>2, <3>1 DEF PairsAt, InHand
      <4> QED
        BY <2>1, <3>1, <4>1 DEF Paired
    <3>2. Paired(f, n)'
      BY <2>1 DEF Paired
    <3> QED
      BY <3>1, <3>2 DEF PairsAt
  <2>5. CountedAt(o, f)'
    BY <1>2, <2>1, <2>2 DEF CountedAt, Count, At
  <2>6. \A g \in Flows, m \in Nodes : g # f =>
           /\ (<<g, m>> \in creds') = (<<g, m>> \in creds)
           /\ (<<g, m>> \in cut') = (<<g, m>> \in cut)
    BY <2>1
  <2> QED
    BY <1>1, <2>1, <2>2, <2>3, <2>4, <2>5, <2>6, HandlerStep
<1>7. ASSUME EnsureSecret(o, f) PROVE SingleInv'
  <2>1. /\ work[o][f].pc = "secret" /\ work[o][f].node \in Nodes
        /\ work[o][f].queued /\ f \in queues
        /\ <<f, work[o][f].node>> \in creds /\ UNCHANGED <<brokerVars, tokenVars>>
    BY <1>0, <1>7 DEF EnsureSecret, At, GoodWork, HandSteps, Wired
  <2>2. /\ Moves(o, f) /\ work'[o][f].pc = "deploy"
        /\ work'[o][f].queued = work[o][f].queued /\ work'[o][f].node = work[o][f].node
    <3>1. "deploy" \in Steps /\ Allowed(o, f, "deploy")
      BY <2>1 DEF Allowed, Steps, NodeSteps
    <3>2. Goto(o, f, "deploy")
      BY <1>7 DEF EnsureSecret
    <3> QED
      BY <1>0, <3>1, <3>2, MoveEffect
  <2>3. /\ Wired(o, f)' /\ TornDown(o, f)'
        /\ work[o][f].pc \notin HalfSteps /\ work'[o][f].pc \notin HalfSteps
    BY <2>1, <2>2 DEF Wired, TornDown, StopSteps, HalfSteps
  <2> QED
    BY <1>1, <2>1, <2>2, <2>3, PlainStep
<1>8. ASSUME OnStarting(o, f) PROVE SingleInv'
  <2>1. /\ DeployingWork(work[o][f].left, TRUE) \in GoodWork
        /\ Fresh(DeployingWork(work[o][f].left, TRUE))
    BY <1>0, WorkTypes, FreshWork DEF GoodWork, Work
  <2>2. /\ work[o][f].pc \notin HalfSteps /\ UNCHANGED <<brokerVars, tokenVars>>
        /\ \/ work' = [work EXCEPT ![o][f] = DeployingWork(work[o][f].left, TRUE)]
           \/ Done(o, f)
    BY <1>8 DEF OnStarting, Save, At, HalfSteps
  <2> QED
    BY <1>1, <2>1, <2>2, WorkTypes, FreshWork, FreshStep DEF Done
<1>9. ASSUME CreateDeployment(o, f) PROVE SingleInv'
  BY <1>1, <1>9, NextNodeSingle DEF CreateDeployment, At
<1>10. ASSUME GetToken(o, f) PROVE SingleInv'
  <2>0. work[o][f].pc = "getToken" /\ UNCHANGED <<brokerVars, tokens, unrecorded>>
    BY <1>10 DEF GetToken, At
  <2>1. ASSUME Goto(o, f, "prepared"), UNCHANGED issued PROVE SingleInv'
    <3>1. /\ Moves(o, f) /\ work'[o][f].pc = "prepared"
          /\ work'[o][f].queued = work[o][f].queued
      BY <1>0, <2>1, MoveEffect DEF Allowed, Steps, StartSteps, HandSteps
    <3>2. /\ Wired(o, f)' /\ TornDown(o, f)'
          /\ work[o][f].pc \notin HalfSteps /\ work'[o][f].pc \notin HalfSteps
      BY <1>0, <2>0, <3>1 DEF Wired, TornDown, StopSteps, HalfSteps
    <3> QED
      BY <1>1, <2>0, <2>1, <3>1, <3>2, PlainStep
  <2>2. ASSUME Goto(o, f, "saveToken"), issued' = [issued EXCEPT ![f] = @ + 1]
        PROVE  SingleInv'
    <3>1. /\ Moves(o, f) /\ work'[o][f].pc = "saveToken"
          /\ work'[o][f].queued = work[o][f].queued
      BY <1>0, <2>2, MoveEffect DEF Allowed, Steps, StartSteps, HandSteps
    <3>2. /\ issued'[f] = issued[f] + 1
          /\ \A g \in Flows : g # f => issued'[g] = issued[g]
      BY <1>0, <2>2
    <3>3. Wired(o, f)' /\ TornDown(o, f)'
      BY <1>0, <2>0, <3>1 DEF Wired, TornDown, StopSteps
    <3>4. PairsAt(o, f)'
      BY <1>2, <2>0, <3>1 DEF PairsAt, Paired, InHand
    <3>5. CountedAt(o, f)'
      <4>1. issued[f] \in Int /\ unrecorded[f] \in Nat
        BY <1>0
      <4>2. issued[f] = unrecorded[f] + (IF tokens[f] = "live" THEN 1 ELSE 0) + 0
        BY <1>2, <2>0 DEF CountedAt, Count, At
      <4>3. issued'[f] = unrecorded'[f] + (IF tokens'[f] = "live" THEN 1 ELSE 0) + 1
        BY <2>0, <3>2, <4>1, <4>2
      <4> QED
        BY <3>1, <4>3 DEF CountedAt, Count, At
    <3> QED
      BY <1>1, <2>0, <3>1, <3>2, <3>3, <3>4, <3>5, HandlerStep
  <2> QED
    BY <1>10, <2>1, <2>2 DEF GetToken
<1>11. ASSUME SaveToken(o, f) PROVE SingleInv'
  <2>0. work[o][f].pc = "saveToken" /\ UNCHANGED <<brokerVars, issued>>
    BY <1>11 DEF SaveToken, At
  <2>1. /\ Moves(o, f) /\ work'[o][f].pc = "prepared"
        /\ work'[o][f].queued = work[o][f].queued
    BY <1>0, <1>11, MoveEffect DEF SaveToken, Allowed, Steps, StartSteps, HandSteps
  <2>2. /\ \/ /\ tokens[f] = "none" /\ tokens'[f] = "live"
              /\ unrecorded'[f] = unrecorded[f]
           \/ tokens'[f] = tokens[f] /\ unrecorded'[f] = unrecorded[f] + 1
        /\ \A g \in Flows : g # f => /\ tokens'[g] = tokens[g]
                                     /\ unrecorded'[g] = unrecorded[g]
    BY <1>0, <1>11 DEF SaveToken
  <2>3. Wired(o, f)' /\ TornDown(o, f)'
    BY <1>0, <2>0, <2>1 DEF Wired, TornDown, StopSteps
  <2>4. PairsAt(o, f)'
    BY <1>2, <2>0, <2>1 DEF PairsAt, Paired, InHand
  <2>5. CountedAt(o, f)'
    <3>1. issued[f] \in Int /\ unrecorded[f] \in Nat
      BY <1>0
    <3>2. issued[f] = unrecorded[f] + (IF tokens[f] = "live" THEN 1 ELSE 0) + 1
      BY <1>2, <2>0 DEF CountedAt, Count, At
    <3>3. issued'[f] = unrecorded'[f] + (IF tokens'[f] = "live" THEN 1 ELSE 0) + 0
      BY <2>0, <2>2, <3>1, <3>2
    <3> QED
      BY <2>1, <3>3 DEF CountedAt, Count, At
  <2> QED
    BY <1>1, <2>0, <2>1, <2>2, <2>3, <2>4, <2>5, HandlerStep
<1>12. ASSUME SayStarted(o, f) PROVE SingleInv'
  <2>1. /\ Moves(o, f) /\ work'[o][f].pc = "started"
        /\ work'[o][f].queued = work[o][f].queued
    BY <1>0, <1>12, MoveEffect DEF SayStarted, Allowed, Steps, StartSteps, HandSteps
  <2>2. UNCHANGED <<brokerVars, tokenVars>> /\ work[o][f].pc \notin HalfSteps
    BY <1>12 DEF SayStarted, At, HalfSteps
  <2>3. Wired(o, f)' /\ TornDown(o, f)' /\ work'[o][f].pc \notin HalfSteps
    BY <1>0, <2>1, <2>2 DEF Wired, TornDown, StopSteps, HalfSteps
  <2> QED
    BY <1>1, <2>1, <2>2, <2>3, PlainStep
<1>13. ASSUME OnPrepared(o, f) PROVE SingleInv'
  <2> DEFINE w == [work[o][f] EXCEPT !.pc = "sayStarted"]
  <2>1. w \in GoodWork /\ w.pc = "sayStarted" /\ w.queued = work[o][f].queued
    BY <1>0 DEF GoodWork, Work, Steps, StartSteps, HandSteps
  <2>2. /\ work' = [work EXCEPT ![o][f] = w] \/ Done(o, f)
        /\ UNCHANGED <<brokerVars, tokenVars>> /\ work[o][f].pc \notin HalfSteps
    BY <1>13 DEF OnPrepared, Save, At, HalfSteps
  <2> HIDE DEF w
  <2>3. CASE Done(o, f)
    BY <1>1, <2>2, <2>3, WorkTypes, FreshWork, FreshStep DEF Done
  <2>4. CASE work' = [work EXCEPT ![o][f] = w]
    <3>1. Moves(o, f) /\ work'[o][f] = w
      BY <1>0, <2>1, <2>4, MoveEffect
    <3>2. Wired(o, f)' /\ TornDown(o, f)' /\ work'[o][f].pc \notin HalfSteps
      BY <1>0, <2>1, <2>2, <3>1 DEF Wired, TornDown, StopSteps, HalfSteps
    <3> QED
      BY <1>1, <2>2, <3>1, <3>2, PlainStep
  <2> QED
    BY <2>2, <2>3, <2>4
<1>14. ASSUME OnStarted(o, f) PROVE SingleInv'
  <2>1. /\ work[o][f].pc \notin HalfSteps /\ UNCHANGED <<brokerVars, tokenVars>>
        /\ work' = [work EXCEPT ![o][f] = Idle]
    BY <1>14 DEF OnStarted, Save, Done, At, HalfSteps
  <2> QED
    BY <1>1, <2>1, WorkTypes, FreshWork, FreshStep
<1> QED
  BY <1>3, <1>4, <1>5, <1>6, <1>7, <1>8, <1>9, <1>10, <1>11, <1>12, <1>13, <1>14 DEF StartStep

LEMMA FailureSingle ==
    ASSUME SingleInv, NEW o \in Orchestrators, NEW f \in Flows, FailureStep(o, f), TypeInv'
    PROVE  SingleInv'
<1>0. TypeInv /\ work[o][f] \in GoodWork
  BY DEF SingleInv, TypeInv, HandlersOK
<1>1. /\ ~At(o, f, "idle")
      /\ UNCHANGED <<lifeVars, tick, queues, creds, tokenVars>>
  BY DEF FailureStep, CreateAppFails, FlowFails, HandlerFails, At
<1>2. PairsAt(o, f) /\ CountedAt(o, f)
  BY <1>1, Accounts
<1>3. CASE CreateAppFails(o, f)
  BY <1>1, <1>3, NextNodeSingle DEF CreateAppFails
<1>4. ASSUME Done(o, f), work[o][f].pc # "saveToken", NEW n,
             n \in Nodes => InHand(o, f, n) \/ work[o][f].pc \notin {"saveCred", "dropCred"},
             \/ UNCHANGED <<users, cut>> /\ work[o][f].pc \notin {"saveCred", "dropCred"}
             \/ /\ n \in Nodes /\ users' \in {users, users \cup {<<f, n>>}}
                /\ cut' = cut \cup {<<f, n>>}
      PROVE  SingleInv'
  <2>1. Moves(o, f) /\ work'[o][f] = Idle
    BY <1>0, <1>4, MoveEffect
  <2>2. ~work'[o][f].queued /\ work'[o][f].pc = "idle"
    BY <2>1 DEF Idle, WorkAt
  <2>3. Wired(o, f)' /\ TornDown(o, f)'
    BY <2>2 DEF Wired, TornDown, StopSteps
  <2>4. PairsAt(o, f)'
    <3>1. CASE UNCHANGED <<users, cut>> /\ work[o][f].pc \notin {"saveCred", "dropCred"}
      BY <1>1, <1>2, <3>1 DEF PairsAt, Paired, InHand
    <3>2. CASE /\ n \in Nodes /\ users' \in {users, users \cup {<<f, n>>}}
               /\ cut' = cut \cup {<<f, n>>}
      <4>1. ASSUME NEW m \in Nodes, m # n PROVE Paired(f, m)'
        <5>1. Paired(f, m)
          BY <1>2, <1>4, <3>2, <4>1 DEF PairsAt, InHand
        <5>2. /\ (<<f, m>> \in users') = (<<f, m>> \in users)
              /\ (<<f, m>> \in cut') = (<<f, m>> \in cut)
          BY <3>2, <4>1
        <5> QED
          BY <1>1, <5>1, <5>2 DEF Paired
      <4>2. Paired(f, n)'
        BY <3>2 DEF Paired
      <4> QED
        BY <4>1, <4>2 DEF PairsAt
    <3> QED
      BY <1>4, <3>1, <3>2
  <2>5. CountedAt(o, f)'
    BY <1>1, <1>2, <1>4, <2>2 DEF CountedAt, Count, At
  <2>6. \A g \in Flows, m \in Nodes : g # f =>
           /\ (<<g, m>> \in users') = (<<g, m>> \in users)
           /\ (<<g, m>> \in cut') = (<<g, m>> \in cut)
    BY <1>4
  <2> QED
    BY <1>1, <2>1, <2>3, <2>4, <2>5, <2>6, HandlerStep
<1>5. CASE FlowFails(o, f)
  <2>1. CASE work[o][f].pc \in {"nodes", "credential"} /\ UNCHANGED <<users, cut>>
    BY <1>4, <1>5, <2>1 DEF FlowFails
  <2>2. CASE work[o][f].pc \in {"putUser", "saveCred"}
    <3>1. PICK n \in Nodes : n = work[o][f].node
      BY <1>0, <2>2 DEF GoodWork, HandSteps
    <3>2. /\ Done(o, f) /\ work[o][f].pc # "saveToken"
          /\ InHand(o, f, n) \/ work[o][f].pc \notin {"saveCred", "dropCred"}
      BY <1>5, <2>2, <3>1 DEF FlowFails, InHand
    <3>3. \/ UNCHANGED <<users, cut>> /\ work[o][f].pc \notin {"saveCred", "dropCred"}
          \/ /\ users' \in {users, users \cup {<<f, n>>}}
             /\ cut' = cut \cup {<<f, n>>}
      BY <1>5, <2>2, <3>1 DEF FlowFails, At
    <3> QED
      BY <1>4, <3>1, <3>2, <3>3
  <2> QED
    BY <1>5, <2>1, <2>2 DEF FlowFails, At
<1>6. CASE HandlerFails(o, f)
  <2>1. CASE work[o][f].pc = "dropCred"
    <3>1. PICK n \in Nodes : n = work[o][f].node
      BY <1>0, <2>1 DEF GoodWork, HandSteps
    <3>2. /\ Done(o, f) /\ work[o][f].pc # "saveToken" /\ InHand(o, f, n)
          /\ users' = users /\ cut' = cut \cup {<<f, n>>}
      BY <1>6, <2>1, <3>1 DEF HandlerFails, InHand, At
    <3> QED
      BY <1>4, <3>1, <3>2
  <2>2. CASE work[o][f].pc # "dropCred"
    <3>1. /\ Done(o, f) /\ UNCHANGED <<users, cut>>
          /\ work[o][f].pc \notin {"saveToken", "saveCred", "dropCred"}
      BY <1>6, <2>2 DEF HandlerFails, At
    <3> QED
      BY <1>4, <3>1
  <2> QED
    BY <2>1, <2>2
<1> QED
  BY <1>3, <1>5, <1>6 DEF FailureStep

LEMMA HandleFlowsSingle ==
    ASSUME SingleInv, NEW o \in Orchestrators, HandleFlows(o), TypeInv'
    PROVE  SingleInv'
<1>1. /\ UNCHANGED <<lifeVars, brokerVars, tokenVars>>
      /\ tick' = [tick EXCEPT ![o] = "idle"]
      /\ tick \in [Orchestrators -> {"idle", "flows", "apps"}]
  BY DEF HandleFlows, SingleInv, TypeInv, LoopTypeOK
<1>2. life[o] = "up"
  BY DEF HandleFlows, SingleInv, OnlyTheLiveWork
<1>3. /\ \A p \in Orchestrators, f \in Flows : p # o => work'[p][f] = work[p][f]
      /\ \A f \in Flows : \/ work'[o][f] = work[o][f]
                          \/ work[o][f].pc = "idle" /\ work'[o][f] = NewWork(o, f)
  BY DEF HandleFlows, SingleInv, TypeInv, HandlersOK
<1>4. OneUp'
  BY <1>1 DEF SingleInv, OneUp
<1>5. OnlyTheLiveWork'
  BY <1>1, <1>2, <1>3 DEF SingleInv, OnlyTheLiveWork
<1>6. ASSUME NEW p \in Orchestrators, NEW f \in Flows, work'[p][f] # work[p][f]
      PROVE  /\ ~work'[p][f].queued
             /\ work'[p][f].pc \in
                  {"idle", "claim", "destroy", "dropQueues", "nodes", "getToken"}
             /\ work[p][f].pc = "idle"
  BY <1>3, <1>6, FreshNewWork DEF Fresh
<1>7. ASSUME NEW p \in Orchestrators, NEW f \in Flows
      PROVE  Wired(p, f)' /\ TornDown(p, f)'
  <2>1. CASE work'[p][f] = work[p][f]
    BY <1>1, <2>1 DEF SingleInv, HandlersHold, Wired, TornDown
  <2>2. CASE work'[p][f] # work[p][f]
    BY <1>6, <2>2 DEF Wired, TornDown
  <2> QED
    BY <2>1, <2>2
<1>8. ASSUME NEW f \in Flows PROVE Pairs(f)' /\ Counted(f)'
  <2>1. ASSUME NEW p \in Orchestrators
        PROVE  /\ At(p, f, "saveToken")' <=> At(p, f, "saveToken")
               /\ \A n \in Nodes : InHand(p, f, n)' <=> InHand(p, f, n)
    <3>1. CASE work'[p][f] = work[p][f]
      BY <3>1 DEF At, InHand
    <3>2. CASE work'[p][f] # work[p][f]
      BY <1>6, <3>2 DEF At, InHand
    <3> QED
      BY <3>1, <3>2
  <2>2. Pairs(f) /\ Counted(f)
    BY DEF SingleInv
  <2>3. \A n \in Nodes : Paired(f, n)' <=> Paired(f, n)
    BY <1>1 DEF Paired
  <2> QED
    BY <1>1, <2>1, <2>2, <2>3 DEF Pairs, Counted, Count
<1> QED
  BY <1>4, <1>5, <1>7, <1>8 DEF SingleInv, HandlersHold

(* A crash leaves in cut the node its handler had in hand, and a token that *)
(* its handler was about to store among the unrecorded ones.                *)
LEMMA CrashSingle ==
    ASSUME SingleInv, NEW o \in Orchestrators, Crash(o), TypeInv'
    PROVE  SingleInv'
<1>0. /\ life \in [Orchestrators -> {"new", "up", "dead"}]
      /\ work \in [Orchestrators -> [Flows -> GoodWork]]
      /\ tick \in [Orchestrators -> {"idle", "flows", "apps"}]
      /\ issued \in [Flows -> Int] /\ unrecorded \in [Flows -> Nat]
      /\ UNCHANGED <<queues, users, creds, tokens, issued>>
  BY DEF SingleInv, TypeInv, LoopTypeOK, HandlersOK, ResourceTypeOK, Crash
<1>1. /\ life[o] = "up" /\ life' = [life EXCEPT ![o] = "dead"] /\ vacant' = vacant + 1
      /\ tick' = [tick EXCEPT ![o] = "idle"]
      /\ work' = [work EXCEPT ![o] = [f \in Flows |-> Idle]]
      /\ cut' = cut \cup Halved(o)
      /\ \A f \in Flows : unrecorded'[f] = IF At(o, f, "saveToken") THEN unrecorded[f] + 1
                                           ELSE unrecorded[f]
  BY DEF Crash
<1>2. OneUp'
  <2>1. vacant = 0
    BY <1>1 DEF SingleInv, OneUp
  <2> QED
    BY <1>0, <1>1, <2>1 DEF SingleInv, OneUp
<1>3. OnlyTheLiveWork'
  BY <1>0, <1>1 DEF SingleInv, OnlyTheLiveWork
<1>4. ASSUME NEW p \in Orchestrators, NEW f \in Flows
      PROVE  ~work'[p][f].queued /\ work'[p][f].pc = "idle"
  <2>1. p # o => life[p] # "up"
    BY <1>1 DEF SingleInv, OneUp
  <2>2. work'[p][f] = Idle
    BY <1>0, <1>1, <2>1 DEF SingleInv, OnlyTheLiveWork
  <2> QED
    BY <2>2 DEF Idle, WorkAt
<1>5. HandlersHold'
  BY <1>4 DEF HandlersHold, Wired, TornDown, StopSteps
<1>6. ASSUME NEW f \in Flows, NEW p \in Orchestrators, work[p][f].pc # "idle"
      PROVE  p = o
  BY <1>1, <1>6, Alone DEF SingleInv, OneUp, At
<1>7. ASSUME NEW f \in Flows PROVE Pairs(f)'
  <2>1. ASSUME NEW n \in Nodes, Paired(f, n) PROVE Paired(f, n)'
    BY <1>0, <1>1, <2>1 DEF Paired
  <2>2. ASSUME NEW n \in Nodes, NEW p \in Orchestrators, InHand(p, f, n) PROVE Paired(f, n)'
    <3>1. p = o
      BY <1>6, <2>2 DEF InHand
    <3>2. <<f, n>> \in Halved(o)
      BY <2>2, <3>1 DEF InHand, Halved
    <3> QED
      BY <1>1, <3>2 DEF Paired
  <2> QED
    BY <2>1, <2>2 DEF SingleInv, Pairs
<1>8. ASSUME NEW f \in Flows PROVE Counted(f)'
  <2>1. (\E p \in Orchestrators : At(p, f, "saveToken")) <=> At(o, f, "saveToken")
    BY <1>6 DEF At
  <2>2. ~(\E p \in Orchestrators : At(p, f, "saveToken")')
    BY <1>4 DEF At
  <2>3. issued[f] = unrecorded[f] + (IF tokens[f] = "live" THEN 1 ELSE 0)
                    + (IF At(o, f, "saveToken") THEN 1 ELSE 0)
    BY <2>1 DEF SingleInv, Counted, Count
  <2>4. issued[f] \in Int /\ unrecorded[f] \in Nat
    BY <1>0
  <2>5. issued'[f] = unrecorded'[f] + (IF tokens'[f] = "live" THEN 1 ELSE 0) + 0
    BY <1>0, <1>1, <2>3, <2>4
  <2> QED
    BY <2>2, <2>5 DEF Counted, Count
<1> QED
  BY <1>2, <1>3, <1>5, <1>7, <1>8 DEF SingleInv

LEMMA RestartSingle ==
    ASSUME SingleInv, NEW o \in Orchestrators, Restart(o), TypeInv'
    PROVE  SingleInv'
<1>1. /\ vacant > 0 /\ vacant' = vacant - 1 /\ life' = [life EXCEPT ![o] = "up"]
      /\ life \in [Orchestrators -> {"new", "up", "dead"}]
      /\ UNCHANGED <<tick, work, brokerVars, tokenVars>>
  BY DEF Restart, SingleInv, TypeInv, LoopTypeOK
<1>2. OneUp'
  <2>1. vacant = 1 /\ \A p \in Orchestrators : life[p] # "up"
    BY <1>1 DEF SingleInv, OneUp
  <2> QED
    BY <1>1, <2>1 DEF OneUp
<1>3. OnlyTheLiveWork'
  BY <1>1 DEF SingleInv, OnlyTheLiveWork
<1>4. HandlersHold'
  BY <1>1 DEF SingleInv, HandlersHold, Wired, TornDown
<1>5. \A f \in Flows : Pairs(f)' /\ Counted(f)'
  BY <1>1 DEF SingleInv, Pairs, Paired, InHand, Counted, Count, At
<1> QED
  BY <1>2, <1>3, <1>4, <1>5 DEF SingleInv

LEMMA LoopSingle ==
    ASSUME SingleInv, NEW o \in Orchestrators,
           LoopStep(o) \/ TickFails(o) \/ LostStep(o), TypeInv'
    PROVE  SingleInv'
<1>1. CASE FindAll(o) \/ GetAppList(o) \/ TickFails(o)
  <2>1. UNCHANGED <<lifeVars, work, brokerVars, tokenVars>>
    BY <1>1 DEF FindAll, GetAppList, TickFails
  <2>2. \A p \in Orchestrators : life[p] # "up" => UNCHANGED tick[p]
    BY <1>1 DEF FindAll, GetAppList, TickFails, SingleInv, TypeInv, LoopTypeOK, OnlyTheLiveWork
  <2> QED
    BY <2>1, <2>2, QuietStep
<1>2. CASE HandleFlows(o)
  BY <1>2, HandleFlowsSingle
<1>3. CASE LostStep(o)
  BY <1>3, QuietStep DEF LostStep, DestroyLost, DropLostSecret
<1> QED
  BY <1>1, <1>2, <1>3 DEF LoopStep

LEMMA SinglePreserved == SingleInv /\ [Next]_vars => SingleInv'
<1> SUFFICES ASSUME SingleInv, [Next]_vars PROVE SingleInv'
  OBVIOUS
<1>0. TypeInv'
  BY TypesPreserved DEF SingleInv
<1>1. CASE UNCHANGED vars
  BY <1>0, <1>1, QuietStep
<1>2. CASE RequestStep \/ RepoStep
  BY <1>0, <1>2, QuietStep DEF RequestStep, RepoStep, StartFlow, StopFlow, Request,
     FlowStarted, FlowStopped, FlowFailed, RepoHandles
<1>3. CASE \E f \in Flows : ReceiveStep(f)
  BY <1>0, <1>3, QuietStep DEF ReceiveStep, ReceiveFlowStarting, ReceiveFlowStopping, Receive
<1>4. CASE \E o \in Orchestrators, f \in Flows : EventStep(o, f)
  BY <1>0, <1>4, QuietStep DEF EventStep, HandleFlowStarting, HandleFlowStopping
<1>5. CASE \E o \in Orchestrators, f \in Flows :
             StopStep(o, f) \/ StartStep(o, f) \/ FailureStep(o, f)
  BY <1>0, <1>5, StopSingle, StartSingle, FailureSingle
<1>6. CASE \E o \in Orchestrators :
             LoopStep(o) \/ TickFails(o) \/ LostStep(o) \/ Crash(o) \/ Restart(o)
  BY <1>0, <1>6, LoopSingle, CrashSingle, RestartSingle
<1> QED
  BY <1>1, <1>2, <1>3, <1>4, <1>5, <1>6 DEF Next

(* With one replica a container is launched only into a flow whose queues   *)
(* exist and with a stored credential, and its RabbitMQ user exists unless  *)
(* a failure or a crash parted it from its credential, however often the    *)
(* replica crashes and in whatever order starts, stops and failures come.   *)
THEOREM LaunchCorrect ==
    ASSUME SingleReplica PROVE Spec => []LaunchIsWired
<1>1. Init => SingleInv
  BY InitSingle
<1>2. SingleInv => LaunchIsWired
  <2> SUFFICES ASSUME SingleInv, NEW o \in Orchestrators, NEW f \in Flows, At(o, f, "deploy")
               PROVE  /\ f \in queues /\ <<f, work[o][f].node>> \in creds
                      /\ \/ <<f, work[o][f].node>> \in users
                         \/ <<f, work[o][f].node>> \in cut
    BY DEF LaunchIsWired
  <2>1. Wired(o, f) /\ work[o][f].node \in Nodes
    BY DEF SingleInv, HandlersHold, TypeInv, HandlersOK, GoodWork, HandSteps, At
  <2>2. PairsAt(o, f)
    BY Accounts DEF At
  <2> QED
    BY <2>1, <2>2 DEF Wired, PairsAt, Paired, InHand, At
<1> QED
  BY <1>1, <1>2, SinglePreserved, PTL DEF Spec

(* With one replica flow.stopped is told only of a flow without queues,     *)
(* stored credentials and stored token; of its users only those parted from *)
(* their credential by a failure are left, of its tokens exactly those      *)
(* whose row was never stored.                                              *)
THEOREM TeardownCorrect ==
    ASSUME SingleReplica PROVE Spec => []StoppedMeansTornDown
<1>1. Init => SingleInv
  BY InitSingle
<1>2. SingleInv => StoppedMeansTornDown
  <2> SUFFICES ASSUME SingleInv, NEW o \in Orchestrators, NEW f \in Flows, At(o, f, "forget")
               PROVE  /\ f \notin queues /\ tokens[f] = "none"
                      /\ issued[f] = unrecorded[f]
                      /\ creds \cap ({f} \X Nodes) = {}
                      /\ users \cap ({f} \X Nodes) \subseteq cut
    BY DEF StoppedMeansTornDown
  <2>1. /\ f \notin queues /\ tokens[f] = "none"
        /\ \A n \in Nodes : <<f, n>> \notin creds
    BY DEF SingleInv, HandlersHold, TornDown, At
  <2>2. PairsAt(o, f) /\ CountedAt(o, f)
    BY Accounts DEF At
  <2>3. issued[f] = unrecorded[f]
    <3>1. unrecorded[f] \in Nat
      BY DEF SingleInv, TypeInv, ResourceTypeOK
    <3> QED
      BY <2>1, <2>2, <3>1 DEF CountedAt, Count, At
  <2>4. \A n \in Nodes : <<f, n>> \in users => <<f, n>> \in cut
    BY <2>1, <2>2 DEF PairsAt, Paired, InHand, At
  <2> QED
    BY <2>1, <2>3, <2>4
<1> QED
  BY <1>1, <1>2, SinglePreserved, PTL DEF Spec
=============================================================================
