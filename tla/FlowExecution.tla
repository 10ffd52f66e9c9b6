---------------------------- MODULE FlowExecution ----------------------------
(***************************************************************************)
(* How a flow is executed once it runs: an execute event makes the         *)
(* orchestrator write a flow-state document and send the first step its    *)
(* input; components run their inputs, send outputs and a step_state to    *)
(* the backchannel; the orchestrator turns outputs into inputs of the next *)
(* steps and counts in the document what was started and what succeeded.   *)
(* Equal counters mean to the code that the execution is over, and it has  *)
(* the snapshots of the execution deleted.                                 *)
(*                                                                         *)
(* The backchannel is consumed without a prefetch limit: the handlers of   *)
(* its messages interleave at every await, each of which is a step here.   *)
(* A job is one input of one step.  What is in a message matters only as   *)
(* far as it steers the orchestrator, see order.                           *)
(***************************************************************************)
EXTENDS Naturals, FiniteSets

CONSTANTS
    Flows, Steps,  \* ids of flows and of the nodes of all their graphs
    FlowOf,        \* FlowOf[s]: the flow that step s is a node of
    First,         \* First[f]: the first node of flow f
    NextSteps,     \* NextSteps[s]: the targets of the edges from s
    StartedBy,     \* StartedBy[f]: the user who started flow f
    Privileged,    \* steps of components with the flag privilegedComponent
    Rebounding,    \* steps of components that may ask for a rebound
    Blocking,      \* steps with a policy, or a module that does not load
    Stoppable,     \* flows that are stopped some time
    Triggers,      \* execute events published by scheduler and webhooks
    TriggerFlow,   \* TriggerFlow[t]: the flow that event t executes
    External,      \* events that carry an externalExecId
    Prefetch,      \* inputs that a component takes before it acknowledges one
    ReboundLimit,  \* rebounds of one input before it becomes an error
    Plain,         \* an output without a command
    NoJob,         \* the job of an unused id
    MaxJobs,       \* bound: inputs sent in a behaviour
    MaxOutputs,    \* bound: outputs of a job
    MaxFaults      \* bound: crashes and lost reports in a behaviour

ASSUME GraphAssumption ==
    /\ FlowOf \in [Steps -> Flows]
    /\ First \in [Flows -> Steps]
    /\ NextSteps \in [Steps -> SUBSET Steps]
    /\ IsFiniteSet(Steps)
    /\ TriggerFlow \in [Triggers -> Flows]
    /\ External \subseteq Triggers
ASSUME LimitAssumption ==
    /\ MaxJobs \in Nat /\ MaxOutputs \in Nat /\ MaxFaults \in Nat
    /\ Prefetch \in Nat /\ ReboundLimit \in Nat

VARIABLES
    trigger,    \* trigger[t]: progress of the handler of execute event t
    delivery,   \* delivery[t]: how many executions its deliveries have made, plus one
    records,    \* flows known to the orchestrator
    wired,      \* flows that have their exchange and queues
    started,    \* started[e]: the counter of that name, 0: no document yet
    succeeded,  \* succeeded[e]: the counter of that name
    purging,    \* executions whose snapshots are being deleted
    issued,     \* jobs 1..issued have been counted or rebounded
    job,        \* job[j]: what is fixed about a job
    phase,      \* phase[j]: where the input is
    message,    \* message[m]: progress of backchannel message m
    order,      \* order[m]: what an output orders, Plain or steps to run
    faults      \* faults so far

triggerVars == <<trigger, delivery>>
flowVars == <<records, wired>>
jobVars == <<issued, job, phase>>
stateVars == <<started, succeeded>>
messageVars == <<message, order>>
vars == <<triggerVars, flowVars, stateVars, purging, jobVars, messageVars, faults>>

----------------------------------------------------------------------------
(* Types.                                                                  *)

Jobs == 1 .. MaxJobs

(* Message <<j, 0>> is the step_state of job j, <<j, k>> its k-th output.   *)
Messages == Jobs \X (0 .. MaxOutputs)
Report(j) == <<j, 0>>
IsReport(m) == m[2] = 0

ASSUME OriginAssumption ==
    /\ \A f \in Flows : FlowOf[First[f]] = f
    /\ Triggers \cap Messages = {} /\ Plain # {}

(* flowExecId: the externalExecId of the event, or made anew by each        *)
(* delivery of the event that gets as far as creating an execution.         *)
Execs == Triggers \X (1 .. MaxFaults + 1)

(* Slip: executeFlow ignores the externalExecId.                            *)
ExecIdAnew(t) == <<t, delivery[t]>>
ExecId(t) == <<t, IF t \in External THEN 1 ELSE delivery[t]>>

(* by: the event or the message that counted the job; rebound: how often    *)
(* the input was sent back before, so 0 unless the job is a rebounded copy. *)
Job == [exec : Execs, step : Steps, by : Messages \cup Triggers,
        rebound : 0 .. ReboundLimit]

(* owed: counted, its input is to be sent; rebounding: in the rebounds      *)
(* queue; acked: acknowledged or rejected, step_state not yet published;    *)
(* dropped: acknowledged or rejected and will never be reported.            *)
Phases == {"none", "owed", "queued", "rebounding", "running", "acked",
           "reported", "dropped", "lost"}

(* found: findById has answered; retrying: the upsert met a duplicate key;  *)
(* counted, even: the counters are written, and were equal; handled: acked. *)
Stages == {"none", "waiting", "found", "retrying", "counted", "even", "handled"}

TypeOK ==
    /\ trigger \in [Triggers -> {"none", "waiting", "found", "created", "done", "dropped"}]
    /\ delivery \in [Triggers -> 1 .. MaxFaults + 1]
    /\ records \subseteq Flows /\ wired \subseteq Flows
    /\ started \in [Execs -> Nat] /\ succeeded \in [Execs -> Nat]
    /\ purging \subseteq Execs
    /\ issued \in 0 .. MaxJobs
    /\ job \in [Jobs -> Job \cup {NoJob}]
    /\ phase \in [Jobs -> Phases]
    /\ message \in [Messages -> Stages]
    /\ order \in [Messages -> {Plain} \cup SUBSET Steps]
    /\ faults \in 0 .. MaxFaults

Init ==
    /\ trigger = [t \in Triggers |-> "none"]
    /\ delivery = [t \in Triggers |-> 1]
    /\ records = Flows /\ wired = Flows
    /\ started = [e \in Execs |-> 0] /\ succeeded = [e \in Execs |-> 0]
    /\ purging = {}
    /\ issued = 0
    /\ job = [j \in Jobs |-> NoJob]
    /\ phase = [j \in Jobs |-> "none"]
    /\ message = [m \in Messages |-> "none"]
    /\ order = [m \in Messages |-> Plain]
    /\ faults = 0

(* The new jobs are fresh, in the given phase.                              *)
Issue(new, p) ==
    /\ issued' = issued + Cardinality(DOMAIN new)
    /\ job' = [j \in Jobs |-> IF j \in DOMAIN new THEN new[j] ELSE job[j]]
    /\ phase' = [j \in Jobs |-> IF j \in DOMAIN new THEN p ELSE phase[j]]

Fresh(n) == (issued + 1) .. (issued + n)

----------------------------------------------------------------------------
(* The execute event: executeFlow and its handler.                         *)

(* External: a scheduler or webhooks process publishes flow.execute.        *)
Publish(t) ==
    /\ trigger[t] = "none"
    /\ trigger' = [trigger EXCEPT ![t] = "waiting"]
    /\ UNCHANGED <<delivery, flowVars, stateVars, purging, jobVars, messageVars, faults>>

(* A flow that is not known makes executeFlow throw: the event is nacked.   *)
FindFlow(t) ==
    /\ trigger[t] = "waiting"
    /\ trigger' = [trigger EXCEPT ![t] =
                      IF TriggerFlow[t] \in records THEN "found" ELSE "dropped"]
    /\ UNCHANGED <<delivery, flowVars, stateVars, purging, jobVars, messageVars, faults>>

(* flowExecId is unique: create() of an existing one throws.                *)
CreateExecution(t) ==
    LET e == ExecId(t)
    IN  /\ trigger[t] = "found"
        /\ started[e] = 0
        /\ issued < MaxJobs
        /\ started' = [started EXCEPT ![e] = 1]
        /\ Issue([j \in Fresh(1) |-> [exec |-> e, step |-> First[TriggerFlow[t]],
                                     by |-> t, rebound |-> 0]], "owed")
        /\ trigger' = [trigger EXCEPT ![t] = "created"]
        /\ UNCHANGED <<delivery, flowVars, succeeded, purging, messageVars, faults>>

CreateFails(t) ==
    /\ trigger[t] = "found"
    /\ started[ExecId(t)] # 0
    /\ trigger' = [trigger EXCEPT ![t] = "dropped"]
    /\ UNCHANGED <<delivery, flowVars, stateVars, purging, jobVars, messageVars, faults>>

AckTrigger(t) ==
    /\ trigger[t] = "created"
    /\ \A j \in Jobs : phase[j] = "owed" => job[j].by # t
    /\ trigger' = [trigger EXCEPT ![t] = "done"]
    /\ UNCHANGED <<delivery, flowVars, stateVars, purging, jobVars, messageVars, faults>>

(* An input published while the exchange of the flow is gone reaches nobody.*)
(* RabbitMQ may close the channel over it and the orchestrator then exits:   *)
(* that is an OrchestratorCrash here, at some later step and within the     *)
(* bound on faults.                                                         *)
Delivered(j) == IF FlowOf[job[j].step] \in wired THEN "queued" ELSE "lost"

(* _executeStep asserts the queue and publishes.                            *)
ExecuteStep(j) ==
    /\ phase[j] = "owed"
    /\ job[j].by \notin Triggers => message[job[j].by] = "handled"
    /\ phase' = [phase EXCEPT ![j] = Delivered(j)]
    /\ UNCHANGED <<triggerVars, flowVars, stateVars, purging, issued, job, messageVars, faults>>

----------------------------------------------------------------------------
(* A component: ferryman's processMessage.                                 *)

TakeJob(j) ==
    /\ phase[j] = "queued"
    /\ Cardinality({i \in Jobs : phase[i] = "running" /\ job[i].step = job[j].step})
          < Prefetch
    /\ phase' = [phase EXCEPT ![j] = "running"]
    /\ UNCHANGED <<triggerVars, flowVars, stateVars, purging, issued, job, messageVars, faults>>

(* Only what a privileged component sends is looked at for a command; the   *)
(* command void orders the empty set of steps.                              *)
EmitData(j, k) ==
    /\ phase[j] = "running"
    /\ message[<<j, k>>] = "none"
    /\ \A i \in 1 .. k - 1 : message[<<j, i>>] # "none"
    /\ \E o \in {Plain} \cup (IF job[j].step \in Privileged THEN SUBSET Steps ELSE {}) :
          order' = [order EXCEPT ![<<j, k>>] = o]
    /\ message' = [message EXCEPT ![<<j, k>>] = "waiting"]
    /\ UNCHANGED <<triggerVars, flowVars, stateVars, purging, jobVars, faults>>

(* The rebounded input comes back by way of the exchange of its flow.       *)
Rebounded(j) == IF FlowOf[job[j].step] \in wired THEN "rebounding" ELSE "lost"

(* onRebound publishes the input once more, to come back after a while; the *)
(* job itself goes on to its end.                                           *)
Rebound(j) ==
    /\ phase[j] = "running"
    /\ job[j].step \in Rebounding
    /\ job[j].rebound < ReboundLimit
    /\ \A i \in 1 .. issued : job[i].rebound = 0 \/ job[i].by # Report(j)
    /\ issued < MaxJobs
    /\ Issue([i \in Fresh(1) |-> [exec |-> job[j].exec, step |-> job[j].step,
                                  by |-> Report(j), rebound |-> job[j].rebound + 1]],
             Rebounded(j))
    /\ UNCHANGED <<triggerVars, flowVars, stateVars, purging, messageVars, faults>>

ReboundReturns(j) ==
    /\ phase[j] = "rebounding"
    /\ phase' = [phase EXCEPT ![j] = "queued"]
    /\ UNCHANGED <<triggerVars, flowVars, stateVars, purging, issued, job, messageVars, faults>>

(* The end of processing acknowledges, or rejects after errors.             *)
End(j) ==
    /\ phase[j] = "running"
    /\ phase' = [phase EXCEPT ![j] = "acked"]
    /\ UNCHANGED <<triggerVars, flowVars, stateVars, purging, issued, job, messageVars, faults>>

SendFunctionComplete(j) ==
    /\ phase[j] = "acked"
    /\ phase' = [phase EXCEPT ![j] = "reported"]
    /\ message' = [message EXCEPT ![Report(j)] = "waiting"]
    /\ UNCHANGED <<triggerVars, flowVars, stateVars, purging, issued, job, order, faults>>

(* Data that a policy blocks is acknowledged, and an input whose module     *)
(* cannot be loaded is rejected, without a step_state.                      *)
DropInput(j) ==
    /\ phase[j] = "running"
    /\ job[j].step \in Blocking
    /\ \A k \in 1 .. MaxOutputs : message[<<j, k>>] = "none"
    /\ phase' = [phase EXCEPT ![j] = "dropped"]
    /\ UNCHANGED <<triggerVars, flowVars, stateVars, purging, issued, job, messageVars, faults>>

(* publishMessage gives up after its attempts, and nobody is told.          *)
PublishGivesUp(j) ==
    /\ phase[j] = "acked"
    /\ faults < MaxFaults
    /\ faults' = faults + 1
    /\ phase' = [phase EXCEPT ![j] = "dropped"]
    /\ UNCHANGED <<triggerVars, flowVars, stateVars, purging, issued, job, messageVars>>

(* Slip: an input is acknowledged when it is taken, not at its end.         *)
InterruptedIsGone(j) == IF phase[j] \in {"running", "acked"} THEN "dropped" ELSE phase[j]

(* Slip: an input is acknowledged only after its step_state is published.   *)
InterruptedUnacked(j) == IF phase[j] \in {"running", "acked"} THEN Delivered(j) ELSE phase[j]

(* What was not acknowledged is queued again, what was is not reported.     *)
Interrupted(j) ==
    IF phase[j] = "running" THEN Delivered(j)
    ELSE IF phase[j] = "acked" THEN "dropped" ELSE phase[j]

(* The process that runs step s dies.                                       *)
ComponentCrash(s) ==
    /\ faults < MaxFaults
    /\ faults' = faults + 1
    /\ phase' = [j \in Jobs |->
                    IF j <= issued /\ job[j].step = s THEN Interrupted(j) ELSE phase[j]]
    /\ UNCHANGED <<triggerVars, flowVars, stateVars, purging, issued, job, messageVars>>

----------------------------------------------------------------------------
(* The backchannel: _handleMessage, one handler per message.               *)

StepOf(m) == job[m[1]].step
ExecOf(m) == job[m[1]].exec
FlowOfStep(m) == FlowOf[StepOf(m)]

(* What the handler starts and whether it counts a success.                 *)
Ordered(m) == IF IsReport(m) THEN {}
              ELSE IF order[m] = Plain THEN NextSteps[StepOf(m)] ELSE order[m]

(* Slip: every message of a step counts as its success.                     *)
SucceedsAlways(m) == TRUE
Succeeds(m) == IsReport(m) \/ order[m] # Plain

(* Slip: the two increments are passed in the wrong order.                  *)
IncrementSwapped(m) ==
    [started |-> IF Succeeds(m) THEN 1 ELSE 0, succeeded |-> Cardinality(Ordered(m))]

(* Slip: an output counts as one start, however many next steps it has.     *)
IncrementByOne(m) == [started |-> IF Ordered(m) = {} THEN 0 ELSE 1,
                      succeeded |-> IF Succeeds(m) THEN 1 ELSE 0]
Increment(m) ==
    [started |-> Cardinality(Ordered(m)), succeeded |-> IF Succeeds(m) THEN 1 ELSE 0]

(* Slip: run-next-steps checks that its targets exist, not whose they are.  *)
ServedToAnyone(m) ==
    \/ IsReport(m)
    \/ order[m] = {}
    \/ /\ FlowOfStep(m) \in records
       /\ \A s \in Ordered(m) : FlowOf[s] \in records

(* run-next-steps is refused unless every target is a step of a flow that   *)
(* is known and was started by the same user.  A report and void do not     *)
(* look at the flow.                                                        *)
Served(m) ==
    \/ IsReport(m)
    \/ order[m] = {}
    \/ /\ FlowOfStep(m) \in records
       /\ \A s \in Ordered(m) :
             /\ FlowOf[s] \in records
             /\ StartedBy[FlowOf[s]] = StartedBy[FlowOfStep(m)]

(* Errors are logged; message and output without a next step are then done. *)
HandleMessage(m) ==
    /\ message[m] = "waiting"
    /\ message' = [message EXCEPT ![m] =
                      IF Served(m) /\ (Succeeds(m) \/ Ordered(m) # {})
                      THEN "found" ELSE "handled"]
    /\ UNCHANGED <<triggerVars, flowVars, stateVars, purging, jobVars, order, faults>>

(* The upsert filters by the flow of the step and by the execution, which   *)
(* exists under the flow it was created for.                                *)
DocumentMatches(m) == FlowOfStep(m) = TriggerFlow[ExecOf(m)[1]]

UpsertCount(m) ==
    LET e == ExecOf(m)
        new == Fresh(Cardinality(Ordered(m)))
    IN  /\ message[m] \in {"found", "retrying"}
        /\ DocumentMatches(m)
        /\ issued + Cardinality(Ordered(m)) <= MaxJobs
        /\ \E a \in [new -> Ordered(m)] :
              /\ \A s \in Ordered(m) : \E j \in new : a[j] = s
              /\ Issue([j \in new |-> [exec |-> e, step |-> a[j], by |-> m, rebound |-> 0]],
                       "owed")
        /\ started' = [started EXCEPT ![e] = @ + Increment(m).started]
        /\ succeeded' = [succeeded EXCEPT ![e] = @ + Increment(m).succeeded]
        /\ message' = [message EXCEPT ![m] =
                          IF Succeeds(m) /\ started'[e] = succeeded'[e]
                          THEN "even" ELSE "counted"]
        /\ UNCHANGED <<triggerVars, flowVars, purging, order, faults>>

(* Any other flow makes the upsert insert, which the unique flowExecId      *)
(* refuses: upsertCount calls itself again.                                 *)
DuplicateKey(m) ==
    /\ message[m] = "found"
    /\ ~DocumentMatches(m)
    /\ message' = [message EXCEPT ![m] = "retrying"]
    /\ UNCHANGED <<triggerVars, flowVars, stateVars, purging, jobVars, order, faults>>

(* Slip: snapshots are deleted by the id of the flow.                       *)
FinishMessagePurgesFlow(m) ==
    /\ message[m] \in {"counted", "even"}
    /\ message' = [message EXCEPT ![m] = "handled"]
    /\ purging' = IF message[m] = "even" THEN purging \cup {FlowOfStep(m)} ELSE purging
    /\ UNCHANGED <<triggerVars, flowVars, stateVars, jobVars, order, faults>>

(* _checkFlowProgress, the next steps are let go, the message is acked.     *)
FinishMessage(m) ==
    /\ message[m] \in {"counted", "even"}
    /\ message' = [message EXCEPT ![m] = "handled"]
    /\ purging' = IF message[m] = "even" THEN purging \cup {ExecOf(m)} ELSE purging
    /\ UNCHANGED <<triggerVars, flowVars, stateVars, jobVars, order, faults>>

PurgeSnapshots(e) ==
    /\ e \in purging
    /\ purging' = purging \ {e}
    /\ UNCHANGED <<triggerVars, flowVars, stateVars, jobVars, messageVars, faults>>

(* The orchestrator dies: RabbitMQ delivers again what was not acked, and   *)
(* the steps it was about to execute are gone.                              *)
OrchestratorCrash ==
    /\ faults < MaxFaults
    /\ faults' = faults + 1
    /\ trigger' = [t \in Triggers |->
                      IF trigger[t] \in {"found", "created"} THEN "waiting" ELSE trigger[t]]
    /\ delivery' = [t \in Triggers |->
                       IF trigger[t] = "created" THEN delivery[t] + 1 ELSE delivery[t]]
    /\ message' = [m \in Messages |->
                      IF message[m] \in {"found", "retrying", "counted", "even"}
                      THEN "waiting" ELSE message[m]]
    /\ phase' = [j \in Jobs |-> IF phase[j] = "owed" THEN "lost" ELSE phase[j]]
    /\ purging' = {}
    /\ UNCHANGED <<flowVars, stateVars, issued, job, order>>

----------------------------------------------------------------------------
(* A stop of a flow in the middle of its executions: _handleFlowState.     *)

DeleteQueues(f) ==
    /\ f \in wired \cap Stoppable
    /\ wired' = wired \ {f}
    /\ phase' = [j \in Jobs |->
                    IF phase[j] \in {"queued", "rebounding"} /\ FlowOf[job[j].step] = f
                    THEN "lost" ELSE phase[j]]
    /\ UNCHANGED <<triggerVars, records, stateVars, purging, issued, job, messageVars, faults>>

ForgetFlow(f) ==
    /\ f \in records \ wired
    /\ records' = records \ {f}
    /\ UNCHANGED <<triggerVars, wired, stateVars, purging, jobVars, messageVars, faults>>

----------------------------------------------------------------------------
HandleTrigger(t) ==
    FindFlow(t) \/ CreateExecution(t) \/ CreateFails(t) \/ AckTrigger(t)
Handle(m) == HandleMessage(m) \/ UpsertCount(m) \/ DuplicateKey(m) \/ FinishMessage(m)
RunJob(j) == TakeJob(j) \/ End(j) \/ SendFunctionComplete(j) \/ ReboundReturns(j)

Next ==
    \/ \E t \in Triggers : Publish(t) \/ HandleTrigger(t)
    \/ \E j \in Jobs : ExecuteStep(j) \/ RunJob(j) \/ Rebound(j) \/ DropInput(j)
                       \/ PublishGivesUp(j)
    \/ \E j \in Jobs, k \in 1 .. MaxOutputs : EmitData(j, k)
    \/ \E m \in Messages : Handle(m)
    \/ \E e \in Execs : PurgeSnapshots(e)
    \/ \E s \in Steps : ComponentCrash(s)
    \/ \E f \in Flows : DeleteQueues(f) \/ ForgetFlow(f)
    \/ OrchestratorCrash

Spec == Init /\ [][Next]_vars

(* Handlers that have begun go on, promises settle, RabbitMQ delivers, and  *)
(* a component ends every input it takes.  Nobody has to publish an event,  *)
(* to emit, to ask for a rebound or to stop a flow.                         *)
Fairness ==
    /\ \A t \in Triggers : WF_vars(HandleTrigger(t))
    /\ \A j \in Jobs : WF_vars(ExecuteStep(j)) /\ WF_vars(RunJob(j))
    /\ \A m \in Messages : WF_vars(Handle(m))

FairSpec == Spec /\ Fairness

----------------------------------------------------------------------------
(* Properties.                                                             *)

JobsOf(e) == {j \in 1 .. issued : job[j].exec = e}
Counted(e) == {j \in JobsOf(e) : job[j].rebound = 0}
Settled(e) == {j \in JobsOf(e) : message[Report(j)] \in {"counted", "even", "handled"}}

(* Something of the execution is still to be run, or may yet start a step.  *)
Pending(e) ==
    \/ \E j \in JobsOf(e) : phase[j] \in {"owed", "queued", "rebounding", "running"}
    \/ \E m \in Messages : /\ m[1] \in JobsOf(e)
                           /\ ~IsReport(m)
                           /\ message[m] \in {"waiting", "found", "retrying"}
                           /\ Ordered(m) # {}

(* The counter started of an execution (ComponentOrchestrator.js:441) is    *)
(* the number of inputs that were promised to its steps, whatever crashes,  *)
(* is delivered twice or is stopped: a step never runs uncounted.           *)
StartedIsExact == \A e \in Execs : started[e] = Cardinality(Counted(e))

(* Without crashes and commands, succeeded (ComponentOrchestrator.js:375)   *)
(* is the number of inputs whose step_state was handled, once each.         *)
SucceededIsExact == \A e \in Execs : succeeded[e] = Cardinality(Settled(e))

(* Equal counters (ComponentOrchestrator.js:302) are seen only by a handler *)
(* at whose update every input counted so far had reported its completion.  *)
EvenMeansSettled ==
    [][\A m \in Messages :
          message[m] # "even" /\ message'[m] = "even" => Counted(ExecOf(m))' \subseteq Settled(ExecOf(m))']_vars

(* An event with an externalExecId is executed at most once, however often  *)
(* it is delivered: flowExecId is unique (FlowStateDao.js:6).               *)
ExecutedOnce ==
    \A t \in External : Cardinality({j \in 1 .. issued : job[j].by = t}) <= 1

(* However steps of several flows order one another, an execution only runs *)
(* steps of flows of the user whose flow it began in                        *)
(* (ComponentOrchestrator.js:334 compares neighbours).                      *)
ExecutionsStayWithTheirUser ==
    \A j \in 1 .. issued :
        StartedBy[FlowOf[job[j].step]] = StartedBy[TriggerFlow[job[j].exec[1]]]

(* The inputs of every step pass through a queue as InputQueue says, of      *)
(* which StepProcess is the other end: none is settled unless taken, taken   *)
(* by two, beyond the prefetch, after it was settled or from a deleted queue.*)
InPhase(s, phases) == {j \in 1 .. issued : job[j].step = s /\ phase[j] \in phases}
Queue(s) == INSTANCE InputQueue WITH Inputs <- Jobs, there <- FlowOf[s] \in wired, limit <- Prefetch,
    queued <- InPhase(s, {"queued"}), taken <- InPhase(s, {"running"}),
    settled <- InPhase(s, {"acked", "reported", "dropped"}), lost <- InPhase(s, {"lost"})
InputsAreQueued ==
    /\ \A s \in Steps : Queue(s)!Init
    /\ [][\A s \in Steps : [Queue(s)!Next]_(Queue(s)!vars)]_vars

(* An input that is queued reaches its end although components crash        *)
(* (ferryman acknowledges at the end), unless its flow is stopped.          *)
JobsAreServed ==
    \A j \in Jobs : phase[j] = "queued" ~> phase[j] \in {"acked", "lost"}

(* Snapshots are deleted when nothing of the execution is left to run.      *)
PurgedWhenOver == [][\A e \in Execs : e \in purging' \ purging => ~Pending(e)]_vars

(* Whatever input an execution still sends, the execution comes to its end  *)
(* and has its snapshots deleted after that (ComponentOrchestrator.js:307). *)
ExecutionsArePurged ==
    \A e \in Execs :
        (\E j \in JobsOf(e) : phase[j] = "owed") ~> (e \in purging /\ ~Pending(e))
=============================================================================
