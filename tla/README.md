# Formal models of the Open Integration Hub

This directory holds TLA+ models of the parts of the Open Integration Hub that
decide whether flows start, run, are fed and stop, of the services that keep
tokens, flows, configurations and data for them, the TLC configurations that
check the models on small instances, and proofs, checked by TLAPS, of what
matters most for every size of the system. Paths below are relative to `src/`.

Run everything from this directory:

    tlc -workers 2 -config FlowLifecycle_safety.cfg MCFlowLifecycle.tla
    tlc -workers 2 -config Platform_safety.cfg MCPlatform.tla
    tlapm FlowExecution_proofs.tla

`PROJECT.json` lists the runs, the lines of code each definition models, the
findings, the hazards and, for every property of a passing run, a plausible bug
(*mutant*) that makes the run fail. A definition marked *Slip* in a module is
the body of such a mutant; nothing else uses it.

## 1. Inventory

The hub connects applications. A *flow* is a directed graph of *nodes* (steps);
each step runs a *component*, a container built on the library ferryman. The
services talk over an event bus (topic exchange in RabbitMQ) and the steps of a
flow over queues of their own.

| Component | State | Operations | Interacts with | Module |
|---|---|---|---|---|
| flow repository (`services/flow-repository`) | documents of flows: owners, graph, status inactive, starting, active, stopping | CRUD, bulk update, start and stop; subscriptions to `flow.started`, `flow.stopped`, `flow.failed`, `iam.user.deleted` | publishes `flow.starting`, `flow.stopping` | `FlowLifecycle` (start, stop), `FlowEditing` and `FlowLife` (the rest) |
| component orchestrator, loop (`lib/` and `services/component-orchestrator`) | its own flow records (starting, preparing-by-id, prepared, started, stopping); in memory the flows being handled | event handlers that write the record; a loop that lists records and apps and starts one asynchronous handler per flow | Kubernetes deployments and secrets, RabbitMQ queues and users, IAM tokens | `FlowLifecycle` |
| component orchestrator, executions (`_handleMessage`, `executeFlow`) | a flow-state document per execution with counters started and succeeded | execute events; backchannel messages (output, step_state, error); purge of snapshots | ferryman over queues, snapshots service over HTTP | `FlowExecution` |
| component orchestrator, global components; component repository | flag `active`; queue, RabbitMQ user, stored credential, Kubernetes secret and deployment of a component | start, stop, restart all; start by the loop for a flow that misses it | events `component.starting`, `component.stopping` | `GlobalComponents` |
| ferryman (`lib/ferryman`) | inputs taken and not yet acknowledged; `messagesCount`; fields of the last token | take an input, run the component, emit, rebound, acknowledge, report; graceful shutdown | input queue, backchannel, secret and snapshots services | `FlowExecution` (what an input does), `StepProcess` (the process), `InputQueue` (the queue between them) |
| scheduler, webhooks | their own copies of running flows, due times | publish `flow.execute` on time or on a request | event bus | `Triggers` |
| event bus (`lib/event-bus`) | connection, channels, subscriptions, retry timers | publish, subscribe, reconnect, settle | RabbitMQ | `EventBus`, `AtLeastOnce` |
| secret service | secrets with tokens, a lock while a token is refreshed | get with refresh, OAuth callbacks, CRUD | OAuth providers | `SecretRefresh` |
| data hub | master data objects with the refs of applications | post, upsert by record id, events of validated records, put, patch, enrich (deduplication), remove a ref | ferryman, event bus | `DataHub` |
| dispatcher service | configurations: applications and the flows made for them | add, edit, remove, modify, delete; turn a record into dispatches, start inactive flows | event bus, flow repository | `Dispatch` |
| integration layer service (`services/ils`) | chunks of records until complete, with an expiry | create or merge, split | flows over HTTP | `Chunks` |
| snapshots service | last snapshot per step of an execution | upsert, delete by query | ferryman, orchestrator | none (interface only) |

IAM, iam-utils, governance, cfm, logic gateway (an example only), meta data and
template repositories, analytics, reports, audit log, raw data storage, app
directory, attachment storage, backend commons and the web interface are CRUD,
pure functions, forwarding or wiring; section 7 says why they are left out.

### What is hard

* **Interleaving.** Every handler is asynchronous JavaScript: each `await` lets
  every other handler of the process run. Consumers of the bus and of the
  backchannel have no prefetch limit, so nothing keeps the messages of one flow
  in order. Several replicas work on the same records.
* **Outdated pictures.** Nearly every request of every service reads a document,
  awaits, and writes what it has read: the loop with its two lists, an update of
  a flow, a change of a dispatcher configuration, a merge of a chunk, a refresh
  of a token, a planned run.
* **Saves that overwrite.** Status is written whatever it has become; a save of
  a deleted document throws or does nothing, depending on the call.
* **Failure.** Processes die anywhere, connections are lost, RabbitMQ delivers
  again what was not acknowledged. Some failing calls are logged and forgotten
  (`publishQueue`, `createApp`, `publishMessage`, the scheduler's publish), some
  end the handler, some fail the flow, some leave the event unsettled.
* **Counting.** The end of an execution is inferred from two counters that many
  concurrent handlers increment; the end of a process from the count of inputs.
* **Locks and time.** The lock of a secret has a timeout, the requests that meet
  it a bounded number of retries, and the provider accepts a token once.

### What makes the system correct

* A container starts only into a flow that has its queues and a user for it; a
  flow is reported stopped only when nothing of it is left. The loop heals what
  broke. The same for a global component and its credential.
* The repository and the orchestrators agree on what runs, and on its graph.
* The counters of an execution are exact, and equal counters mean that it is
  over; an event is executed once; an execution stays with its user.
* The bus delivers what it accepted at least once, across reconnects, and
  settles nothing for a handler of a connection that is gone.
* A component's process ends after a signal, and cuts off no input it counted.
* Due flows are executed and no date is skipped; copies agree with what runs.
* At most one request refreshes a secret; its token can always be refreshed.
* Refs, chunks and dispatcher flows are neither lost nor doubled unless two
  requests for the same thing overlap.

## 2. The modules

### FlowLifecycle: start and stop

Three parties share the state: the repository (`repo`), the bus (`events`, a bag
without order) and the processes of the orchestrator, which share the records
and the cluster and keep a tick, two lists and one handler per flow each.

| State | Code |
|---|---|
| `repo[f]` | status in the flow repository's collection (`mongo.js:147-218`) |
| `record[f]` | status of the orchestrator's document; an orchestrator id stands for `preparing-by-<id>` (`models/Flow.js:20-34`) |
| `receiving[o][e][f]` | what a running `FlowStarting`/`FlowStopping` handler has read before it saves |
| `tick`, `allFlows`, `allApps` | the loop between its awaits (`ComponentOrchestrator.js:64-97`) |
| `work[o][f]` | program counter of `_handleFlowState`; busy means `isProcessingFlow` |
| `lost`, `unsecret` | `_removeLostDeployments` |
| `deployed`, `secrets`, `queues` | Kubernetes and RabbitMQ |
| `users`, `creds` | RabbitMQ users, and the credentials stored for them (`RabbitMqQueuesManager.js:127-222`) |
| `issued`, `tokens` | IAM tokens, and the rows stored for them (`TokensDao.js:16-66`) |
| `cut`, `unrecorded` | history: apps of which a failure left one of user and credential without the other; tokens it left without a row |

Every `await` at which another handler may do something that matters ends an
action. An action covers its whole stretch of code: `HandleFlows` starts a
handler for every flow *and* collects the lost apps, as the code does in one
turn. `Request` covers the write and the publish that may fail silently.

Failures (`MaxFaults` of them): a publish that is lost, an event handler whose
database call fails, a tick that throws, `createApp` refused by the cluster, a
node that fails its flow, a call that ends the handler, a token that cannot be
had. `Crash` kills a process between any two steps; a successor with a new id
may take its place.

A RabbitMQ user and the credential stored for it are two things, made one after
the other (`FindCred`, `PutUser`, `SaveCred`) and deleted one after the other
(`ListCreds`, `DropUser`, `DropCred`), and so are an IAM token and its row
(`GetToken`, `SaveToken`, `DropToken`, `DropRow`). The code looks only at what is
stored. When a call between the two fails, or the process dies there, either may
be left without the other: a stored credential whose user is gone is taken for a
user, and the container starts without one; a user without a credential is never
deleted, nor is a token without a row. `LaunchIsWired` and `StoppedMeansTornDown`
name these as their exceptions, and nothing else: `cut` holds exactly the apps of
which a *failure* parted the two, and `unrecorded` counts the tokens.

### FlowEditing: the documents of the repository

The other side of `FlowLifecycle`: all the requests that change a flow, each
with its read and its write apart (`ReadFlow`, `WriteFlow`, `PublishFlow`), the
reports of the orchestrators (`TakeReport`), and the removal of a user with the
stop of the flows that become orphans (`Anonymise`, `CleanupOrphans`). The
orchestrators are reduced to what the repository can see of them: they run the
graph that the last start carried (`fleet`). `disturbed` remembers the flows of
which requests or events overlapped; that a 409 keeps most of them apart is what
the properties are about.

A bulk update notes the 409 and goes on (`flow.js:221-223`). It still refuses a
flow that is not inactive, for the validator finds the merged document's status
(`flow.js:239`, `validator.js:25`), unless its own body says `inactive`: then that
is written over whatever the flow is doing, and nothing is stopped. This is the
request `bulk` of the model; one without a status is a `patch`. `declared` holds
the flows that are inactive by such a declaration alone.

`FlowLife` is the abstract specification: what the owner of one flow may expect
while one thing at a time is asked of it, with one action for each of that:
create, change, declare inactive, delete, start, launch, started, failed, stop,
halt, stopped. The
requests with their reads and writes, the events and the reports implement it,
one `FlowLife` for each flow (`Life(f) == INSTANCE FlowLife WITH ...`). The
mapping hides a flow that is in `disturbed`, which is the step `Disturb` of the
abstract specification, after which it promises nothing. `LivesAreInOrder` says
so of all flows at once: their initial states map to initial states, each step
to a step of each flow's life or a stutter.

### FlowExecution: running an execution

A *job* is one input of one step; a *message* `<<j, k>>` is the `k`-th output of
job `j`, `<<j, 0>>` its step_state. The model follows a job from the count that
promises it (`owed`) through the queue and the component to its report, and a
message through the awaits of `_handleMessage`.

| State | Code |
|---|---|
| `trigger[t]` | handler of one `flow.execute` event (`FlowExecute.js`, `executeFlow`) |
| `started[e]`, `succeeded[e]` | the flow-state document (`FlowStateDao.js`); started 0: none |
| `issued`, `job` | inputs counted (or rebounded) so far, with their execution, step and cause |
| `phase[j]` | where the input is: queue, component, acknowledged, reported, lost |
| `message[m]`, `order[m]` | progress of the handler of a backchannel message; whether the output is a command and which steps it orders |
| `purging` | DELETE requests to the snapshots service under way |
| `records`, `wired` | flows the orchestrator knows, flows whose exchange exists |

Both increments of a message happen in one upsert (`UpsertCount`), which then
compares the counters it got back; the code executes the next steps and purges
afterwards, which are actions of their own. `DuplicateKey` is the insert that
the unique `flowExecId` refuses. A stop in the middle of executions is the two
steps that concern them, `DeleteQueues` and `ForgetFlow`. An input that a
component rebounds after its flow was stopped reaches nobody (`Rebounded`): the
rebound goes by way of the exchange of the flow, which is deleted with the
queues. An earlier version of the model let it come back; `InputsAreQueued`
found that. An output or a next step published to the exchange of a flow that is
gone makes RabbitMQ close the channel, and the orchestrator exits
(`ComponentOrchestratorApp.js:49-56`): that is an `OrchestratorCrash`, one of the
`MaxFaults` faults, and not an action of its own.

`InputQueue` is the abstract queue of a step: an input is sent, taken within the
prefetch, settled once by a component that has taken it, or given back, and the
queue may be deleted under all of that. `FlowExecution` implements one for each
step (`Queue(s) == INSTANCE InputQueue WITH ...`), where settled is every phase
from the acknowledgement on; the property is `InputsAreQueued`.

### StepProcess: the process of a component

`FlowExecution` follows an input; `StepProcess` the process that takes it:
consuming with a prefetch, every await of `processMessage` before the component
runs (policy, transformation, count, module), the end, and the graceful shutdown
of `runGlobal.js` with signals at any time, twice included.

| State | Code |
|---|---|
| `proc`, `consuming`, `open` | process, consumer and subscribe channel (`amqp.js`) |
| `scheduling`, `callback` | calls of `scheduleShutdown` at their await; `shutdownCallback` |
| `messagesCount` | the member of that name, `Int` since nothing keeps it from falling below 0 but the proof |
| `fields` | the input whose token is in `this.nodeSettings`, `this.flowId`, `this.tenant` |
| `input[m].at`, `.work` | queued, unsettled or settled for RabbitMQ; progress of `processMessage` |

`Kill` is a crash, a lost connection (which ends the process) or the end of the
grace period. `Unmarked` inputs have no readable token: nothing settles them.
`StepProcess` implements the same `InputQueue` from its other end
(`InputsAreHandedOver`): there the channel that closes, not the job that is
interrupted, gives inputs back, and handlers that go on after it settle nothing.

### EventBus and AtLeastOnce: the bus

`EventBus` models one service's `EventBus` and `RabbitMqTransport`: connect,
`_retry` with its timers, subscribe, disconnect, and what RabbitMQ does when a
channel closes. A channel is named by the number of its connection; `on[e]` is
the channel an event is unsettled on, `running` the handlers with the channel
of *their* delivery, as `RabbitMqEvent` keeps its own channel. Faults: a failing
connect, a lost connection, an exception of a handler or of the publisher, a
crash. `AtLeastOnce` is the abstract specification: an event that was accepted
is kept until the service has served it. `Promise == INSTANCE AtLeastOnce WITH
kept <- Kept, served <- handled` is the refinement mapping; it is checked as the
property `DeliversAtLeastOnce` and proved as `BusKeepsItsPromise`.

### Triggers: scheduler and webhooks

Both services keep a copy of the flows they are responsible for, by the same
three handlers, whose reads and writes are apart (`TakeMail`, `WriteCopy`,
`Acknowledge`). The scheduler's loop takes at most `Limit` due flows, publishes
their execution without awaiting it, and plans the next run (`ScheduleFlows`,
`ScheduleFlow`, `PlanNextRun`). Dates are abstracted to the order in which flows
become due (`overdue`): a flow is due once, since the next date is computed from
now (`Flow.js:42-45`) and dates that pass while an earlier one waits are skipped.

### SecretRefresh: tokens

| State | Code |
|---|---|
| `secret[s]` | the document: token, expiry, `lockedAt` |
| `request[r]` | a call of `getRefreshed`: what it has read, the token in hand, retries (`dao/secret.js:95-232`) |
| `oauth[c]` | `handleOAuth2`, from the exchange of the code to the stored token |
| `valid`, `minted` | refresh tokens the provider accepts, and those it has issued |

A provider revokes a refresh token when it grants the next. Time is a counter
that advances between any two steps. `stolen` remembers the secrets of which a
live lock was released by a request that did not set it: what the code does with
a lock that is older than its timeout *in the document it has read*. A PATCH of
a secret (`routes/secrets/index.js:172-187`, `dao/secret.js:269-307`) writes the
value it is given, tokens included, over whatever a refresher is about to save;
it is not modelled, and the properties say nothing of a secret that is patched.

### GlobalComponents

One component, its administrators, and the flows that use it. An *errand* is a
handler of an event or a start by the loop; each call of it is a step
(`StartComponent`, `StopComponent`), which may fail or be cut off by a crash.
`whole` tells a payload with the document of the component from one with its
`_id` alone, which is what the restart sends. When a restart cannot set the flag
it goes on to its start all the same (`AdminIsCut`). `users` is the status of a
flow, as far as the loop cares: the handler comes to the components of a flow
only when no other process is preparing it (`ComponentOrchestrator.js:110-112`),
so a flow whose preparing process died (`stale`) has its component looked at no
more until it is started again.

### DataHub, Dispatch, Chunks

Three services that read a document and write it back.

`DataHub`: Mongoose pushes a ref, writes changed refs over the version it has
read only, and `findOneAndUpdate` looks at no version. POST `/data` and
`/data/import` make objects without looking who has their refs (`PostOne`); PUT
and PATCH with refs replace those that were read (`ReplaceRefs`); a PUT without
refs unsets whatever the object has by then (`PutOne`), a PATCH leaves them
(`PatchOne`). An enrichment walks over the objects with a cursor and may delete
them one by one (`Compare`), and what it writes back in the end includes the
version it has read. `namedRefs` remembers the refs that a request put into an
object without looking, or while another object had them. `rewound` remembers the
objects that an enrichment has set back: a request that read such an object
before cannot tell by the version that it was changed, and writes over refs that
were added since. The proof of `RefsAreKept` came upon this exception; it takes
five requests to one object to meet it, more than the run of `Platform_safety`
makes.

`Dispatch`: a change of a configuration reads it, calls the flow repository,
writes the whole configuration, deletes flows; records start the flows of their
targets meanwhile. The body of an edit is spread over the application and may
drop its flows, and the body of PATCH `/:id` is a list of its own (`KeptFlows`);
what they drop is deleted without a token, which is not at all. The latter also
makes the flows of an application that has none yet, as a PUT does, but does not
look at the `false` of a call that failed (`FlowsNotMade`) and writes it as the
list of applications (`SpoilListing`, `intact`); and it updates the configuration
of the id in the body. `excused` holds the flows that these lose.

`Chunks`: a piece of a record finds the chunk of its identifier, or makes one;
MongoDB removes chunks at any time. Of the definition in a request only the
identifier's name and the domain are compared with the chunk's (a *key*); the
schema is the request's own, and the last one that was merged judges the chunk.

### MCPlatform: one module for nine parts

`EventBus`, `StepProcess`, `SecretRefresh`, `Triggers`, `DataHub`,
`FlowEditing`, `GlobalComponents`, `Dispatch` and `Chunks` share no variable.
`MCPlatform` puts them into one specification in which a behaviour runs one part
and leaves the others at rest, so that a run takes the *sum* of their state
spaces and a property of any part is checked by one configuration. This is no
composition: nothing of a part depends on another one. That the platform behaves
like each of its parts, and so has what is proved of them, is `PartsBehave`.

### How the parts relate

* `FlowExecution` sees of a flow's life only that its queues and later its
  record disappear; both steps are actions of `FlowLifecycle` (`DropQueues`,
  `OnStopped`) in the same order. They are not composed: the product of the two
  has no behaviour that the interface does not show, and is out of TLC's reach.
* `FlowEditing` and `FlowLifecycle` share the two orders and the three reports.
  `FlowLifecycle` lets them overtake each other; `FlowEditing` takes orders and
  reports in the order of publication, and lets requests overlap instead.
* `EventBus` is what the event actions of all other modules rely on: delivered
  at least once, again after a crash or a lost connection (`TriggerCrash`,
  `OrchestratorCrashes`, the crashes of the flow modules).
* `Triggers` gives `FlowExecution` its execute events; `StepProcess` is the
  process behind the phases of a job in `FlowExecution`, which keeps of it that
  an input may be handed out again. What the two must agree on is `InputQueue`,
  which both are proved to implement.

### Abstractions to know

* Deletion of the queues of a flow, several calls, is one step in
  `FlowLifecycle`; users and credentials are deleted one by one.
* The flow's graph in an orchestrator is fixed; a change needs a stop.
* One handler per event and flow runs in a process at a time in `FlowLifecycle`.
* `startedBy` is always set; a flow is always started by the same user in
  `FlowLifecycle` (a start by a second one overwrites `startedBy`, so the token
  of the first stays), one user in `FlowEditing`.
* A component emits only while its input runs (emit is awaited); outputs that a
  component sends after the end of an input are not modelled.
* The `errors` counter, the per-step counters and the passing of secrets into an
  input are left out: nothing reads them to decide anything modelled.
* An output to a component that no longer exists is not told apart from other
  errors of its handler.
* `_executeStep` into a deleted exchange is modelled as a lost input; that it
  also creates a queue nobody deletes is not.
* External execution ids differ from event to event. `webhooks` takes the id
  from a header of the proxy, `scheduler` draws it at random.
* Snapshots end at the request to delete them; a snapshot still under way to
  the snapshots service is not modelled.
* An access token is not told apart from the refresh token it came with; the
  `expirationOffset` is part of the expiry.
* Storing a credential or a Kubernetes secret looks first whether there is one:
  one step in `FlowLifecycle` and `GlobalComponents`; the conflict is one of the
  failing calls.
* A body of the dispatcher names flows that are listed, and at most one
  application that has none yet.

## 3. Runs

`CHECK_DEADLOCK FALSE` everywhere: the system stops when users make no more
requests and everything has been handled, and the bounds stop it as well.

| Run | Shows | Bounds |
|---|---|---|
| `FlowLifecycle_safety` | `LaunchIsWired`, `StoppedMeansTornDown` with one replica | 1 replica, 2 nodes, 2 requests, 1 failure |
| `FlowLifecycle_recovery` | `StartedFlowsAreDeployed`, `StopsAreServed`, `LostAppsAreDestroyed` although calls fail and the replica crashes | 1 node, 2 requests, 1 failure, 1 crash |
| `FlowLifecycle_settling` | `Settles`: starts and stops of a flow that meet in any order leave nothing half way | 1 replica, 1 node, 3 requests, no failure |
| `FlowLifecycle_orphan` | finding | 1 flow, 1 crash |
| `FlowExecution_progress` | `SucceededIsExact`, `EvenMeansSettled`, `ExecutionsArePurged` | a fan of 3 steps, 3 jobs |
| `FlowExecution_faults` | `StartedIsExact`, `ExecutedOnce`, `InputsAreQueued`, `JobsAreServed` with a crash or a lost report and a stop | a line of 2 steps, 3 jobs, 1 fault |
| `FlowExecution_commands` | `ExecutionsStayWithTheirUser` with commands, rebounds and blocked inputs | 3 flows of 2 users, 3 jobs |
| `FlowExecution_early` | finding | a line of 2 steps, 2 jobs |
| `Platform_safety` | the safety properties of the nine parts of `MCPlatform` (table below) | below |
| `Platform_progress` | their liveness under fairness | as below, except `MaxMail` 2, no lost publishes, no callbacks, 1 secret; edits are start, stop, bulk and removal of the user; a start and a stop of the component, 1 event of it |
| `DataHub_merge` | finding | 2 objects, 3 requests |
| `GlobalComponents_restart` | finding | 2 requests, 3 events, no faults |

| Part | Safety | Liveness | Bounds in `Platform_safety` |
|---|---|---|---|
| bus | `OneConnection`, `StaleHandlersSettleNothing`, `DeliversAtLeastOnce` | `EventsAreHandled` | 2 events, 4 connections, 2 faults |
| step | `NothingIsCutOff`, `OwnFields` | `ShutdownEnds`, `InputsAreSettled` | 3 inputs, one without a token; prefetch 1 and 2; 2 signals, 2 processes |
| secret | `OneRefresher`, `TokenSurvives` | `RequestsAreAnswered` | 2 requests, 1 callback, 2 secrets, clock to 3, timeout and lifetime 1, 1 retry, 3 tokens, 1 fault |
| triggers | `QuietCopiesAreRight`, `SlotsAreNotSkipped` | `DueFlowsAreExecuted` | 2 flows, one of them running, limit 1, 3 events, 1 fault |
| hub | `RefsAreKept`, `OneObjectPerRecord` | | 2 objects, 2 applications, 3 requests of any kind |
| editing | `QuietFlowsAgree`, `LivesAreInOrder` | `OrphansAreStopped` | 1 flow, 3 requests of any of 7 kinds (a bulk update without a status is a patch), 1 lost publish |
| global | `RunningIsReachable` | `NeededComponentsRun` | a start and a restart, 1 flow, 2 events, 1 fault |
| dispatch | `ListedFlowsExist` | | 2 applications, 3 flows, 2 changes, 1 record, 1 fault |
| chunks | `AcceptedPiecesMeet` | | 1 identifier, 2 keys, 2 schemas, 2 pieces, 2 posts, 1 split, 2 chunks |

Why these bounds suffice.

* Flows share only the tick, which handles them independently, so one flow shows
  what happens to a flow. Two nodes let a start or a stop be half done; two
  requests are a start and a stop in every order and any overlap; one failure or
  crash at any step reaches every error path, and the code keeps no count of
  failures that a second one could push further. Three requests without a
  failure are a start, a stop and a start again, with their events in any order;
  a removal is part of each stop. Two replicas at work at a time have more
  states than a run of a few minutes can visit and are not checked;
  `FlowLifecycle_orphan` and the recovery run have two processes, one after the
  other.
* For executions a fan lets two next steps and the report of the first be
  counted in every order, three jobs let a step start after another has ended,
  and commands across three flows let an execution pass from a flow to one that
  is not its neighbour.
* Bus: two faults lose a connection while the retry of the first loss connects
  or subscribes, and let a stale handler meet the third connection.
* Step: two signals meet at both awaits of the shutdown, and with three inputs
  and a prefetch of 2 one is counted, one in preparation, one queued.
* Secret: a holder, a request that finds its lock old, and a callback beside
  them; three ticks of the clock make a lock old, taken over, and old again.
* Triggers: with limit 1 a second due flow waits, so that a tick which prefers
  late dates starves it; three events are start, report and stop.
* Three requests to the hub or the editor are two that overlap and one that
  meets what they left. Two changes of a configuration overlap or follow each
  other. Two posts of a record agree or differ in key and in schema, overlap or
  follow each other; a split adds the chunk that a post must refuse.
* A start and a stop of the component with one event on the bus put a start by
  the loop before, within and after an event, with a failure in any call.

Nothing that the models count has a threshold beyond these numbers, and the
proofs of section 6 remove the bounds for all safety properties. One behaviour
that they brought to light is beyond the bounds of a run: it takes five requests
to one object of the data hub (`rewound`, section 2).

## 4. Findings

Each is a run that ends in a counterexample.

* `FlowExecution_early` (`ComponentOrchestrator.js:302`): the step_state of an
  input is counted while the handler of its output is still at an await. The
  counters are equal for a moment, the snapshots of the execution are deleted,
  and then its next step starts.
* `FlowLifecycle_orphan` (`ComponentOrchestrator.js:111`): the replica that
  prepares a flow dies, the record names it for ever and no other replica goes
  on.
* `DataHub_merge` (`deduplicator.ts:23`): the cursor of a deduplication meets
  the enriched object itself, which equals itself and is deleted; the merged
  refs, which the documentation promises to keep, have no object to go to.
* `GlobalComponents_restart` (`GlobalRestartAll.js:55`): the restart publishes a
  start with the `_id` of the component alone; the orchestrator takes it for a
  component of a flow and throws, so what ran is stopped for good, while the
  repository says active.

Met while modelling, within the models as behaviours that the properties name as
their exceptions, and without a run of their own:

* `ComponentOrchestrator.js:100`, `:127`: handlers that work from an outdated
  list recreate queues and users of a deleted flow, or leave running apps
  without them; later ticks look at apps only (a start that overlaps a stop, or
  two replicas).
* `RabbitMqQueuesManager.js:147`, `:215`: a failure between a RabbitMQ user and
  its stored credential leaves a user that no stop deletes, although
  `README.md:35` of the orchestrator says that the user of a deleted flow is
  removed; or a credential without a user, with which the next start deploys a
  container that cannot log in (`cut`).
* `TokensDao.js:45`: an IAM token whose row could not be stored is deleted by
  nobody; the start goes on without noticing (`unrecorded`). A start by a second
  user overwrites `startedBy` (`FlowStarting.js`), so that the stop deletes the
  second one's token and leaves the first one's.
* `ComponentOrchestrator.js:402`: a command counts a success for its step and
  the step_state counts another one.
* `FlowStateDao.js:83`: a step of another flow that a command ordered meets a
  duplicate key for ever, and `upsertCount` calls itself each time.
* `secret.js:162`: the lock that is released may be younger than the one that
  was found old; two requests then refresh with one token (`stolen`).
* `routes/data/controller.ts:193` of the data hub: an enrichment writes back the
  version it read, so that a request which read the object in between no longer
  notices that it was changed (`rewound`).
* `flow.js:313`, `:371`: updates write the status they read; a deletion looks at
  a status that a start in between has changed (`disturbed`).
* `flow.js:221`: a bulk update whose body says inactive goes on after the 409 and
  is written over a running flow, which goes on running (`declared`).
* `controller.ts:314` of the data hub: a PUT without refs unsets those that were
  added since it read the object; `:360`, `:390`: a post of a record that another
  object has makes a second one, which the tests of the hub do (`namedRefs`).
* `flowCreator.js:331`: PATCH `/:id` deletes flows without a token, so none is
  deleted; `:330`: the `false` of flows that could not be made is written as the
  list of applications; `dispatches.js:131`: an edit drops the flows that its
  body leaves out, and nobody deletes them; `flowCreator.js:288` does not look at
  a refused deletion (`excused`).
* `helpers.js:101` of the integration layer: of two definitions only the domain
  is compared, though the answer says that the def must match (`:106`); pieces of
  different schemas are merged, and the last one decides whether the result is
  valid.
* `handlers.js:57`: a user's flow that is still starting is no orphan when the
  user is deleted, and nobody looks again.
* `ferryman.js:629`: an input without a readable token is never settled and
  takes a place of the prefetch for good; `:747`: a module that fails to load
  leaves its input in `messagesCount` (`leaked`).
* `SchedulePublisher.js:35`: a failed publish is not noticed, and the date is
  planned away.

## 5. Fairness

The liveness runs assume weak fairness of what the runtime schedules: promises
settle and their continuations run, timers fire, loops tick, RabbitMQ delivers a
message that is queued, Kubernetes replaces a dead process.

* `FlowLifecycle`, `FlowExecution`: the steps of handlers and loop. That a
  component ends every input it takes is an assumption on the component's own
  code: ferryman ends the input when the component's function returns or throws,
  and has no timeout for one that does neither. `ReceiveStep` is fair for the
  replicas together, not for each one: RabbitMQ gives an event to any of them.
* `BusFairness`: the transport goes on (`_retry` sets a timer after each
  failure), queued events are delivered to a consumer, handlers end.
* `StepFairness`: the shutdown goes on, a deployment starts its process again,
  some queued input is taken, an input proceeds.
* `SecretFairness`: the next step of each request, its timer included; the
  provider's answer is one, as `fetch` ends at last.
* `TriggerFairness`: handlers, and the loop of the scheduler.
* `EditFairness`: requests that have begun, and the serving of events.
* `GlobalFairness`: each call of an errand, the loop for each flow, delivery.

Users' requests, outputs, rebounds, stops, signals, failures and crashes are
never fair. Weak fairness is enough because no other step can disable these for
ever, save where a property names that exception.

## 6. Proofs

All theorems hold for any constants that satisfy the named assumptions of the
modules, so for any number of flows, steps, processes, jobs, events, inputs,
requests and faults.

**FlowLifecycle_proofs**

* `TypeCorrect`: types. Not inductive alone: that a handler creates a user, a
  secret or a deployment for *a node* needs that it has one in hand at those
  steps.
* `LaunchCorrect`, `TeardownCorrect`: the two safety properties when at most one
  replica is up at a time (`SingleReplica`), crashes and replacements included.
  The inductive invariant `SingleInv` says that at most one process is up
  (`OneUp`) and holds work (`OnlyTheLiveWork`), and ties each step of a handler
  to the resources that exist there (`HandlersHold`): from `credential` on the
  queues exist, at `deploy` the user does or was cut from its credential, and
  along the stop each resource stays gone once it was dropped. `Pairs` says that
  user and credential of an app exist together, except for those a failure
  parted and between the two steps of a handler at work; `Counted` that the
  tokens issued are the one with a row, the one in hand and those unrecorded. It
  is preserved because only the handler of that flow in that process touches
  them, which is what `isProcessingFlow` is for; with two replicas it is false.

**FlowExecution_proofs**

* `TypeCorrect`: with `IssuedOnly`, only issued jobs have a record, a phase and
  messages, and an event is delivered once per crash at most.
* `StartedCorrect`: `started` is exact in every behaviour, with any crashes,
  commands, rebounds and stops. Each action either adds *n* jobs to an execution
  and *n* to its counter, adds a rebounded copy and nothing, or touches neither.
* `SucceededCorrect`: `succeeded` is exact without crashes and commands, for any
  interleaving. The inductive invariant adds that a job whose report exists has
  reached its end, so no report is published twice, and that a report enters the
  counted stages only in the step that counts it.
* `EvenCorrect`: without crashes, commands and rebounds equal counters are seen
  only at an update where everything counted so far has reported. The two
  ledgers above make the counters the sizes of two finite sets, one inside the
  other; equal sizes make them equal.

* `OnceCorrect`: `OnceInv` says that an event with an external id that has made
  a job has made an execution, whose counter is not reset while jobs of it
  exist; a later delivery of the event therefore fails to create it.
* `UserCorrect`: `OwnOrders` says that a handler which has passed the check of
  `_handleMessage` orders only steps of flows of the user of the flow that sent
  the message. Neighbour by neighbour that is the user of the first flow.
* `InputsAreQueuedHolds`: the queue of every step implements `InputQueue`. Every
  action moves inputs of one step at most (`OneMoves`), and issuing jobs adds to
  the queues of their own steps only (`IssuesAt`); then one lemma per action says
  which step of `InputQueue` it is for the step concerned, a stutter for all
  others. The invariant it needs is `WaitsWired`: what is queued, or waits in the
  queue of rebounds, belongs to a flow that still has its queues. It failed at
  first because the model put a rebounded input back into the queue of a flow
  that had been stopped meanwhile; that queue is gone and the message with it
  (`Rebounded`).

The assumptions are needed: a crash makes a message count twice, a command
counts a success of its own, and a rebounded input reports twice and is counted
once. `EvenCorrect` is not `PurgedWhenOver`: that everything *counted* has
reported does not say that nothing more will be counted (`FlowExecution_early`).

**SecretRefresh_proofs**

* `SecretTypesHold`: types; a waiting request has attempts left.
* `OneRefresherHolds`: while no live lock was released by somebody else, at most
  one request refreshes a secret. `LockInv` says that a request which holds such
  a lock finds its secret locked, so no other can lock it, and that an id is
  never used again, so a deleted secret locks nobody out.
* `TokenSurvivesHolds`: the stored refresh token is one the provider accepts or
  its successor is on the way. `TokenInv` makes every token a single copy: it is
  in one document, or in one request that brings it, or in one callback; only
  the requests of one secret use it, and what is brought is valid. With
  `OneRefresher` a grant revokes exactly the token that its own save replaces.

**Processes_proofs**, of `EventBus` and `StepProcess`

* `BusTypesHold`, `OneConnectionHolds`: `BusInv` adds that an event is on a
  channel only while a consumer of that channel has it unsettled; a timer is set
  only where the link goes down, and used up before it can go down again.
* `StaleHandlersHold`: a settled event was on the channel of its handler, which
  by `BusInv` is a consumer's, hence the current one.
* `BusKeepsItsPromise`: `EventBus` implements `AtLeastOnce`: the initial states
  map to initial states and every step to a step or a stutter; needs that what
  is settled was handled and what was handled had been accepted.
* `StepTypesHold`: types; that `messagesCount` is never negative.
* `NothingIsCutOffHolds`: when a shutdown is decided no counted input is under
  way. `CountInv`: `messagesCount` never falls short of the inputs it counts (a
  failed load leaves it too high, which is the leak above and never cuts off).
* `OwnFieldsHolds`: with a prefetch of 1 the taken input is the only unsettled
  one, so the fields are its own.
* `InputsAreHandedOverHolds`: the queue of the component implements `InputQueue`,
  the specification that the steps of `FlowExecution` implement too: an input is
  handed to a live process, settled once, and comes back when the process dies.
  An input that is settled when its channel is closed already is a stutter, for
  it has come back before. Checked by TLC while it was written, and kept as a
  theorem without a run.

**GlobalComponents_proofs**

* `GlobalTypesHold`: types; needs that there are more passwords than places that
  hold one, so that a fresh one is always found.
* `RunningIsReachableHolds`: `Sound` says that a stored credential is that of the
  user there is, and that a deployed component has queue, user and the password
  in its secret. A crash in the middle of a stop breaks it: `InOrder` says that
  then the first event that is not settled is a stop (`StopDue`), which is
  handled before any other event, and cleans up whatever the loop has started
  meanwhile. `StartFacts` and `StopFacts` say what an errand has done by each
  step.

**Triggers_proofs**

* `TriggerTypesHold`: types; what is due is due once.
* `QuietCopiesAreRightHolds`: a service whose handlers of a flow did not overlap
  has a copy of exactly the flows that are its own and run. `MailTellsLives`: the
  last event of a flow under way is its life, and each event is one that may
  follow the one before. `HandledInOrder`: of a flow without overlaps events are
  handled in order, a handler has in hand what is stored, and the first event
  that is not settled finds the copy the one before it has left; when none is
  left, `CopyIsLife`. A crash delivers an event again, which the invariant
  allows: each handler, done twice, does what it does once.
* `SlotsAreNotSkippedHolds`: `DueInHand` says that a flow the loop has in hand is
  overdue and that nobody handles an event of it, and was executed if the loop is
  about to plan its next run.

**Documents_proofs**

Four components read a document, and write it after an await. What holds between
their documents is an invariant of those that no two requests have crossed; each
proof says what the one request at work knows, and that a step which crosses it
is remembered by a history variable.

* `ChunkTypesHold`, `AcceptedPiecesMeetHold` (Chunks): what a request has found
  stays a chunk of its record, with the key it has. `CidInv` says of a record of
  which no two requests overlapped and no chunk expired: either nothing was
  accepted and nothing stored, or all that was accepted is in one chunk; and the
  one request at work has read what is stored.
* `DispatchTypesHold`, `ListedFlowsExistHolds` (Dispatch): between changes that do
  not overlap every listed flow exists, and every flow is listed or one of those
  the code loses. The invariant follows the one change at work: the flow it has
  made is not listed yet, those it still has to delete not any more, two
  applications never share a flow, and a flow that a failed call, a dropped
  application or a spoilt list leaves behind is excused in that step.
* `HubTypesHold`, `OneObjectPerRecordHolds`, `RefsAreKeptHolds` (DataHub). That
  a record has one object is not inductive: a removal or an enrichment writes
  back the refs it read, which another object may hold by then. `HubInv`
  therefore says, of a ref that no two requests about it crossed and that was
  neither put into an object by id nor posted while another object had it: who
  has found no object is alone with the ref, and the requests that carry it will
  write it to the one object that holds it (`MissingAlone`, `CarriersHold`,
  `CarriersAgree`). `VersionsTell`: unless an enrichment has set an object back,
  equal versions mean that no ref was added since; a PUT without refs may have
  unset some. It was in this proof that `RefsAreKept`, as it was first stated,
  turned out to be false: see `rewound` in section 2.
* `EditTypesHold`, `QuietFlowsAgreeHolds` (FlowEditing): when nothing is under
  way for a flow, the orchestrators run it as its document says. `EditInv`: for
  a flow with no overlaps one request is under way, or else one event (`Alone`);
  a request that has read the flow has the stored document in hand, one that is
  about to publish has written the status (`RequestTells`); and an event tells
  status, graph and what the orchestrators run (`EventTells`), so that the
  report that ends it makes them agree again (`QuietTells`). A flow that a bulk
  update declared inactive runs on until the next start or stop is through. The
  removal of a user is about every flow, and stays under way for the flows whose
  stops it has still to publish, while the events of the others go on.
* `LivesAreInOrderHolds` (FlowEditing): each flow implements `FlowLife`, up to
  the step in which two requests or events about it overlap (`disturbed`): one
  lemma per action for the flow it is about (`LifeCreate` and its like), and
  `LifeStays` for all other flows. It needs three more parts of `EditInv`:
  nobody is about to report the start of a flow whose document says inactive; a
  flow that is being stopped while its document says active has lost its owner;
  and the removal of a user takes for orphans only flows that nobody owns.

**MCPlatform_proofs**

* `PlatformTypesHold`, `PlatformIsSafe`: `TypeOK` and the safety properties of the
  nine parts, of the specification that the `Platform` runs check. A step of the
  platform is a step of one part, so the behaviour of each part is one of its own
  specification (`PartsBehave`), and the theorems of the parts carry over, for
  all constants that the parts allow.

Every safety property that a run checks is proved, three of them as refinements:
`AtLeastOnce` by the bus, `InputQueue` by the queues of steps and component,
`FlowLife` by the documents of the flows. The invariants were checked by TLC on
small instances before they were proved.

Model-checked only: the liveness properties (proofs under fairness are out of
the prover's reach). Checked by runs that end in a counterexample: the four
findings.

## 7. Not modelled, and why

* **Requests on single documents**: identity and access management (around a
  third-party OpenID provider), meta data and template repositories, app
  directory, audit log, raw data storage, the CRUD routes of the modelled
  services. One write per request, no second actor that reads what they hold
  half way.
* **Pure functions**: iam-utils (permission checks), cfm (a rule evaluator that
  depends on functions supplied by its user), governance (evaluates stored
  functions; that a policy may block an input is in the models), the pure
  enrichment functions of the data hub, transformations.
* **Forwarding and statistics**: reports, analytics (periodic, approximate by
  design), attachment storage, backend commons (what it promises about queues
  and prefetch is in the models).
* **Web interface**: a browser client and by far the largest part of the
  repository's code; its requests are those the services' models make. Together
  with load-test data, test helpers and the parts above it is why the share of
  the implementation's lines that the models stand for is small.
* **Snapshots**: an upsert per snapshot and deletes by query, which
  `FlowExecution` represents by the request to delete. A snapshot stored after
  the deletion of its execution (`SnapshotsDao.js:43`) stays; nothing promises
  otherwise.
* **Secret service, authorization flows and keys**: redirects, key derivation and
  encryption are calls to providers and the crypto library.
* **Webhooks, requests**: one read of the copy and one publish.
* **Out of reach**: induction over data and liveness by proof; the product of
  `FlowLifecycle` and `FlowExecution` by model checking.

## 8. What could come next

* `FlowLife` implemented by `FlowLifecycle` too. Its orders and reports may
  overtake each other, so the mapping needs a history variable.
* A model of the snapshots service composed with the purge of `FlowExecution`.
