------------------------ MODULE FlowExecution_proofs ------------------------
(***************************************************************************)
(* Proofs about FlowExecution for any graph, any events and any bounds:    *)
(* the type invariant, the exactness of the counter started whatever       *)
(* fails, the exactness of succeeded and the meaning of equal counters in  *)
(* the absence of crashes, commands and rebounds; that an event with an    *)
(* external id makes one job, and that an execution stays with its user.   *)
(***************************************************************************)
EXTENDS FlowExecution, FiniteSetTheorems, TLAPS

USE DEF vars, triggerVars, flowVars, jobVars, stateVars, messageVars

(* What the types of the counters and of the progress of messages need:     *)
(* only issued jobs have a phase, a record and messages.                    *)
IssuedOnly ==
    /\ \A j \in Jobs : j <= issued => job[j] \in Job
    /\ \A j \in Jobs : phase[j] # "none" => j <= issued
    /\ \A m \in Messages : message[m] # "none" => m[1] <= issued
    /\ \A t \in Triggers : delivery[t] <= faults + 1

TypeInv == TypeOK /\ IssuedOnly

(* Messages as pairs of a job and a number.                                 *)
LEMMA MessageParts ==
    /\ \A m \in Messages : m[1] \in Jobs /\ m = <<m[1], m[2]>>
    /\ \A j \in Jobs : Report(j) \in Messages /\ Report(j)[1] = j /\ IsReport(Report(j))
    /\ \A m \in Messages : IsReport(m) => m = Report(m[1])
    /\ \A j \in Jobs, k \in 1 .. MaxOutputs :
          <<j, k>> \in Messages /\ <<j, k>>[1] = j /\ ~IsReport(<<j, k>>)
  BY LimitAssumption DEF Messages, Report, IsReport

LEMMA JobsAreNat == Jobs \subseteq Nat /\ \A j \in Jobs : 1 <= j /\ j <= MaxJobs
  BY LimitAssumption DEF Jobs

(* The set of steps a message orders is finite, so is its size a number.    *)
LEMMA OrderedTypes ==
    ASSUME TypeInv, NEW m \in Messages, message[m] # "none"
    PROVE  /\ job[m[1]] \in Job /\ ExecOf(m) \in Execs /\ StepOf(m) \in Steps
           /\ Ordered(m) \in SUBSET Steps
           /\ IsFiniteSet(Ordered(m)) /\ Cardinality(Ordered(m)) \in Nat
<1>1. job[m[1]] \in Job
  BY MessageParts DEF TypeInv, IssuedOnly
<1>2. ExecOf(m) \in Execs /\ StepOf(m) \in Steps
  BY <1>1 DEF Job, ExecOf, StepOf
<1>3. order[m] \in {Plain} \cup SUBSET Steps
  BY DEF TypeInv, TypeOK
<1>4. Ordered(m) \in SUBSET Steps
  BY <1>2, <1>3, GraphAssumption DEF Ordered
<1>5. IsFiniteSet(Ordered(m))
  BY <1>4, FS_Subset, GraphAssumption
<1>6. Cardinality(Ordered(m)) \in Nat
  BY <1>5, FS_CardinalityType
<1> QED
  BY <1>1, <1>2, <1>4, <1>5, <1>6

(* Fresh jobs are the next ones.                                            *)
LEMMA FreshJobs ==
    ASSUME TypeInv, NEW n \in Nat, issued + n <= MaxJobs
    PROVE  /\ Fresh(n) \in SUBSET Jobs
           /\ IsFiniteSet(Fresh(n)) /\ Cardinality(Fresh(n)) = n
           /\ \A j \in Jobs : j \in Fresh(n) <=> (j > issued /\ j <= issued + n)
<1>1. issued \in Nat
  BY LimitAssumption DEF TypeInv, TypeOK
<1>2. Fresh(n) \in SUBSET Jobs
  <2> SUFFICES ASSUME NEW j \in Fresh(n) PROVE j \in Jobs
    OBVIOUS
  <2>1. j \in Int /\ issued + 1 <= j /\ j <= issued + n
    BY <1>1 DEF Fresh
  <2> QED
    BY <1>1, <2>1, LimitAssumption DEF Jobs
<1>3. IsFiniteSet(Fresh(n)) /\ Cardinality(Fresh(n)) = n
  <2>1. issued + 1 \in Int /\ issued + n \in Int
    BY <1>1
  <2>2. /\ IsFiniteSet((issued + 1) .. (issued + n))
        /\ Cardinality((issued + 1) .. (issued + n)) =
              IF issued + 1 > issued + n THEN 0 ELSE (issued + n) - (issued + 1) + 1
    BY <2>1, FS_Interval
  <2> QED
    BY <1>1, <2>2 DEF Fresh
<1>4. \A j \in Jobs : j \in Fresh(n) <=> (j > issued /\ j <= issued + n)
  <2> TAKE j \in Jobs
  <2>1. j \in Nat
    BY JobsAreNat
  <2> QED
    BY <1>1, <2>1 DEF Fresh
<1> QED
  BY <1>2, <1>3, <1>4

LEMMA InitTypes == Init => TypeInv
<1> SUFFICES ASSUME Init PROVE TypeInv
  OBVIOUS
<1>1. issued = 0 /\ faults = 0
  BY DEF Init
<1>2. TypeOK
  <2>1. /\ trigger \in [Triggers -> {"none", "waiting", "found", "created", "done", "dropped"}]
        /\ records \subseteq Flows /\ wired \subseteq Flows
        /\ started \in [Execs -> Nat] /\ succeeded \in [Execs -> Nat]
        /\ purging \subseteq Execs
        /\ job \in [Jobs -> Job \cup {NoJob}]
        /\ phase \in [Jobs -> Phases]
        /\ message \in [Messages -> Stages]
        /\ order \in [Messages -> {Plain} \cup SUBSET Steps]
    BY DEF Init, Phases, Stages
  <2>2. delivery \in [Triggers -> 1 .. MaxFaults + 1]
    <3>1. 1 \in 1 .. MaxFaults + 1
      BY LimitAssumption
    <3> QED
      BY <3>1 DEF Init
  <2>3. issued \in 0 .. MaxJobs /\ faults \in 0 .. MaxFaults
    BY <1>1, LimitAssumption
  <2> QED
    BY <2>1, <2>2, <2>3 DEF TypeOK
<1>3. IssuedOnly
  <2>1. \A j \in Jobs : ~(j <= 0)
    BY JobsAreNat
  <2> QED
    BY <1>1, <2>1 DEF Init, IssuedOnly
<1> QED
  BY <1>2, <1>3 DEF TypeInv

(* A step that only moves phases, of jobs that are issued.                  *)
LEMMA PhaseStepTypes ==
    ASSUME TypeInv, phase' \in [Jobs -> Phases],
           \A j \in Jobs : phase'[j] # "none" => phase[j] # "none",
           UNCHANGED <<delivery, records, issued, job, message, order, started, succeeded>>,
           wired' \subseteq Flows, purging' = purging, trigger' = trigger,
           faults' \in 0 .. MaxFaults, faults' >= faults
    PROVE  TypeInv'
<1>1. TypeOK'
  BY DEF TypeInv, TypeOK
<1>2. IssuedOnly'
  <2>1. \A j \in Jobs : phase'[j] # "none" => j <= issued
    BY DEF TypeInv, IssuedOnly
  <2>2. \A t \in Triggers : delivery[t] <= faults' + 1
    <3> TAKE t \in Triggers
    <3>1. delivery[t] \in Nat /\ faults \in Nat /\ faults' \in Nat
      BY LimitAssumption DEF TypeInv, TypeOK
    <3>2. delivery[t] <= faults + 1
      BY DEF TypeInv, IssuedOnly
    <3> QED
      BY <3>1, <3>2
  <2> QED
    BY <2>1, <2>2 DEF TypeInv, IssuedOnly
<1> QED
  BY <1>1, <1>2 DEF TypeInv

LEMMA DeliveredType == ASSUME NEW j \in Jobs PROVE Delivered(j) \in Phases \ {"none"}
  BY DEF Delivered, Phases

LEMMA PhaseActionsTypes ==
    ASSUME TypeInv, NEW j \in Jobs,
           ExecuteStep(j) \/ TakeJob(j) \/ ReboundReturns(j) \/ End(j) \/ DropInput(j)
           \/ PublishGivesUp(j)
    PROVE  TypeInv'
<1>1. PICK p \in Phases : phase[j] # "none" /\ phase' = [phase EXCEPT ![j] = p]
  BY DeliveredType DEF ExecuteStep, TakeJob, ReboundReturns, End, DropInput, PublishGivesUp, Phases
<1>2. /\ UNCHANGED <<delivery, records, issued, job, message, order, started, succeeded>>
      /\ wired' = wired /\ purging' = purging /\ trigger' = trigger
  BY DEF ExecuteStep, TakeJob, ReboundReturns, End, DropInput, PublishGivesUp
<1>3. faults' = faults \/ (faults < MaxFaults /\ faults' = faults + 1)
  BY DEF ExecuteStep, TakeJob, ReboundReturns, End, DropInput, PublishGivesUp
<1>4. faults \in 0 .. MaxFaults /\ phase \in [Jobs -> Phases] /\ wired \subseteq Flows
  BY DEF TypeInv, TypeOK
<1>5. faults' \in 0 .. MaxFaults /\ faults' >= faults
  BY <1>3, <1>4, LimitAssumption
<1>6. phase' \in [Jobs -> Phases] /\ \A i \in Jobs : phase'[i] # "none" => phase[i] # "none"
  BY <1>1, <1>4
<1> QED
  BY <1>2, <1>4, <1>5, <1>6, PhaseStepTypes

LEMMA CrashTypes ==
    ASSUME TypeInv, NEW s \in Steps, ComponentCrash(s)
    PROVE  TypeInv'
<1>1. /\ UNCHANGED <<delivery, records, issued, job, message, order, started, succeeded>>
      /\ wired' = wired /\ purging' = purging /\ trigger' = trigger
      /\ faults < MaxFaults /\ faults' = faults + 1
  BY DEF ComponentCrash
<1>2. faults \in 0 .. MaxFaults /\ phase \in [Jobs -> Phases] /\ wired \subseteq Flows
  BY DEF TypeInv, TypeOK
<1>3. faults' \in 0 .. MaxFaults /\ faults' >= faults
  BY <1>1, <1>2, LimitAssumption
<1>4. \A j \in Jobs : Interrupted(j) \in Phases /\ (Interrupted(j) # "none" => phase[j] # "none")
  BY <1>2, DeliveredType DEF Interrupted, Phases
<1>5. phase' = [j \in Jobs |-> IF j <= issued /\ job[j].step = s THEN Interrupted(j) ELSE phase[j]]
  BY DEF ComponentCrash
<1>6. phase' \in [Jobs -> Phases] /\ \A i \in Jobs : phase'[i] # "none" => phase[i] # "none"
  BY <1>2, <1>4, <1>5
<1> QED
  BY <1>1, <1>2, <1>3, <1>6, PhaseStepTypes

LEMMA StopTypes ==
    ASSUME TypeInv, NEW f \in Flows, DeleteQueues(f) \/ ForgetFlow(f)
    PROVE  TypeInv'
<1>1. phase \in [Jobs -> Phases] /\ wired \subseteq Flows /\ faults \in 0 .. MaxFaults
  BY DEF TypeInv, TypeOK
<1>2. CASE DeleteQueues(f)
  <2>1. /\ UNCHANGED <<delivery, records, issued, job, message, order, started, succeeded>>
        /\ wired' \subseteq Flows /\ purging' = purging /\ trigger' = trigger /\ faults' = faults
    BY <1>1, <1>2 DEF DeleteQueues
  <2>2. phase' \in [Jobs -> Phases] /\ \A i \in Jobs : phase'[i] # "none" => phase[i] # "none"
    BY <1>1, <1>2 DEF DeleteQueues, Phases
  <2>3. faults' >= faults
    BY <1>1, <2>1, LimitAssumption
  <2> QED
    BY <1>1, <2>1, <2>2, <2>3, PhaseStepTypes
<1>3. CASE ForgetFlow(f)
  BY <1>3 DEF ForgetFlow, TypeInv, TypeOK, IssuedOnly
<1> QED
  BY <1>2, <1>3

(* Steps of the execute event that create nothing.                          *)
LEMMA TriggerTypes ==
    ASSUME TypeInv, NEW t \in Triggers,
           Publish(t) \/ FindFlow(t) \/ CreateFails(t) \/ AckTrigger(t)
    PROVE  TypeInv'
<1>1. /\ trigger' \in [Triggers -> {"none", "waiting", "found", "created", "done", "dropped"}]
      /\ UNCHANGED <<delivery, flowVars, stateVars, purging, jobVars, messageVars, faults>>
  BY DEF TypeInv, TypeOK, Publish, FindFlow, CreateFails, AckTrigger
<1> QED
  BY <1>1 DEF TypeInv, TypeOK, IssuedOnly

(* A new message of an issued job.                                          *)
LEMMA SendTypes ==
    ASSUME TypeInv, NEW j \in Jobs,
           SendFunctionComplete(j) \/ \E k \in 1 .. MaxOutputs : EmitData(j, k)
    PROVE  TypeInv'
<1>1. j <= issued
  BY DEF TypeInv, IssuedOnly, SendFunctionComplete, EmitData
<1>2. CASE SendFunctionComplete(j)
  <2>1. Report(j) \in Messages /\ Report(j)[1] = j
    BY MessageParts
  <2> HIDE DEF Report, Messages
  <2>2. /\ phase' \in [Jobs -> Phases] /\ message' \in [Messages -> Stages]
        /\ \A m \in Messages : message'[m] # "none" => message[m] # "none" \/ m = Report(j)
        /\ \A i \in Jobs : phase'[i] # "none" => phase[i] # "none"
        /\ UNCHANGED <<trigger, delivery, flowVars, stateVars, purging, issued, job, order, faults>>
    BY <1>2, <2>1 DEF SendFunctionComplete, TypeInv, TypeOK, Phases, Stages
  <2>3. TypeOK'
    BY <2>2 DEF TypeInv, TypeOK
  <2>4. IssuedOnly'
    BY <1>1, <2>1, <2>2 DEF TypeInv, IssuedOnly
  <2> QED
    BY <2>3, <2>4 DEF TypeInv
<1>3. ASSUME NEW k \in 1 .. MaxOutputs, EmitData(j, k) PROVE TypeInv'
  <2> DEFINE n == <<j, k>>
  <2>1. n \in Messages /\ n[1] = j
    BY MessageParts
  <2>2. PICK o \in {Plain} \cup SUBSET Steps : order' = [order EXCEPT ![n] = o]
    BY <1>3 DEF EmitData
  <2>3. /\ message' = [message EXCEPT ![n] = "waiting"]
        /\ UNCHANGED <<triggerVars, flowVars, stateVars, purging, jobVars, faults>>
    BY <1>3 DEF EmitData
  <2> HIDE DEF n, Messages
  <2>4. /\ message' \in [Messages -> Stages]
        /\ order' \in [Messages -> {Plain} \cup SUBSET Steps]
        /\ \A m \in Messages : message'[m] # "none" => message[m] # "none" \/ m = n
    BY <2>1, <2>2, <2>3 DEF TypeInv, TypeOK, Stages
  <2>5. TypeOK'
    BY <2>3, <2>4 DEF TypeInv, TypeOK
  <2>6. IssuedOnly'
    BY <1>1, <2>1, <2>3, <2>4 DEF TypeInv, IssuedOnly
  <2> QED
    BY <2>5, <2>6 DEF TypeInv
<1> QED
  BY <1>2, <1>3

(* Steps of a message handler that count nothing.                           *)
LEMMA HandlerTypes ==
    ASSUME TypeInv, NEW m \in Messages,
           HandleMessage(m) \/ DuplicateKey(m) \/ FinishMessage(m)
    PROVE  TypeInv'
<1> HIDE DEF Messages
<1>1. message[m] # "none"
  BY DEF HandleMessage, DuplicateKey, FinishMessage
<1>2. PICK p \in Stages : message' = [message EXCEPT ![m] = p]
  BY DEF HandleMessage, DuplicateKey, FinishMessage, Stages
<1>3. purging' \subseteq Execs
  <2>1. ExecOf(m) \in Execs
    BY <1>1, OrderedTypes
  <2> QED
    BY <2>1 DEF HandleMessage, DuplicateKey, FinishMessage, TypeInv, TypeOK
<1>4. UNCHANGED <<triggerVars, flowVars, stateVars, jobVars, order, faults>>
  BY DEF HandleMessage, DuplicateKey, FinishMessage
<1>5. /\ message' \in [Messages -> Stages]
      /\ \A n \in Messages : message'[n] # "none" => message[n] # "none"
  BY <1>1, <1>2 DEF TypeInv, TypeOK
<1>6. TypeOK'
  BY <1>3, <1>4, <1>5 DEF TypeInv, TypeOK
<1>7. IssuedOnly'
  BY <1>4, <1>5 DEF TypeInv, IssuedOnly
<1> QED
  BY <1>6, <1>7 DEF TypeInv

LEMMA PurgeTypes ==
    ASSUME TypeInv, NEW e \in Execs, PurgeSnapshots(e)
    PROVE  TypeInv'
  BY DEF TypeInv, TypeOK, IssuedOnly, PurgeSnapshots

LEMMA OrchestratorCrashTypes == TypeInv /\ OrchestratorCrash => TypeInv'
<1> SUFFICES ASSUME TypeInv, OrchestratorCrash PROVE TypeInv'
  OBVIOUS
<1> HIDE DEF Messages
<1>1. /\ UNCHANGED <<records, wired, started, succeeded, issued, job, order>>
      /\ faults < MaxFaults /\ faults' = faults + 1 /\ purging' = {}
  BY DEF OrchestratorCrash
<1>2. faults \in 0 .. MaxFaults
  BY DEF TypeInv, TypeOK
<1>3. faults' \in 0 .. MaxFaults
  BY <1>1, <1>2, LimitAssumption
<1>4. /\ delivery' \in [Triggers -> 1 .. MaxFaults + 1]
      /\ \A t \in Triggers : delivery'[t] <= faults' + 1
  <2>1. \A t \in Triggers : delivery[t] \in 1 .. MaxFaults + 1 /\ delivery[t] <= faults + 1
    BY DEF TypeInv, TypeOK, IssuedOnly
  <2>2. \A t \in Triggers : /\ delivery[t] + 1 \in 1 .. MaxFaults + 1
                            /\ delivery[t] <= faults' + 1 /\ delivery[t] + 1 <= faults' + 1
    BY <1>1, <1>2, <2>1, LimitAssumption
  <2>3. delivery' = [t \in Triggers |->
                        IF trigger[t] = "created" THEN delivery[t] + 1 ELSE delivery[t]]
    BY DEF OrchestratorCrash
  <2> QED
    BY <2>1, <2>2, <2>3
<1>5. trigger' \in [Triggers -> {"none", "waiting", "found", "created", "done", "dropped"}]
  BY DEF OrchestratorCrash, TypeInv, TypeOK
<1>6. /\ message' \in [Messages -> Stages]
      /\ \A m \in Messages : message'[m] # "none" => message[m] # "none"
  BY DEF OrchestratorCrash, TypeInv, TypeOK, Stages
<1>7. /\ phase' \in [Jobs -> Phases]
      /\ \A j \in Jobs : phase'[j] # "none" => phase[j] # "none"
  BY DEF OrchestratorCrash, TypeInv, TypeOK, Phases
<1>8. TypeOK'
  BY <1>1, <1>3, <1>4, <1>5, <1>6, <1>7 DEF TypeInv, TypeOK
<1>9. IssuedOnly'
  BY <1>1, <1>4, <1>6, <1>7 DEF TypeInv, IssuedOnly
<1> QED
  BY <1>8, <1>9 DEF TypeInv
(* Issuing n fresh jobs.                                                    *)
LEMMA IssueTypes ==
    ASSUME TypeInv, NEW n \in Nat, issued + n <= MaxJobs,
           NEW new \in [Fresh(n) -> Job], NEW p \in Phases \ {"none"}, Issue(new, p)
    PROVE  /\ issued' = issued + n /\ issued' \in 0 .. MaxJobs
           /\ job' \in [Jobs -> Job \cup {NoJob}] /\ phase' \in [Jobs -> Phases]
           /\ \A j \in Jobs : j <= issued' => job'[j] \in Job
           /\ \A j \in Jobs : phase'[j] # "none" => j <= issued'
           /\ \A j \in Jobs : job'[j] = IF j \in Fresh(n) THEN new[j] ELSE job[j]
           /\ \A j \in Jobs : j <= issued => j <= issued'
<1>1. issued \in Nat /\ issued <= MaxJobs
  BY LimitAssumption DEF TypeInv, TypeOK
<1>2. DOMAIN new = Fresh(n)
  OBVIOUS
<1>3. Fresh(n) \in SUBSET Jobs /\ Cardinality(Fresh(n)) = n
  BY FreshJobs
<1>4. \A j \in Jobs : j \in Fresh(n) <=> (j > issued /\ j <= issued + n)
  BY FreshJobs
<1> HIDE DEF Fresh, Jobs
<1>5. issued' = issued + n
  BY <1>2, <1>3 DEF Issue
<1>6. issued' \in 0 .. MaxJobs
  BY <1>1, <1>5, LimitAssumption
<1>7. /\ job' = [j \in Jobs |-> IF j \in Fresh(n) THEN new[j] ELSE job[j]]
      /\ phase' = [j \in Jobs |-> IF j \in Fresh(n) THEN p ELSE phase[j]]
  BY <1>2 DEF Issue
<1>8. job' \in [Jobs -> Job \cup {NoJob}] /\ phase' \in [Jobs -> Phases]
  BY <1>7 DEF TypeInv, TypeOK
<1>9. \A j \in Jobs : j \in Nat
  BY JobsAreNat
<1>10. \A j \in Jobs : j <= issued' => j <= issued \/ j \in Fresh(n)
  BY <1>1, <1>4, <1>5, <1>9
<1>11. \A j \in Jobs : j <= issued => j <= issued'
  BY <1>1, <1>5, <1>9
<1>12. \A j \in Jobs : j <= issued' => job'[j] \in Job
  BY <1>7, <1>10 DEF TypeInv, IssuedOnly
<1>13. \A j \in Jobs : j \in Fresh(n) => j <= issued'
  BY <1>4, <1>5
<1>14. \A j \in Jobs : phase'[j] # "none" => j <= issued'
  BY <1>7, <1>11, <1>13 DEF TypeInv, IssuedOnly
<1> QED
  BY <1>5, <1>6, <1>7, <1>8, <1>11, <1>12, <1>14

(* A step that issues jobs and changes counters and handlers besides.       *)
LEMMA IssueStepTypes ==
    ASSUME TypeInv, NEW n \in Nat, issued + n <= MaxJobs,
           NEW new \in [Fresh(n) -> Job], NEW p \in Phases \ {"none"}, Issue(new, p),
           trigger' \in [Triggers -> {"none", "waiting", "found", "created", "done", "dropped"}],
           started' \in [Execs -> Nat], succeeded' \in [Execs -> Nat],
           message' \in [Messages -> Stages],
           \A m \in Messages : message'[m] # "none" => message[m] # "none",
           UNCHANGED <<delivery, flowVars, purging, order, faults>>
    PROVE  TypeInv'
<1>1. /\ issued' \in 0 .. MaxJobs
      /\ job' \in [Jobs -> Job \cup {NoJob}] /\ phase' \in [Jobs -> Phases]
      /\ \A j \in Jobs : j <= issued' => job'[j] \in Job
      /\ \A j \in Jobs : phase'[j] # "none" => j <= issued'
      /\ \A j \in Jobs : j <= issued => j <= issued'
  BY IssueTypes
<1>2. TypeOK'
  BY <1>1 DEF TypeInv, TypeOK
<1>3. \A m \in Messages : message'[m] # "none" => m[1] <= issued'
  BY <1>1, MessageParts DEF TypeInv, IssuedOnly
<1>4. IssuedOnly'
  BY <1>1, <1>3 DEF TypeInv, IssuedOnly
<1> QED
  BY <1>2, <1>4 DEF TypeInv

(* The parts of the three actions that issue jobs.                          *)
LEMMA CreateParts ==
    ASSUME TypeInv, NEW t \in Triggers, CreateExecution(t)
    PROVE  /\ ExecId(t) \in Execs
           /\ \E new \in [Fresh(1) -> Job] :
                 /\ \A j \in Fresh(1) : new[j].exec = ExecId(t) /\ new[j].rebound = 0
                 /\ Issue(new, "owed")
           /\ issued + 1 <= MaxJobs
<1>1. ExecId(t) \in Execs
  <2>1. delivery[t] \in 1 .. MaxFaults + 1 /\ 1 \in 1 .. MaxFaults + 1
    BY LimitAssumption DEF TypeInv, TypeOK
  <2> QED
    BY <2>1 DEF ExecId, Execs
<1>2. 0 \in 0 .. ReboundLimit
  BY LimitAssumption
<1>3. First[TriggerFlow[t]] \in Steps
  BY GraphAssumption
<1> DEFINE r == [exec |-> ExecId(t), step |-> First[TriggerFlow[t]], by |-> t, rebound |-> 0]
<1>4. r \in Job
  BY <1>1, <1>2, <1>3 DEF Job
<1>5. r.exec = ExecId(t) /\ r.rebound = 0
  OBVIOUS
<1>6. Issue([j \in Fresh(1) |-> r], "owed")
  BY DEF CreateExecution
<1> HIDE DEF r
<1>7. [j \in Fresh(1) |-> r] \in [Fresh(1) -> Job]
  BY <1>4
<1>8. issued + 1 <= MaxJobs
  BY LimitAssumption DEF CreateExecution, TypeInv, TypeOK
<1> QED
  BY <1>1, <1>5, <1>6, <1>7, <1>8

LEMMA ReboundParts ==
    ASSUME TypeInv, NEW j \in Jobs, Rebound(j)
    PROVE  /\ \E new \in [Fresh(1) -> Job] :
                 /\ \A i \in Fresh(1) : new[i].rebound # 0
                 /\ Issue(new, Rebounded(j))
           /\ issued + 1 <= MaxJobs
<1>1. job[j] \in Job
  BY DEF Rebound, TypeInv, IssuedOnly
<1>2. job[j].exec \in Execs /\ job[j].step \in Steps /\ job[j].rebound \in 0 .. ReboundLimit
  BY <1>1 DEF Job
<1>3. job[j].rebound + 1 \in 0 .. ReboundLimit /\ job[j].rebound + 1 # 0
  BY <1>2, LimitAssumption DEF Rebound
<1>4. Report(j) \in Messages
  BY MessageParts
<1> DEFINE r == [exec |-> job[j].exec, step |-> job[j].step, by |-> Report(j),
                 rebound |-> job[j].rebound + 1]
<1>5. r \in Job
  BY <1>2, <1>3, <1>4 DEF Job
<1>6. r.rebound # 0
  BY <1>3
<1>7. Issue([i \in Fresh(1) |-> r], Rebounded(j))
  BY DEF Rebound
<1> HIDE DEF r
<1>8. [i \in Fresh(1) |-> r] \in [Fresh(1) -> Job]
  BY <1>5
<1>9. issued + 1 <= MaxJobs
  BY LimitAssumption DEF Rebound, TypeInv, TypeOK
<1> QED
  BY <1>6, <1>7, <1>8, <1>9

LEMMA UpsertParts ==
    ASSUME TypeInv, NEW m \in Messages, UpsertCount(m)
    PROVE  /\ ExecOf(m) \in Execs
           /\ Cardinality(Ordered(m)) \in Nat /\ issued + Cardinality(Ordered(m)) <= MaxJobs
           /\ \E new \in [Fresh(Cardinality(Ordered(m))) -> Job] :
                 /\ \A j \in Fresh(Cardinality(Ordered(m))) :
                       new[j].exec = ExecOf(m) /\ new[j].rebound = 0
                 /\ Issue(new, "owed")
           /\ message[m] \in {"found", "retrying"}
           /\ started' = [started EXCEPT ![ExecOf(m)] = @ + Cardinality(Ordered(m))]
           /\ succeeded' = [succeeded EXCEPT ![ExecOf(m)] = @ + IF Succeeds(m) THEN 1 ELSE 0]
<1>1. message[m] \in {"found", "retrying"} /\ issued + Cardinality(Ordered(m)) <= MaxJobs
  BY DEF UpsertCount
<1>2. /\ ExecOf(m) \in Execs /\ Ordered(m) \in SUBSET Steps
      /\ Cardinality(Ordered(m)) \in Nat
  BY <1>1, OrderedTypes
<1> DEFINE F == Fresh(Cardinality(Ordered(m)))
<1>3. PICK a \in [F -> Ordered(m)] :
         Issue([j \in F |-> [exec |-> ExecOf(m), step |-> a[j], by |-> m, rebound |-> 0]], "owed")
  BY DEF UpsertCount
<1> HIDE DEF F
<1> DEFINE new == [j \in F |-> [exec |-> ExecOf(m), step |-> a[j], by |-> m, rebound |-> 0]]
<1>4. 0 \in 0 .. ReboundLimit
  BY LimitAssumption
<1>5. \A j \in F : [exec |-> ExecOf(m), step |-> a[j], by |-> m, rebound |-> 0] \in Job
  BY <1>2, <1>4 DEF Job
<1>6. new \in [F -> Job] /\ \A j \in F : new[j].exec = ExecOf(m) /\ new[j].rebound = 0
  BY <1>5
<1>7. Issue(new, "owed")
  BY <1>3
<1> HIDE DEF new
<1>8. \E n \in [F -> Job] : (\A j \in F : n[j].exec = ExecOf(m) /\ n[j].rebound = 0) /\ Issue(n, "owed")
  BY <1>6, <1>7
<1>9. /\ started' = [started EXCEPT ![ExecOf(m)] = @ + Cardinality(Ordered(m))]
      /\ succeeded' = [succeeded EXCEPT ![ExecOf(m)] = @ + IF Succeeds(m) THEN 1 ELSE 0]
  BY DEF UpsertCount, Increment
<1> QED
  BY <1>1, <1>2, <1>8, <1>9 DEF F

LEMMA IssuingTypes ==
    /\ \A t \in Triggers : TypeInv /\ CreateExecution(t) => TypeInv'
    /\ \A j \in Jobs : TypeInv /\ Rebound(j) => TypeInv'
    /\ \A m \in Messages : TypeInv /\ UpsertCount(m) => TypeInv'
<1>1. ASSUME NEW t \in Triggers, TypeInv, CreateExecution(t) PROVE TypeInv'
  <2>1. /\ ExecId(t) \in Execs /\ issued + 1 <= MaxJobs
        /\ \E new \in [Fresh(1) -> Job] : Issue(new, "owed")
    BY <1>1, CreateParts
  <2>2. PICK new \in [Fresh(1) -> Job] : Issue(new, "owed")
    BY <2>1
  <2>3. /\ trigger' \in [Triggers -> {"none", "waiting", "found", "created", "done", "dropped"}]
        /\ started' \in [Execs -> Nat] /\ succeeded' \in [Execs -> Nat]
        /\ message' \in [Messages -> Stages]
        /\ \A m \in Messages : message'[m] # "none" => message[m] # "none"
        /\ UNCHANGED <<delivery, flowVars, purging, order, faults>>
    BY <1>1 DEF CreateExecution, TypeInv, TypeOK
  <2>4. "owed" \in Phases \ {"none"} /\ 1 \in Nat
    BY DEF Phases
  <2> QED
    BY <1>1, <2>1, <2>2, <2>3, <2>4, IssueStepTypes
<1>2. ASSUME NEW j \in Jobs, TypeInv, Rebound(j) PROVE TypeInv'
  <2>1. issued + 1 <= MaxJobs /\ \E new \in [Fresh(1) -> Job] : Issue(new, Rebounded(j))
    BY <1>2, ReboundParts
  <2>2. PICK new \in [Fresh(1) -> Job] : Issue(new, Rebounded(j))
    BY <2>1
  <2>3. /\ trigger' \in [Triggers -> {"none", "waiting", "found", "created", "done", "dropped"}]
        /\ started' \in [Execs -> Nat] /\ succeeded' \in [Execs -> Nat]
        /\ message' \in [Messages -> Stages]
        /\ \A m \in Messages : message'[m] # "none" => message[m] # "none"
        /\ UNCHANGED <<delivery, flowVars, purging, order, faults>>
    BY <1>2 DEF Rebound, TypeInv, TypeOK
  <2>4. Rebounded(j) \in Phases \ {"none"} /\ 1 \in Nat
    BY DEF Rebounded, Phases
  <2> QED
    BY <1>2, <2>1, <2>2, <2>3, <2>4, IssueStepTypes
<1>3. ASSUME NEW m \in Messages, TypeInv, UpsertCount(m) PROVE TypeInv'
  <2> DEFINE n == Cardinality(Ordered(m))
  <2>1. /\ ExecOf(m) \in Execs /\ n \in Nat /\ issued + n <= MaxJobs
        /\ \E new \in [Fresh(n) -> Job] : Issue(new, "owed")
        /\ message[m] \in {"found", "retrying"}
        /\ started' = [started EXCEPT ![ExecOf(m)] = @ + n]
        /\ succeeded' = [succeeded EXCEPT ![ExecOf(m)] = @ + IF Succeeds(m) THEN 1 ELSE 0]
    BY <1>3, UpsertParts
  <2> HIDE DEF n
  <2>2. PICK new \in [Fresh(n) -> Job] : Issue(new, "owed")
    BY <2>1
  <2>3. started' \in [Execs -> Nat]
    BY <1>3, <2>1 DEF TypeInv, TypeOK
  <2>4. succeeded' \in [Execs -> Nat]
    BY <1>3, <2>1 DEF TypeInv, TypeOK
  <2>5. PICK p \in Stages : message' = [message EXCEPT ![m] = p]
    BY <1>3 DEF UpsertCount, Stages
  <2>6. /\ message' \in [Messages -> Stages]
        /\ \A i \in Messages : message'[i] # "none" => message[i] # "none"
    BY <1>3, <2>1, <2>5 DEF TypeInv, TypeOK
  <2>7. /\ trigger' \in [Triggers -> {"none", "waiting", "found", "created", "done", "dropped"}]
        /\ UNCHANGED <<delivery, flowVars, purging, order, faults>>
    BY <1>3 DEF UpsertCount, TypeInv, TypeOK
  <2>8. "owed" \in Phases \ {"none"}
    BY DEF Phases
  <2> QED
    BY <1>3, <2>1, <2>2, <2>3, <2>4, <2>6, <2>7, <2>8, IssueStepTypes
<1> QED
  BY <1>1, <1>2, <1>3

LEMMA StepTypes == TypeInv /\ [Next]_vars => TypeInv'
<1> SUFFICES ASSUME TypeInv, [Next]_vars PROVE TypeInv'
  OBVIOUS
<1>1. CASE UNCHANGED vars
  BY <1>1 DEF TypeInv, TypeOK, IssuedOnly
<1>2. ASSUME NEW t \in Triggers, Publish(t) \/ HandleTrigger(t) PROVE TypeInv'
  BY <1>2, TriggerTypes, IssuingTypes DEF HandleTrigger
<1>3. ASSUME NEW j \in Jobs, ExecuteStep(j) \/ RunJob(j) \/ Rebound(j) \/ DropInput(j)
                             \/ PublishGivesUp(j)
      PROVE  TypeInv'
  BY <1>3, PhaseActionsTypes, SendTypes, IssuingTypes DEF RunJob
<1>4. ASSUME NEW j \in Jobs, NEW k \in 1 .. MaxOutputs, EmitData(j, k) PROVE TypeInv'
  BY <1>4, SendTypes
<1>5. ASSUME NEW m \in Messages, Handle(m) PROVE TypeInv'
  BY <1>5, HandlerTypes, IssuingTypes DEF Handle
<1>6. ASSUME NEW e \in Execs, PurgeSnapshots(e) PROVE TypeInv'
  BY <1>6, PurgeTypes
<1>7. ASSUME NEW s \in Steps, ComponentCrash(s) PROVE TypeInv'
  BY <1>7, CrashTypes
<1>8. ASSUME NEW f \in Flows, DeleteQueues(f) \/ ForgetFlow(f) PROVE TypeInv'
  BY <1>8, StopTypes
<1>9. CASE OrchestratorCrash
  BY <1>9, OrchestratorCrashTypes
<1> QED
  BY <1>1, <1>2, <1>3, <1>4, <1>5, <1>6, <1>7, <1>8, <1>9 DEF Next

(* The variables of FlowExecution keep their types.                         *)
THEOREM TypeCorrect == Spec => []TypeOK
<1>1. TypeInv => TypeOK
  BY DEF TypeInv
<1> QED
  BY <1>1, InitTypes, StepTypes, PTL DEF Spec
----------------------------------------------------------------------------
(* The counter started.  Its exactness is inductive with the types: a step  *)
(* that counts n starts issues n jobs of the execution, and nothing else    *)
(* touches either.                                                          *)

LEMMA JobsOfMembers ==
    ASSUME TypeInv, NEW e, NEW j
    PROVE  /\ j \in JobsOf(e) <=> j \in Jobs /\ j <= issued /\ job[j].exec = e
           /\ j \in Counted(e) <=> j \in JobsOf(e) /\ job[j].rebound = 0
<1>1. issued \in Nat /\ issued <= MaxJobs
  BY LimitAssumption DEF TypeInv, TypeOK
<1>2. j \in 1 .. issued <=> j \in Jobs /\ j <= issued
  BY <1>1, LimitAssumption DEF Jobs
<1> QED
  BY <1>2 DEF JobsOf, Counted

LEMMA JobsOfMembersNext ==
    ASSUME TypeInv', NEW e, NEW j
    PROVE  /\ j \in JobsOf(e)' <=> j \in Jobs /\ j <= issued' /\ job'[j].exec = e
           /\ j \in Counted(e)' <=> j \in JobsOf(e)' /\ job'[j].rebound = 0
<1>1. issued' \in Nat /\ issued' <= MaxJobs
  BY LimitAssumption DEF TypeInv, TypeOK
<1>2. j \in 1 .. issued' <=> j \in Jobs /\ j <= issued'
  BY <1>1, LimitAssumption DEF Jobs
<1> QED
  BY <1>2 DEF JobsOf, Counted

LEMMA JobsFinite == IsFiniteSet(Jobs)
<1>1. 1 \in Int /\ MaxJobs \in Int
  BY LimitAssumption
<1> QED
  BY <1>1, FS_Interval DEF Jobs

LEMMA CountedFinite ==
    ASSUME TypeInv, NEW e
    PROVE  IsFiniteSet(Counted(e)) /\ IsFiniteSet(JobsOf(e)) /\ Cardinality(Counted(e)) \in Nat
<1>1. Counted(e) \in SUBSET Jobs /\ JobsOf(e) \in SUBSET Jobs
  BY JobsOfMembers
<1> QED
  BY <1>1, JobsFinite, FS_Subset, FS_CardinalityType

(* Issuing n jobs of execution x that are no copies.                        *)
LEMMA CountedGrows ==
    ASSUME TypeInv, TypeInv', NEW n \in Nat, issued + n <= MaxJobs,
           NEW new \in [Fresh(n) -> Job], NEW p \in Phases \ {"none"}, Issue(new, p),
           NEW x, \A j \in Fresh(n) : new[j].exec = x /\ new[j].rebound = 0,
           NEW e
    PROVE  Cardinality(Counted(e)') = Cardinality(Counted(e)) + IF e = x THEN n ELSE 0
<1>1. /\ issued' = issued + n
      /\ \A j \in Jobs : job'[j] = IF j \in Fresh(n) THEN new[j] ELSE job[j]
      /\ \A j \in Jobs : j <= issued => j <= issued'
  BY IssueTypes
<1>2. /\ Fresh(n) \in SUBSET Jobs /\ IsFiniteSet(Fresh(n)) /\ Cardinality(Fresh(n)) = n
      /\ \A j \in Jobs : j \in Fresh(n) <=> (j > issued /\ j <= issued + n)
  BY FreshJobs
<1>3. issued \in Nat /\ \A j \in Jobs : j \in Nat
  BY JobsAreNat, LimitAssumption DEF TypeInv, TypeOK
<1>4. \A j \in Jobs : /\ j <= issued => j \notin Fresh(n)
                      /\ j <= issued' <=> j <= issued \/ j \in Fresh(n)
  BY <1>1, <1>2, <1>3
<1>5. \A j : /\ j \in Counted(e) <=>
                   j \in Jobs /\ j <= issued /\ job[j].exec = e /\ job[j].rebound = 0
             /\ j \in Counted(e)' <=>
                   j \in Jobs /\ j <= issued' /\ job'[j].exec = e /\ job'[j].rebound = 0
  BY JobsOfMembers, JobsOfMembersNext
<1>6. IsFiniteSet(Counted(e)) /\ Cardinality(Counted(e)) \in Nat
  BY CountedFinite
<1> HIDE DEF Fresh, Counted
<1>7. CASE e = x
  <2>1. Counted(e)' = Counted(e) \cup Fresh(n)
    BY <1>1, <1>2, <1>4, <1>5, <1>7
  <2>2. Counted(e) \cap Fresh(n) = {}
    BY <1>4, <1>5
  <2>3. Cardinality(Counted(e) \cup Fresh(n)) =
           Cardinality(Counted(e)) + Cardinality(Fresh(n)) - Cardinality(Counted(e) \cap Fresh(n))
    BY <1>2, <1>6, FS_Union
  <2>4. Cardinality(Counted(e) \cap Fresh(n)) = 0
    BY <2>2, FS_EmptySet
  <2> QED
    BY <1>2, <1>6, <1>7, <2>1, <2>3, <2>4
<1>8. CASE e # x
  <2>1. \A j \in Jobs : j \in Fresh(n) => job'[j].exec # e
    BY <1>1, <1>8
  <2>2. \A j \in Jobs : j <= issued => job'[j] = job[j]
    BY <1>1, <1>4
  <2>3. \A j : j \in Counted(e)' <=> j \in Counted(e)
    BY <1>4, <1>5, <2>1, <2>2
  <2>4. Counted(e)' = Counted(e)
    BY <2>3
  <2> QED
    BY <1>6, <1>8, <2>4
<1> QED
  BY <1>7, <1>8

(* Issuing copies leaves what is counted alone.                             *)
LEMMA CopiesUncounted ==
    ASSUME TypeInv, TypeInv', NEW n \in Nat, issued + n <= MaxJobs,
           NEW new \in [Fresh(n) -> Job], NEW p \in Phases \ {"none"}, Issue(new, p),
           \A j \in Fresh(n) : new[j].rebound # 0,
           NEW e
    PROVE  Counted(e)' = Counted(e)
<1>1. /\ issued' = issued + n
      /\ \A j \in Jobs : job'[j] = IF j \in Fresh(n) THEN new[j] ELSE job[j]
  BY IssueTypes
<1>2. \A j \in Jobs : j \in Fresh(n) <=> (j > issued /\ j <= issued + n)
  BY FreshJobs
<1>3. issued \in Nat /\ \A j \in Jobs : j \in Nat
  BY JobsAreNat, LimitAssumption DEF TypeInv, TypeOK
<1>4. \A j \in Jobs : /\ j <= issued => j \notin Fresh(n)
                      /\ j <= issued' <=> j <= issued \/ j \in Fresh(n)
  BY <1>1, <1>2, <1>3
<1>5. \A j : /\ j \in Counted(e) <=>
                   j \in Jobs /\ j <= issued /\ job[j].exec = e /\ job[j].rebound = 0
             /\ j \in Counted(e)' <=>
                   j \in Jobs /\ j <= issued' /\ job'[j].exec = e /\ job'[j].rebound = 0
  BY JobsOfMembers, JobsOfMembersNext
<1> HIDE DEF Fresh, Counted
<1> QED
  BY <1>1, <1>4, <1>5

(* What does not issue jobs leaves the counter and the counted jobs alone.  *)
LEMMA StartedKept ==
    ASSUME StartedIsExact, UNCHANGED <<started, issued, job>>
    PROVE  StartedIsExact'
  BY DEF StartedIsExact, Counted, JobsOf

LEMMA StartedStep ==
    TypeInv /\ TypeInv' /\ StartedIsExact /\ [Next]_vars => StartedIsExact'
<1> SUFFICES ASSUME TypeInv, TypeInv', StartedIsExact, [Next]_vars PROVE StartedIsExact'
  OBVIOUS
<1>1. ASSUME NEW t \in Triggers, CreateExecution(t) PROVE StartedIsExact'
  <2> PICK x : x = ExecId(t)
    OBVIOUS
  <2> PICK n : n = 1
    OBVIOUS
  <2>1. /\ x \in Execs /\ issued + n <= MaxJobs
        /\ \E new \in [Fresh(n) -> Job] :
              /\ \A j \in Fresh(n) : new[j].exec = x /\ new[j].rebound = 0
              /\ Issue(new, "owed")
    BY <1>1, CreateParts
  <2>4. started[x] = 0 /\ started' = [started EXCEPT ![x] = n] /\ n = 1
    BY <1>1 DEF CreateExecution
  <2>2. PICK new \in [Fresh(n) -> Job] :
           /\ \A j \in Fresh(n) : new[j].exec = x /\ new[j].rebound = 0
           /\ Issue(new, "owed")
    BY <2>1
  <2>3. "owed" \in Phases \ {"none"} /\ n \in Nat
    BY <2>4 DEF Phases
  <2>5. started \in [Execs -> Nat]
    BY DEF TypeInv, TypeOK
  <2> SUFFICES ASSUME NEW e \in Execs PROVE started'[e] = Cardinality(Counted(e)')
    BY DEF StartedIsExact
  <2>8. issued + n <= MaxJobs
    BY <2>1
  <2>6. Cardinality(Counted(e)') = Cardinality(Counted(e)) + IF e = x THEN n ELSE 0
    BY <2>8, <2>2, <2>3, CountedGrows
  <2>7. started[e] = Cardinality(Counted(e))
    BY DEF StartedIsExact
  <2> HIDE DEF Counted
  <2> QED
    BY <2>1, <2>4, <2>5, <2>6, <2>7
<1>2. ASSUME NEW m \in Messages, UpsertCount(m) PROVE StartedIsExact'
  <2> DEFINE n == Cardinality(Ordered(m))
  <2>1. /\ ExecOf(m) \in Execs /\ n \in Nat /\ issued + n <= MaxJobs
        /\ \E new \in [Fresh(n) -> Job] :
              /\ \A j \in Fresh(n) : new[j].exec = ExecOf(m) /\ new[j].rebound = 0
              /\ Issue(new, "owed")
        /\ started' = [started EXCEPT ![ExecOf(m)] = @ + n]
    BY <1>2, UpsertParts
  <2> HIDE DEF n
  <2>2. PICK new \in [Fresh(n) -> Job] :
           /\ \A j \in Fresh(n) : new[j].exec = ExecOf(m) /\ new[j].rebound = 0
           /\ Issue(new, "owed")
    BY <2>1
  <2>3. "owed" \in Phases \ {"none"}
    BY DEF Phases
  <2>4. started \in [Execs -> Nat]
    BY DEF TypeInv, TypeOK
  <2> SUFFICES ASSUME NEW e \in Execs PROVE started'[e] = Cardinality(Counted(e)')
    BY DEF StartedIsExact
  <2>5. Cardinality(Counted(e)') = Cardinality(Counted(e)) + IF e = ExecOf(m) THEN n ELSE 0
    BY <2>1, <2>2, <2>3, CountedGrows
  <2>6. started[e] = Cardinality(Counted(e))
    BY DEF StartedIsExact
  <2> HIDE DEF Counted
  <2> QED
    BY <2>1, <2>4, <2>5, <2>6
<1>3. ASSUME NEW j \in Jobs, Rebound(j) PROVE StartedIsExact'
  <2>1. /\ issued + 1 <= MaxJobs
        /\ \E new \in [Fresh(1) -> Job] :
              (\A i \in Fresh(1) : new[i].rebound # 0) /\ Issue(new, Rebounded(j))
    BY <1>3, ReboundParts
  <2>2. PICK new \in [Fresh(1) -> Job] :
           (\A i \in Fresh(1) : new[i].rebound # 0) /\ Issue(new, Rebounded(j))
    BY <2>1
  <2>3. Rebounded(j) \in Phases \ {"none"} /\ 1 \in Nat
    BY DEF Rebounded, Phases
  <2>4. started' = started
    BY <1>3 DEF Rebound
  <2>5. \A e : Counted(e)' = Counted(e)
    BY <2>1, <2>2, <2>3, CopiesUncounted
  <2> HIDE DEF Counted
  <2> QED
    BY <2>4, <2>5 DEF StartedIsExact
<1>4. CASE UNCHANGED <<started, issued, job>>
  BY <1>4, StartedKept
<1>5. \/ UNCHANGED <<started, issued, job>>
      \/ \E t \in Triggers : CreateExecution(t)
      \/ \E m \in Messages : UpsertCount(m)
      \/ \E j \in Jobs : Rebound(j)
  BY DEF Next, HandleTrigger, Handle, RunJob, Publish, FindFlow, CreateFails, AckTrigger,
     ExecuteStep, TakeJob, EmitData, ReboundReturns, End, SendFunctionComplete, DropInput,
     PublishGivesUp, ComponentCrash, HandleMessage, DuplicateKey, FinishMessage, PurgeSnapshots,
     OrchestratorCrash, DeleteQueues, ForgetFlow
<1> QED
  BY <1>1, <1>2, <1>3, <1>4, <1>5

LEMMA StartedInit == Init => StartedIsExact
<1> SUFFICES ASSUME Init, NEW e \in Execs PROVE started[e] = Cardinality(Counted(e))
  BY DEF StartedIsExact
<1>1. started[e] = 0 /\ issued = 0
  BY DEF Init
<1>2. TypeInv
  BY InitTypes
<1>3. Counted(e) = {}
  <2>1. \A j \in Jobs : ~(j <= 0)
    BY JobsAreNat
  <2> QED
    BY <1>1, <1>2, <2>1, JobsOfMembers
<1> QED
  BY <1>1, <1>3, FS_EmptySet

(* Whatever crashes, is redelivered, rebounded or stopped: the counter      *)
(* started of an execution is the number of inputs promised to its steps.   *)
THEOREM StartedCorrect == Spec => []StartedIsExact
  BY InitTypes, StepTypes, StartedInit, StartedStep, PTL DEF Spec
----------------------------------------------------------------------------
(* The counter succeeded and the meaning of equal counters, while nothing   *)
(* fails and no component orders steps.  A handler counts a message once:   *)
(* its stage moves on in the step that writes the counters.                 *)

CountedStages == {"counted", "even", "handled"}

(* A job that has sent its report does nothing any more.                    *)
ReportsSent == \A j \in Jobs : message[Report(j)] # "none" => phase[j] = "reported"

CalmInv ==
    TypeInv /\ ReportsSent /\ (\A m \in Messages : order[m] = Plain) /\ SucceededIsExact

LEMMA SettledMembers ==
    ASSUME TypeInv, NEW e, NEW j
    PROVE  j \in Settled(e) <=> /\ j \in Jobs /\ j <= issued /\ job[j].exec = e
                               /\ message[Report(j)] \in CountedStages
  BY JobsOfMembers DEF Settled, CountedStages

LEMMA SettledMembersNext ==
    ASSUME TypeInv', NEW e, NEW j
    PROVE  j \in Settled(e)' <=> /\ j \in Jobs /\ j <= issued' /\ job'[j].exec = e
                                /\ message'[Report(j)] \in CountedStages
  BY JobsOfMembersNext DEF Settled, CountedStages, Report

LEMMA SettledFinite ==
    ASSUME TypeInv, NEW e
    PROVE  IsFiniteSet(Settled(e)) /\ Cardinality(Settled(e)) \in Nat
<1>1. Settled(e) \in SUBSET Jobs
  BY SettledMembers
<1> QED
  BY <1>1, JobsFinite, FS_Subset, FS_CardinalityType

(* A step that keeps the records of issued jobs and settles no report.      *)
LEMMA SettledKept ==
    ASSUME TypeInv, TypeInv',
           \A j \in Jobs : j <= issued => j <= issued' /\ job'[j] = job[j],
           \A j \in Jobs : message'[Report(j)] \in CountedStages <=>
                           message[Report(j)] \in CountedStages,
           NEW e
    PROVE  Settled(e)' = Settled(e)
<1>1. \A j \in Jobs : message[Report(j)] \in CountedStages => j <= issued
  BY MessageParts DEF TypeInv, IssuedOnly, CountedStages
<1>2. \A j : j \in Settled(e)' <=> j \in Settled(e)
  BY <1>1, SettledMembers, SettledMembersNext
<1> QED
  BY <1>2

LEMMA CalmInit == Init => CalmInv
<1> SUFFICES ASSUME Init PROVE CalmInv
  OBVIOUS
<1>1. TypeInv
  BY InitTypes
<1>2. (\A m \in Messages : order[m] = Plain) /\ ReportsSent
  BY MessageParts DEF Init, ReportsSent
<1>3. ASSUME NEW e \in Execs PROVE succeeded[e] = Cardinality(Settled(e))
  <2>1. succeeded[e] = 0 /\ issued = 0
    BY DEF Init
  <2>2. \A j \in Jobs : ~(j <= 0)
    BY JobsAreNat
  <2>3. Settled(e) = {}
    BY <1>1, <2>1, <2>2, SettledMembers
  <2> QED
    BY <2>1, <2>3, FS_EmptySet
<1> QED
  BY <1>1, <1>2, <1>3 DEF CalmInv, SucceededIsExact

(* Records of issued jobs never change.                                     *)
LEMMA RecordsStay ==
    ASSUME TypeInv, [Next]_vars
    PROVE  \A j \in Jobs : j <= issued => j <= issued' /\ job'[j] = job[j]
<1> DEFINE Stay == \A j \in Jobs : j <= issued => j <= issued' /\ job'[j] = job[j]
<1>0. \A j \in Jobs : j \in Nat
  BY JobsAreNat
<1>i. issued \in Nat
  BY LimitAssumption DEF TypeInv, TypeOK
<1>1. ASSUME NEW n \in Nat, issued + n <= MaxJobs, NEW new \in [Fresh(n) -> Job],
             NEW p \in Phases \ {"none"}, Issue(new, p)
      PROVE  Stay
  <2>1. /\ \A j \in Jobs : job'[j] = IF j \in Fresh(n) THEN new[j] ELSE job[j]
        /\ \A j \in Jobs : j <= issued => j <= issued'
    BY <1>1, IssueTypes
  <2>2. \A j \in Jobs : j \in Fresh(n) <=> (j > issued /\ j <= issued + n)
    BY <1>1, FreshJobs
  <2> HIDE DEF Fresh
  <2> QED
    BY <1>0, <1>i, <2>1, <2>2
<1> HIDE DEF Stay
<1>p. {"owed", "rebounding", "lost"} \subseteq Phases \ {"none"} /\ 1 \in Nat
  BY DEF Phases
<1>2. ASSUME NEW t \in Triggers, CreateExecution(t) PROVE Stay
  <2>1. issued + 1 <= MaxJobs /\ \E new \in [Fresh(1) -> Job] : Issue(new, "owed")
    BY <1>2, CreateParts
  <2> QED
    BY <1>1, <1>p, <2>1
<1>3. ASSUME NEW j \in Jobs, Rebound(j) PROVE Stay
  <2>1. issued + 1 <= MaxJobs /\ \E new \in [Fresh(1) -> Job] : Issue(new, Rebounded(j))
    BY <1>3, ReboundParts
  <2> QED
    BY <1>1, <1>p, <2>1 DEF Rebounded
<1>4. ASSUME NEW m \in Messages, UpsertCount(m) PROVE Stay
  <2> DEFINE n == Cardinality(Ordered(m))
  <2>1. n \in Nat /\ issued + n <= MaxJobs /\ \E new \in [Fresh(n) -> Job] : Issue(new, "owed")
    BY <1>4, UpsertParts
  <2> HIDE DEF n
  <2> QED
    BY <1>1, <1>p, <2>1
<1>5. ASSUME issued' = issued, job' = job PROVE Stay
  <2>1. \A j \in Jobs : j <= issued => j <= issued' /\ job'[j] = job[j]
    BY <1>0, <1>5, <1>i
  <2> QED
    BY <2>1 DEF Stay
<1>6. \/ issued' = issued /\ job' = job
      \/ \E t \in Triggers : CreateExecution(t)
      \/ \E m \in Messages : UpsertCount(m)
      \/ \E j \in Jobs : Rebound(j)
  BY DEF Next, HandleTrigger, Handle, RunJob, Publish, FindFlow, CreateFails, AckTrigger,
     ExecuteStep, TakeJob, EmitData, ReboundReturns, End, SendFunctionComplete, DropInput,
     PublishGivesUp, ComponentCrash, HandleMessage, DuplicateKey, FinishMessage, PurgeSnapshots,
     OrchestratorCrash, DeleteQueues, ForgetFlow
<1>7. Stay
  BY <1>2, <1>3, <1>4, <1>5, <1>6
<1> QED
  BY <1>7 DEF Stay

LEMMA PlainStep ==
    ASSUME Privileged = {}, TypeInv, \A m \in Messages : order[m] = Plain, [Next]_vars
    PROVE  \A m \in Messages : order'[m] = Plain
<1>1. ASSUME NEW j \in Jobs, NEW k \in 1 .. MaxOutputs, EmitData(j, k)
      PROVE  \A m \in Messages : order'[m] = Plain
  <2>1. PICK o \in {Plain} : order' = [order EXCEPT ![<<j, k>>] = o]
    BY <1>1 DEF EmitData
  <2>2. order \in [Messages -> {Plain} \cup SUBSET Steps]
    BY DEF TypeInv, TypeOK
  <2> HIDE DEF Messages
  <2> QED
    BY <2>1, <2>2
<1>2. order' = order \/ \E j \in Jobs, k \in 1 .. MaxOutputs : EmitData(j, k)
  BY DEF Next, HandleTrigger, Handle, RunJob, Publish, FindFlow, CreateExecution, CreateFails,
     AckTrigger, ExecuteStep, TakeJob, Rebound, ReboundReturns, End, SendFunctionComplete,
     DropInput, PublishGivesUp, ComponentCrash, HandleMessage, UpsertCount, DuplicateKey,
     FinishMessage, PurgeSnapshots, OrchestratorCrash, DeleteQueues, ForgetFlow
<1> QED
  BY <1>1, <1>2

(* Plain messages count a success exactly when they are reports.            *)
LEMMA PlainSuccess ==
    ASSUME NEW m \in Messages, order[m] = Plain
    PROVE  Succeeds(m) <=> IsReport(m)
  BY DEF Succeeds

(* The update of the counters settles the job of a report, nothing else.    *)
LEMMA UpsertSettles ==
    ASSUME TypeInv, TypeInv', [Next]_vars, NEW m \in Messages, UpsertCount(m), order[m] = Plain,
           NEW e \in Execs, succeeded[e] = Cardinality(Settled(e))
    PROVE  succeeded'[e] = Cardinality(Settled(e)')
<1> HIDE DEF Messages
<1>1. /\ message[m] \in {"found", "retrying"} /\ ExecOf(m) \in Execs
      /\ succeeded' = [succeeded EXCEPT ![ExecOf(m)] = @ + IF Succeeds(m) THEN 1 ELSE 0]
  BY UpsertParts
<1>2. PICK p \in CountedStages : message' = [message EXCEPT ![m] = p]
  BY DEF UpsertCount, CountedStages
<1>3. succeeded \in [Execs -> Nat] /\ message \in [Messages -> Stages]
  BY DEF TypeInv, TypeOK
<1>4. \A j \in Jobs : j <= issued => j <= issued' /\ job'[j] = job[j]
  BY RecordsStay
<1>5. \A j \in Jobs : Report(j) \in Messages /\ Report(j)[1] = j /\ IsReport(Report(j))
  BY MessageParts
<1>6. IsFiniteSet(Settled(e)) /\ Cardinality(Settled(e)) \in Nat
  BY SettledFinite
<1>7. CASE ~IsReport(m)
  <2>1. \A j \in Jobs : message'[Report(j)] = message[Report(j)]
    BY <1>2, <1>3, <1>5, <1>7
  <2>2. Settled(e)' = Settled(e)
    BY <1>4, <2>1, SettledKept
  <2>3. ~Succeeds(m)
    BY <1>7, PlainSuccess
  <2> QED
    BY <1>1, <1>3, <2>2, <2>3
<1>8. CASE IsReport(m)
  <2>1. m[1] \in Jobs /\ m = Report(m[1])
    BY <1>8, MessageParts
  <2> PICK i : i = m[1]
    OBVIOUS
  <2>2. i \in Jobs /\ m = Report(i) /\ i <= issued /\ job[i].exec = ExecOf(m)
    BY <1>1, <2>1 DEF TypeInv, IssuedOnly, ExecOf
  <2>3. \A j \in Jobs : j # i => message'[Report(j)] = message[Report(j)]
    BY <1>2, <1>3, <1>5, <2>2
  <2>4. message[Report(i)] \notin CountedStages /\ message'[Report(i)] \in CountedStages
    BY <1>1, <1>2, <1>3, <2>2 DEF CountedStages
  <2>5. \A j \in Jobs : message[Report(j)] \in CountedStages => j <= issued
    BY <1>5 DEF TypeInv, IssuedOnly, CountedStages
  <2>6. i \notin Settled(e)
    BY <2>4, SettledMembers
  <2>7. \A j : j \in Settled(e)' <=> j \in Settled(e) \/ (j = i /\ ExecOf(m) = e)
    BY <1>4, <2>2, <2>3, <2>4, <2>5, SettledMembers, SettledMembersNext
  <2>8. Succeeds(m)
    BY <1>8, PlainSuccess
  <2>9. CASE ExecOf(m) = e
    <3>1. Settled(e)' = Settled(e) \cup {i}
      BY <2>7, <2>9
    <3>2. Cardinality(Settled(e) \cup {i}) = Cardinality(Settled(e)) + 1
      BY <1>6, <2>6, FS_AddElement
    <3> QED
      BY <1>1, <1>3, <2>8, <2>9, <3>1, <3>2
  <2>10. CASE ExecOf(m) # e
    <3>1. Settled(e)' = Settled(e)
      BY <2>7, <2>10
    <3> QED
      BY <1>1, <1>3, <2>10, <3>1
  <2> QED
    BY <2>9, <2>10
<1> QED
  BY <1>7, <1>8
LEMMA StaysReported ==
    ASSUME TypeInv, [Next]_vars, NEW j \in Jobs, phase[j] = "reported"
    PROVE  phase'[j] = "reported"
<1>1. j <= issued /\ phase \in [Jobs -> Phases]
  BY DEF TypeInv, TypeOK, IssuedOnly
<1>2. ASSUME NEW n \in Nat, issued + n <= MaxJobs, NEW new \in [Fresh(n) -> Job],
             NEW p \in Phases \ {"none"}, Issue(new, p)
      PROVE  phase'[j] = "reported"
  <2>1. phase' = [i \in Jobs |-> IF i \in Fresh(n) THEN p ELSE phase[i]]
    BY <1>2 DEF Issue
  <2>2. j \in Fresh(n) => j > issued
    BY <1>2, FreshJobs
  <2>3. j \in Nat /\ issued \in Nat
    BY JobsAreNat, LimitAssumption DEF TypeInv, TypeOK
  <2> HIDE DEF Fresh
  <2> QED
    BY <1>1, <2>1, <2>2, <2>3
<1>p. {"owed", "rebounding", "lost"} \subseteq Phases \ {"none"} /\ 1 \in Nat
  BY DEF Phases
<1>3. ASSUME NEW t \in Triggers, CreateExecution(t) PROVE phase'[j] = "reported"
  <2>1. issued + 1 <= MaxJobs /\ \E new \in [Fresh(1) -> Job] : Issue(new, "owed")
    BY <1>3, CreateParts
  <2> QED
    BY <1>2, <1>p, <2>1
<1>4. ASSUME NEW i \in Jobs, Rebound(i) PROVE phase'[j] = "reported"
  <2>1. issued + 1 <= MaxJobs /\ \E new \in [Fresh(1) -> Job] : Issue(new, Rebounded(i))
    BY <1>4, ReboundParts
  <2> QED
    BY <1>2, <1>p, <2>1 DEF Rebounded
<1>5. ASSUME NEW m \in Messages, UpsertCount(m) PROVE phase'[j] = "reported"
  <2> DEFINE n == Cardinality(Ordered(m))
  <2>1. n \in Nat /\ issued + n <= MaxJobs /\ \E new \in [Fresh(n) -> Job] : Issue(new, "owed")
    BY <1>5, UpsertParts
  <2> HIDE DEF n
  <2> QED
    BY <1>2, <1>p, <2>1
<1>6. ASSUME NEW i \in Jobs, phase[i] # "reported", \E v : phase' = [phase EXCEPT ![i] = v]
      PROVE  phase'[j] = "reported"
  BY <1>1, <1>6
<1>7. ASSUME NEW i \in Jobs,
             ExecuteStep(i) \/ RunJob(i) \/ DropInput(i) \/ PublishGivesUp(i)
      PROVE  phase'[j] = "reported"
  <2>1. phase[i] # "reported" /\ \E v : phase' = [phase EXCEPT ![i] = v]
    BY <1>7 DEF ExecuteStep, RunJob, TakeJob, ReboundReturns, End, SendFunctionComplete,
       DropInput, PublishGivesUp
  <2> QED
    BY <1>6, <2>1
<1>8. ASSUME NEW s \in Steps, ComponentCrash(s) PROVE phase'[j] = "reported"
  BY <1>8 DEF ComponentCrash, Interrupted
<1>9. ASSUME NEW f \in Flows, DeleteQueues(f) PROVE phase'[j] = "reported"
  BY <1>9 DEF DeleteQueues
<1>10. ASSUME OrchestratorCrash PROVE phase'[j] = "reported"
  BY <1>10 DEF OrchestratorCrash
<1>11. \/ phase' = phase
       \/ \E t \in Triggers : CreateExecution(t)
       \/ \E m \in Messages : UpsertCount(m)
       \/ \E i \in Jobs : Rebound(i)
       \/ \E i \in Jobs : ExecuteStep(i) \/ RunJob(i) \/ DropInput(i) \/ PublishGivesUp(i)
       \/ \E s \in Steps : ComponentCrash(s)
       \/ \E f \in Flows : DeleteQueues(f)
       \/ OrchestratorCrash
  BY DEF Next, HandleTrigger, Handle, Publish, FindFlow, CreateFails, AckTrigger, EmitData,
     HandleMessage, DuplicateKey, FinishMessage, PurgeSnapshots, ForgetFlow, vars, jobVars
<1> QED
  BY <1>3, <1>4, <1>5, <1>7, <1>8, <1>9, <1>10, <1>11

(* How the steps, but for the update of the counters, move a report.        *)
LEMMA ReportMoves ==
    ASSUME MaxFaults = 0, TypeInv, [Next]_vars, \A m \in Messages : ~UpsertCount(m),
           NEW j \in Jobs
    PROVE  \/ message'[Report(j)] = message[Report(j)]
           \/ /\ phase[j] = "acked" /\ phase'[j] = "reported"
              /\ message'[Report(j)] = "waiting"
           \/ message[Report(j)] \in {"waiting", "found"}
              /\ message'[Report(j)] \in {"found", "retrying"}
           \/ message[Report(j)] \in {"counted", "even"} /\ message'[Report(j)] = "handled"
<1> DEFINE r == Report(j)
           Moves == \/ message'[r] = message[r]
                    \/ phase[j] = "acked" /\ phase'[j] = "reported" /\ message'[r] = "waiting"
                    \/ message[r] \in {"waiting", "found"} /\ message'[r] \in {"found", "retrying"}
                    \/ message[r] \in {"counted", "even"} /\ message'[r] = "handled"
<1>1. message \in [Messages -> Stages] /\ phase \in [Jobs -> Phases]
  BY DEF TypeInv, TypeOK
<1>2. r \in Messages /\ IsReport(r) /\ r[1] = j /\ \A i \in Jobs : Report(i) = r => i = j
  BY MessageParts
<1>3. Served(r) /\ Succeeds(r)
  BY <1>2 DEF Served, Succeeds
<1>4. ~OrchestratorCrash
  BY DEF OrchestratorCrash, TypeInv, TypeOK
<1>5. ASSUME NEW i \in Jobs, NEW k \in 1 .. MaxOutputs, EmitData(i, k) PROVE Moves
  <2>1. message' = [message EXCEPT ![<<i, k>>] = "waiting"]
    BY <1>5 DEF EmitData
  <2>2. <<i, k>> # r /\ <<i, k>> \in Messages
    BY <1>2, MessageParts
  <2> HIDE DEF r
  <2> QED
    BY <1>1, <1>2, <2>1, <2>2
<1>6. ASSUME NEW i \in Jobs, SendFunctionComplete(i) PROVE Moves
  <2>1. /\ phase[i] = "acked" /\ phase' = [phase EXCEPT ![i] = "reported"]
        /\ message' = [message EXCEPT ![Report(i)] = "waiting"]
    BY <1>6 DEF SendFunctionComplete
  <2>2. Report(i) \in Messages
    BY MessageParts
  <2> HIDE DEF r
  <2> QED
    BY <1>1, <1>2, <2>1, <2>2
<1>7. ASSUME NEW m \in Messages, HandleMessage(m) PROVE Moves
  <2>1. message[m] = "waiting"
    BY <1>7 DEF HandleMessage
  <2>2. message' = [message EXCEPT ![m] = IF Served(m) /\ (Succeeds(m) \/ Ordered(m) # {})
                                          THEN "found" ELSE "handled"]
    BY <1>7 DEF HandleMessage
  <2> HIDE DEF r
  <2>3. CASE m = r
    <3>1. message'[r] = "found"
      BY <1>1, <1>2, <1>3, <2>2, <2>3
    <3> QED
      BY <2>1, <2>3, <3>1
  <2>4. CASE m # r
    BY <1>1, <1>2, <2>2, <2>4
  <2> QED
    BY <2>3, <2>4
<1>8. ASSUME NEW m \in Messages, DuplicateKey(m) PROVE Moves
  <2>1. message[m] = "found" /\ message' = [message EXCEPT ![m] = "retrying"]
    BY <1>8 DEF DuplicateKey
  <2> HIDE DEF r
  <2> QED
    BY <1>1, <1>2, <2>1
<1>9. ASSUME NEW m \in Messages, FinishMessage(m) PROVE Moves
  <2>1. message[m] \in {"counted", "even"} /\ message' = [message EXCEPT ![m] = "handled"]
    BY <1>9 DEF FinishMessage
  <2> HIDE DEF r
  <2> QED
    BY <1>1, <1>2, <2>1
<1>10. \/ message' = message
       \/ \E i \in Jobs, k \in 1 .. MaxOutputs : EmitData(i, k)
       \/ \E i \in Jobs : SendFunctionComplete(i)
       \/ \E m \in Messages : HandleMessage(m) \/ DuplicateKey(m) \/ FinishMessage(m)
  BY <1>4 DEF Next, HandleTrigger, Handle, RunJob, Publish, FindFlow, CreateExecution,
     CreateFails, AckTrigger, ExecuteStep, TakeJob, Rebound, ReboundReturns, End, DropInput,
     PublishGivesUp, ComponentCrash, PurgeSnapshots, DeleteQueues, ForgetFlow, vars, messageVars
<1> HIDE DEF Moves
<1>11. Moves
  <2>1. CASE message' = message
    BY <2>1 DEF Moves
  <2> QED
    BY <1>5, <1>6, <1>7, <1>8, <1>9, <1>10, <2>1
<1> QED
  BY <1>11 DEF Moves
LEMMA CalmStep ==
    ASSUME MaxFaults = 0, Privileged = {}
    PROVE  CalmInv /\ TypeInv' /\ [Next]_vars => CalmInv'
<1> SUFFICES ASSUME CalmInv, TypeInv', [Next]_vars PROVE CalmInv'
  OBVIOUS
<1>1. TypeInv /\ ReportsSent /\ SucceededIsExact /\ (\A m \in Messages : order[m] = Plain)
  BY DEF CalmInv
<1>2. \A m \in Messages : order'[m] = Plain
  BY <1>1, PlainStep
<1>3. \A j \in Jobs : j <= issued => j <= issued' /\ job'[j] = job[j]
  BY <1>1, RecordsStay
<1>4. \A j \in Jobs : phase[j] = "reported" => phase'[j] = "reported"
  BY <1>1, StaysReported
<1>5. CASE \A m \in Messages : ~UpsertCount(m)
  <2> DEFINE Move(j) ==
         \/ message'[Report(j)] = message[Report(j)]
         \/ /\ phase[j] = "acked" /\ phase'[j] = "reported"
            /\ message'[Report(j)] = "waiting"
         \/ message[Report(j)] \in {"waiting", "found"}
            /\ message'[Report(j)] \in {"found", "retrying"}
         \/ message[Report(j)] \in {"counted", "even"} /\ message'[Report(j)] = "handled"
  <2>1. \A j \in Jobs : Move(j)
    BY <1>1, <1>5, ReportMoves
  <2>2. \A j \in Jobs : message[Report(j)] # "none" => phase[j] = "reported"
    BY <1>1 DEF ReportsSent
  <2>3. \A j \in Jobs : message'[Report(j)] # "none" => phase'[j] = "reported"
    BY <1>4, <2>1, <2>2
  <2>4. \A j \in Jobs : message'[Report(j)] \in CountedStages <=>
                        message[Report(j)] \in CountedStages
    BY <2>1, <2>2 DEF CountedStages
  <2>5. succeeded' = succeeded
    BY <1>5 DEF Next, HandleTrigger, Handle, RunJob, Publish, FindFlow, CreateExecution,
       CreateFails, AckTrigger, ExecuteStep, TakeJob, EmitData, Rebound, ReboundReturns, End,
       SendFunctionComplete, DropInput, PublishGivesUp, ComponentCrash, HandleMessage,
       DuplicateKey, FinishMessage, PurgeSnapshots, OrchestratorCrash, DeleteQueues, ForgetFlow,
       vars, stateVars
  <2>6. \A e \in Execs : Settled(e)' = Settled(e)
    BY <1>1, <1>3, <2>4, SettledKept
  <2>7. SucceededIsExact' /\ ReportsSent'
    BY <1>1, <2>3, <2>5, <2>6 DEF SucceededIsExact, ReportsSent, Report
  <2> QED
    BY <1>2, <2>7 DEF CalmInv
<1>6. ASSUME NEW m \in Messages, UpsertCount(m) PROVE CalmInv'
  <2>1. \A e \in Execs : succeeded'[e] = Cardinality(Settled(e)')
    <3> TAKE e \in Execs
    <3>1. succeeded[e] = Cardinality(Settled(e)) /\ order[m] = Plain
      BY <1>1 DEF SucceededIsExact
    <3> QED
      BY <1>1, <1>6, <3>1, UpsertSettles
  <2>2. message[m] \in {"found", "retrying"}
    BY <1>6 DEF UpsertCount
  <2>3. \E p : message' = [message EXCEPT ![m] = p]
    BY <1>6 DEF UpsertCount
  <2>4. message \in [Messages -> Stages] /\ \A j \in Jobs : Report(j) \in Messages
    BY <1>1, MessageParts DEF TypeInv, TypeOK
  <2>5. \A j \in Jobs : message'[Report(j)] # "none" => message[Report(j)] # "none"
    BY <2>2, <2>3, <2>4
  <2>6. ReportsSent'
    BY <1>1, <1>4, <2>5 DEF ReportsSent, Report
  <2>7. SucceededIsExact'
    BY <2>1 DEF SucceededIsExact
  <2> QED
    BY <1>2, <2>6, <2>7 DEF CalmInv
<1> QED
  BY <1>5, <1>6

(* Without crashes and without commands: succeeded of an execution is the   *)
(* number of inputs whose completion has been counted, each once, however   *)
(* the handlers of the backchannel interleave, copies of rebounds included. *)
THEOREM SucceededCorrect ==
    ASSUME MaxFaults = 0, Privileged = {} PROVE Spec => []SucceededIsExact
<1>1. CalmInv /\ TypeInv' /\ [Next]_vars => CalmInv'
  BY CalmStep
<1>2. CalmInv => SucceededIsExact
  BY DEF CalmInv
<1> QED
  BY <1>1, <1>2, CalmInit, InitTypes, StepTypes, PTL DEF Spec
----------------------------------------------------------------------------
(* Equal counters.  A rebound reports twice and is counted once, so here no *)
(* component may ask for one.                                               *)

NoCopies == \A j \in Jobs : j <= issued => job[j].rebound = 0

LEMMA NoCopiesStep ==
    ASSUME Rebounding = {}
    PROVE  TypeInv /\ NoCopies /\ [Next]_vars => NoCopies'
<1> SUFFICES ASSUME TypeInv, NoCopies, [Next]_vars PROVE NoCopies'
  OBVIOUS
<1>1. ASSUME NEW n \in Nat, issued + n <= MaxJobs, NEW new \in [Fresh(n) -> Job],
             NEW p \in Phases \ {"none"}, Issue(new, p), \A j \in Fresh(n) : new[j].rebound = 0
      PROVE  NoCopies'
  <2>1. /\ issued' = issued + n
        /\ \A j \in Jobs : job'[j] = IF j \in Fresh(n) THEN new[j] ELSE job[j]
    BY <1>1, IssueTypes
  <2>2. \A j \in Jobs : j \in Fresh(n) <=> (j > issued /\ j <= issued + n)
    BY <1>1, FreshJobs
  <2>3. issued \in Nat /\ \A j \in Jobs : j \in Nat
    BY JobsAreNat, LimitAssumption DEF TypeInv, TypeOK
  <2>4. \A j \in Jobs : j <= issued' => j <= issued \/ j \in Fresh(n)
    BY <2>1, <2>2, <2>3
  <2> HIDE DEF Fresh
  <2> QED
    BY <1>1, <2>1, <2>4 DEF NoCopies
<1>p. "owed" \in Phases \ {"none"} /\ 1 \in Nat
  BY DEF Phases
<1>2. ASSUME NEW t \in Triggers, CreateExecution(t) PROVE NoCopies'
  <2>1. issued + 1 <= MaxJobs /\ \E new \in [Fresh(1) -> Job] :
              (\A j \in Fresh(1) : new[j].rebound = 0) /\ Issue(new, "owed")
    BY <1>2, CreateParts
  <2> QED
    BY <1>1, <1>p, <2>1
<1>3. ASSUME NEW m \in Messages, UpsertCount(m) PROVE NoCopies'
  <2> DEFINE n == Cardinality(Ordered(m))
  <2>1. /\ n \in Nat /\ issued + n <= MaxJobs
        /\ \E new \in [Fresh(n) -> Job] :
              (\A j \in Fresh(n) : new[j].rebound = 0) /\ Issue(new, "owed")
    BY <1>3, UpsertParts
  <2> HIDE DEF n
  <2> QED
    BY <1>1, <1>p, <2>1
<1>4. CASE issued' = issued /\ job' = job
  BY <1>4 DEF NoCopies
<1>5. \/ issued' = issued /\ job' = job
      \/ \E t \in Triggers : CreateExecution(t)
      \/ \E m \in Messages : UpsertCount(m)
  BY DEF Next, HandleTrigger, Handle, RunJob, Publish, FindFlow, CreateFails, AckTrigger,
     ExecuteStep, TakeJob, EmitData, Rebound, ReboundReturns, End, SendFunctionComplete,
     DropInput, PublishGivesUp, ComponentCrash, HandleMessage, DuplicateKey, FinishMessage,
     PurgeSnapshots, OrchestratorCrash, DeleteQueues, ForgetFlow, vars, jobVars
<1> QED
  BY <1>2, <1>3, <1>4, <1>5

(* The invariant at both ends of a step that sees the counters equal.       *)
LEMMA EvenStep ==
    ASSUME MaxFaults = 0, CalmInv, CalmInv', StartedIsExact', NoCopies', [Next]_vars,
           NEW m \in Messages, message[m] # "even", message'[m] = "even"
    PROVE  Counted(ExecOf(m))' \subseteq Settled(ExecOf(m))'
<1>1. TypeInv /\ TypeInv' /\ SucceededIsExact'
  BY DEF CalmInv
<1>2. message \in [Messages -> Stages]
  BY <1>1 DEF TypeInv, TypeOK
<1>3. UpsertCount(m)
  <2>1. \A j \in Jobs : Report(j) \in Messages
    BY MessageParts
  <2>2. \A j \in Jobs, k \in 1 .. MaxOutputs : <<j, k>> \in Messages
    BY MessageParts
  <2> HIDE DEF Messages
  <2>3. ASSUME NEW n \in Messages, NEW p, p # "even", message' = [message EXCEPT ![n] = p]
        PROVE  FALSE
    BY <1>2, <2>3
  <2>4. \A j \in Jobs : ~SendFunctionComplete(j)
    BY <2>1, <2>3 DEF SendFunctionComplete
  <2>5. \A j \in Jobs, k \in 1 .. MaxOutputs : ~EmitData(j, k)
    BY <2>2, <2>3 DEF EmitData
  <2>6. ASSUME NEW n \in Messages, HandleMessage(n) PROVE FALSE
    <3>1. PICK p \in {"found", "handled"} : message' = [message EXCEPT ![n] = p]
      BY <2>6 DEF HandleMessage
    <3> QED
      BY <2>3, <3>1
  <2>7. \A n \in Messages : ~DuplicateKey(n) /\ ~FinishMessage(n)
    BY <2>3 DEF DuplicateKey, FinishMessage
  <2>8. message' # message /\ ~OrchestratorCrash
    BY <1>1 DEF OrchestratorCrash, TypeInv, TypeOK
  <2>9. PICK n \in Messages : UpsertCount(n)
    BY <2>4, <2>5, <2>6, <2>7, <2>8 DEF Next, HandleTrigger, Handle, RunJob, Publish, FindFlow,
       CreateExecution, CreateFails, AckTrigger, ExecuteStep, TakeJob, Rebound, ReboundReturns,
       End, DropInput, PublishGivesUp, ComponentCrash, PurgeSnapshots, DeleteQueues, ForgetFlow,
       vars, messageVars
  <2>10. \E p : message' = [message EXCEPT ![n] = p]
    BY <2>9 DEF UpsertCount
  <2>11. n = m
    BY <1>2, <2>9, <2>10
  <2> QED
    BY <2>9, <2>11
<1> PICK e : e = ExecOf(m)
  OBVIOUS
<1>4. e \in Execs
  BY <1>1, <1>3, UpsertParts
<1>5. started'[e] = succeeded'[e]
  <2>1. message' = [message EXCEPT ![m] = IF Succeeds(m) /\ started'[e] = succeeded'[e]
                                          THEN "even" ELSE "counted"]
    BY <1>3 DEF UpsertCount
  <2> HIDE DEF Messages
  <2> QED
    BY <1>2, <2>1
<1>6. ExecOf(m)' = e
  <2>1. m[1] \in Jobs /\ m[1] <= issued
    BY <1>1, <1>3, MessageParts DEF UpsertCount, TypeInv, IssuedOnly
  <2>2. job'[m[1]] = job[m[1]]
    BY <1>1, <2>1, RecordsStay
  <2> QED
    BY <2>2 DEF ExecOf
<1>7. started'[e] = Cardinality(Counted(e)') /\ succeeded'[e] = Cardinality(Settled(e)')
  BY <1>1, <1>4 DEF StartedIsExact, SucceededIsExact
<1>8. \A j : j \in Settled(e)' => j \in Counted(e)'
  BY <1>1, SettledMembersNext, JobsOfMembersNext DEF NoCopies
<1>9. IsFiniteSet(Counted(e)')
  <2>1. Counted(e)' \in SUBSET Jobs
    BY <1>1, JobsOfMembersNext
  <2> QED
    BY <2>1, JobsFinite, FS_Subset
<1>10. Settled(e)' = Counted(e)'
  <2> DEFINE S == Settled(e)'
             C == Counted(e)'
  <2>1. S \in SUBSET C /\ IsFiniteSet(C) /\ Cardinality(S) = Cardinality(C)
    BY <1>5, <1>7, <1>8, <1>9
  <2> HIDE DEF S, C
  <2>2. S = C
    BY <2>1, FS_Subset
  <2> QED
    BY <2>2 DEF S, C
<1> QED
  BY <1>6, <1>10

(* Without crashes, commands and rebounds the counters of an execution are  *)
(* seen equal only when every input counted so far has reported its end.    *)
THEOREM EvenCorrect ==
    ASSUME MaxFaults = 0, Privileged = {}, Rebounding = {} PROVE Spec => EvenMeansSettled
<1> DEFINE EvenSeen == \A m \in Messages : message[m] # "even" /\ message'[m] = "even" =>
                          Counted(ExecOf(m))' \subseteq Settled(ExecOf(m))'
           Inv == CalmInv /\ StartedIsExact /\ NoCopies
<1>1. Init => Inv
  <2>1. Init => NoCopies
    BY JobsAreNat DEF Init, NoCopies
  <2> QED
    BY <2>1, CalmInit, StartedInit
<1>2. Inv /\ [Next]_vars => Inv'
  BY CalmStep, StepTypes, StartedStep, NoCopiesStep DEF CalmInv
<1>3. Inv /\ Inv' /\ [Next]_vars => EvenSeen
  BY EvenStep
<1>4. Inv /\ [Next]_vars => [EvenSeen]_vars
  BY <1>2, <1>3
<1> HIDE DEF Inv
<1> QED
  BY <1>1, <1>2, <1>4, PTL DEF Spec, EvenMeansSettled

----------------------------------------------------------------------------
(* Where the jobs of an execution come from.  An event with an external id  *)
(* makes one job however often it is delivered, and whatever steps order    *)
(* one another, an execution stays with the user in whose flow it began.    *)

UserOf(s) == StartedBy[FlowOf[s]]
UserOfExec(e) == StartedBy[TriggerFlow[e[1]]]

(* Handlers past the check of run-next-steps go on with what it let pass,   *)
(* and what an issued job has ordered does not change.                      *)
Passed(m) == message[m] \in {"found", "retrying"}
OwnOrders ==
    \A m \in Messages : Passed(m) =>
        \A s \in Ordered(m) : UserOf(s) = UserOf(StepOf(m))

UserInv == OwnOrders /\ ExecutionsStayWithTheirUser

(* An event with an external id has made one job at most, and then its      *)
(* execution exists.                                                       *)
OnceInv ==
    \A t \in External : \A i, j \in Jobs :
        /\ i <= issued /\ job[i].by = t => started[<<t, 1>>] # 0
        /\ i <= issued /\ j <= issued /\ job[i].by = t /\ job[j].by = t => i = j

(* A step either issues nothing and leaves the counters alone, or is one of *)
(* the three that issue jobs.                                               *)
LEMMA IssuingSteps ==
    [Next]_vars =>
        \/ UNCHANGED <<started, issued, job>>
        \/ \E t \in Triggers : CreateExecution(t)
        \/ \E m \in Messages : UpsertCount(m)
        \/ \E j \in Jobs : Rebound(j)
  BY DEF Next, HandleTrigger, Handle, RunJob, Publish, FindFlow, CreateFails, AckTrigger,
     ExecuteStep, TakeJob, EmitData, ReboundReturns, End, SendFunctionComplete, DropInput,
     PublishGivesUp, ComponentCrash, HandleMessage, DuplicateKey, FinishMessage, PurgeSnapshots,
     OrchestratorCrash, DeleteQueues, ForgetFlow

(* What the three put into their new jobs; jobs that were issued stay.      *)
Stays(j) == j <= issued /\ job'[j] = job[j]

LEMMA IssueMakes ==
    ASSUME TypeInv, NEW n \in Nat, issued + n <= MaxJobs,
           NEW new \in [Fresh(n) -> Job], NEW p \in Phases \ {"none"}, Issue(new, p)
    PROVE  /\ issued \in Nat /\ issued' = issued + n
           /\ \A j \in Jobs : j <= issued' =>
                 Stays(j) \/ (j > issued /\ j \in Fresh(n) /\ job'[j] = new[j])
<1>1. /\ issued' = issued + n
      /\ \A j \in Jobs : job'[j] = IF j \in Fresh(n) THEN new[j] ELSE job[j]
  BY IssueTypes
<1>2. \A j \in Jobs : j \in Fresh(n) <=> (j > issued /\ j <= issued + n)
  BY FreshJobs
<1>3. issued \in Nat /\ \A j \in Jobs : j \in Nat
  BY JobsAreNat, LimitAssumption DEF TypeInv, TypeOK
<1> HIDE DEF Fresh, Jobs
<1> QED
  BY <1>1, <1>2, <1>3 DEF Stays

LEMMA CreateMakes ==
    ASSUME TypeInv, NEW t \in Triggers, CreateExecution(t)
    PROVE  /\ issued \in Nat /\ issued' = issued + 1
           /\ \A j \in Jobs : j <= issued' =>
                 \/ Stays(j)
                 \/ /\ j > issued
                    /\ job'[j].exec = ExecId(t) /\ job'[j].by = t
                    /\ job'[j].step = First[TriggerFlow[t]]
<1> DEFINE r == [exec |-> ExecId(t), step |-> First[TriggerFlow[t]], by |-> t, rebound |-> 0]
           new == [j \in Fresh(1) |-> r]
<1>1. r \in Job /\ issued + 1 <= MaxJobs
  <2>1. ExecId(t) \in Execs /\ issued + 1 <= MaxJobs
    BY CreateParts
  <2>2. First[TriggerFlow[t]] \in Steps /\ 0 \in 0 .. ReboundLimit
    BY GraphAssumption, LimitAssumption
  <2> QED
    BY <2>1, <2>2 DEF Job
<1>2. r.exec = ExecId(t) /\ r.by = t /\ r.step = First[TriggerFlow[t]]
  OBVIOUS
<1>3. Issue(new, "owed") /\ "owed" \in Phases \ {"none"} /\ 1 \in Nat
  BY DEF CreateExecution, Phases
<1> HIDE DEF r, Fresh
<1>4. new \in [Fresh(1) -> Job] /\ \A j \in Fresh(1) : new[j] = r
  BY <1>1
<1> HIDE DEF new
<1>5. /\ issued \in Nat /\ issued' = issued + 1
      /\ \A j \in Jobs : j <= issued' =>
            Stays(j) \/ (j > issued /\ j \in Fresh(1) /\ job'[j] = new[j])
  BY <1>1, <1>3, <1>4, IssueMakes
<1> QED
  BY <1>2, <1>4, <1>5

LEMMA ReboundMakes ==
    ASSUME TypeInv, NEW i \in Jobs, Rebound(i)
    PROVE  /\ i <= issued /\ issued \in Nat /\ issued' = issued + 1
           /\ \A j \in Jobs : j <= issued' =>
                 \/ Stays(j)
                 \/ /\ j > issued
                    /\ job'[j].exec = job[i].exec /\ job'[j].by \in Messages
                    /\ job'[j].step = job[i].step
<1> DEFINE r == [exec |-> job[i].exec, step |-> job[i].step, by |-> Report(i),
                 rebound |-> job[i].rebound + 1]
           new == [j \in Fresh(1) |-> r]
<1>1. i <= issued /\ job[i] \in Job
  BY DEF Rebound, TypeInv, IssuedOnly
<1>2. r \in Job
  <2>1. job[i].exec \in Execs /\ job[i].step \in Steps /\ job[i].rebound \in 0 .. ReboundLimit
    BY <1>1 DEF Job
  <2>2. job[i].rebound + 1 \in 0 .. ReboundLimit
    BY <2>1, LimitAssumption DEF Rebound
  <2> QED
    BY <2>1, <2>2, MessageParts DEF Job
<1>3. r.exec = job[i].exec /\ r.by \in Messages /\ r.step = job[i].step
  BY MessageParts
<1>4. Issue(new, Rebounded(i)) /\ Rebounded(i) \in Phases \ {"none"} /\ 1 \in Nat
  BY DEF Rebound, Rebounded, Phases
<1>5. issued + 1 <= MaxJobs
  BY ReboundParts
<1> HIDE DEF r, Fresh
<1>6. new \in [Fresh(1) -> Job] /\ \A j \in Fresh(1) : new[j] = r
  BY <1>2
<1> HIDE DEF new
<1>7. /\ issued \in Nat /\ issued' = issued + 1
      /\ \A j \in Jobs : j <= issued' =>
            Stays(j) \/ (j > issued /\ j \in Fresh(1) /\ job'[j] = new[j])
  BY <1>4, <1>5, <1>6, IssueMakes
<1> QED
  BY <1>1, <1>3, <1>6, <1>7

LEMMA UpsertMakes ==
    ASSUME TypeInv, NEW m \in Messages, UpsertCount(m)
    PROVE  /\ issued \in Nat /\ issued' >= issued /\ issued' \in Nat
           /\ \A j \in Jobs : j <= issued' =>
                 \/ Stays(j)
                 \/ /\ j > issued
                    /\ job'[j].exec = ExecOf(m) /\ job'[j].by = m
                    /\ job'[j].step \in Ordered(m)
<1> DEFINE n == Cardinality(Ordered(m))
           F == Fresh(n)
<1>1. message[m] \in {"found", "retrying"} /\ issued + n <= MaxJobs
  BY DEF UpsertCount
<1>2. /\ ExecOf(m) \in Execs /\ Ordered(m) \in SUBSET Steps /\ n \in Nat
  BY <1>1, OrderedTypes
<1>3. PICK a \in [F -> Ordered(m)] :
         Issue([j \in F |-> [exec |-> ExecOf(m), step |-> a[j], by |-> m, rebound |-> 0]], "owed")
  BY DEF UpsertCount
<1> DEFINE new == [j \in F |-> [exec |-> ExecOf(m), step |-> a[j], by |-> m, rebound |-> 0]]
<1> HIDE DEF F, n
<1>4. /\ \A j \in F : new[j].exec = ExecOf(m) /\ new[j].by = m /\ new[j].step = a[j]
      /\ \A j \in F : a[j] \in Ordered(m)
  OBVIOUS
<1>5. new \in [F -> Job]
  <2>1. 0 \in 0 .. ReboundLimit
    BY LimitAssumption
  <2>2. \A j \in F : [exec |-> ExecOf(m), step |-> a[j], by |-> m, rebound |-> 0] \in Job
    BY <1>2, <2>1 DEF Job
  <2> QED
    BY <2>2
<1>6. Issue(new, "owed") /\ "owed" \in Phases \ {"none"}
  BY <1>3 DEF Phases
<1> HIDE DEF new
<1>7. /\ issued \in Nat /\ issued' = issued + n
      /\ \A j \in Jobs : j <= issued' =>
            Stays(j) \/ (j > issued /\ j \in F /\ job'[j] = new[j])
  BY <1>1, <1>2, <1>5, <1>6, IssueMakes DEF F
<1> QED
  BY <1>2, <1>4, <1>7

----------------------------------------------------------------------------
(* The user of an execution.                                                *)

LEMMA StayMembers ==
    ASSUME TypeInv
    PROVE  \A j : j \in 1 .. issued <=> j \in Jobs /\ j <= issued
  BY LimitAssumption DEF TypeInv, TypeOK, Jobs

LEMMA StayMembersNext ==
    ASSUME TypeInv'
    PROVE  \A j : j \in 1 .. issued' <=> j \in Jobs /\ j <= issued'
  BY LimitAssumption DEF TypeInv, TypeOK, Jobs

LEMMA InitUser == Init => UserInv
  BY LimitAssumption DEF Init, UserInv, OwnOrders, Passed, ExecutionsStayWithTheirUser

LEMMA MessageSteps ==
    [Next]_vars =>
        \/ UNCHANGED messageVars
        \/ \E j \in Jobs : SendFunctionComplete(j) \/ \E k \in 1 .. MaxOutputs : EmitData(j, k)
        \/ \E m \in Messages : Handle(m)
        \/ OrchestratorCrash
  BY DEF Next, HandleTrigger, RunJob, Publish, FindFlow, CreateExecution, CreateFails, AckTrigger,
     ExecuteStep, TakeJob, Rebound, ReboundReturns, End, DropInput, PublishGivesUp,
     ComponentCrash, PurgeSnapshots, DeleteQueues, ForgetFlow

(* A message passes only in HandleMessage, and keeps its order from its      *)
(* publication on.                                                         *)
LEMMA PassedSteps ==
    ASSUME TypeInv, [Next]_vars, NEW m \in Messages, Passed(m)'
    PROVE  order'[m] = order[m] /\ (Passed(m) \/ HandleMessage(m))
<1>1. CASE UNCHANGED messageVars
  BY <1>1 DEF Passed
<1>2. ASSUME NEW j \in Jobs, SendFunctionComplete(j) PROVE order'[m] = order[m] /\ Passed(m)
  BY <1>2 DEF SendFunctionComplete, Passed, TypeInv, TypeOK
<1>3. ASSUME NEW j \in Jobs, NEW k \in 1 .. MaxOutputs, EmitData(j, k)
      PROVE  order'[m] = order[m] /\ Passed(m)
  <2>1. <<j, k>> \in Messages
    BY MessageParts
  <2>2. m # <<j, k>>
    BY <1>3, <2>1 DEF EmitData, Passed, TypeInv, TypeOK
  <2> QED
    BY <1>3, <2>1, <2>2 DEF EmitData, Passed, TypeInv, TypeOK
<1>4. ASSUME NEW n \in Messages, Handle(n)
      PROVE  order'[m] = order[m] /\ (Passed(m) \/ HandleMessage(m))
  <2>1. order' = order
    BY <1>4 DEF Handle, HandleMessage, UpsertCount, DuplicateKey, FinishMessage
  <2>2. CASE HandleMessage(n)
    BY <2>1, <2>2 DEF HandleMessage, Passed, TypeInv, TypeOK
  <2>3. CASE UpsertCount(n)
    BY <2>1, <2>3 DEF UpsertCount, Passed, TypeInv, TypeOK
  <2>4. CASE DuplicateKey(n)
    BY <2>1, <2>4 DEF DuplicateKey, Passed, TypeInv, TypeOK
  <2>5. CASE FinishMessage(n)
    BY <2>1, <2>5 DEF FinishMessage, Passed, TypeInv, TypeOK
  <2> QED
    BY <1>4, <2>2, <2>3, <2>4, <2>5 DEF Handle
<1>5. CASE OrchestratorCrash
  BY <1>5 DEF OrchestratorCrash, Passed, TypeInv, TypeOK
<1> QED
  BY <1>1, <1>2, <1>3, <1>4, <1>5, MessageSteps

LEMMA OrdersStay ==
    ASSUME TypeInv, TypeInv', [Next]_vars, OwnOrders,
           \A j \in Jobs : j <= issued => job'[j] = job[j]
    PROVE  OwnOrders'
<1> SUFFICES ASSUME NEW m \in Messages, Passed(m)', NEW s \in Ordered(m)'
             PROVE  UserOf(s) = UserOf(StepOf(m)')
  BY DEF OwnOrders, UserOf
<1>1. order'[m] = order[m] /\ (Passed(m) \/ HandleMessage(m))
  BY PassedSteps
<1>2. m[1] \in Jobs /\ m[1] <= issued
  BY <1>1, MessageParts DEF Passed, HandleMessage, TypeInv, IssuedOnly
<1>3. StepOf(m)' = StepOf(m) /\ s \in Ordered(m)
  BY <1>1, <1>2 DEF StepOf, Ordered
<1>5. CASE Passed(m)
  BY <1>3, <1>5 DEF OwnOrders
<1>6. CASE HandleMessage(m)
  <2>1. Served(m)
    BY <1>6 DEF HandleMessage, Passed, TypeInv, TypeOK
  <2>2. ~IsReport(m) /\ order[m] # {}
    BY <1>3, OriginAssumption DEF Ordered
  <2> QED
    BY <1>3, <2>1, <2>2 DEF Served, UserOf, FlowOfStep
<1> QED
  BY <1>1, <1>3, <1>5, <1>6

LEMMA StepUser ==
    TypeInv /\ TypeInv' /\ UserInv /\ [Next]_vars => UserInv'
<1> SUFFICES ASSUME TypeInv, TypeInv', UserInv, [Next]_vars PROVE UserInv'
  OBVIOUS
<1>1. /\ \A j \in Jobs : j <= issued => job'[j] = job[j]
      /\ \A j \in Jobs : j <= issued' =>
            Stays(j) \/ UserOf(job'[j].step) = UserOfExec(job'[j].exec)
  <2>0. \A j \in Jobs : j <= issued => UserOf(job[j].step) = UserOfExec(job[j].exec)
    BY StayMembers DEF UserInv, ExecutionsStayWithTheirUser, UserOf, UserOfExec
  <2>1. CASE UNCHANGED <<started, issued, job>>
    BY <2>1 DEF Stays
  <2>2. ASSUME NEW t \in Triggers, CreateExecution(t)
        PROVE  \A j \in Jobs : j <= issued' =>
                  Stays(j) \/ UserOf(job'[j].step) = UserOfExec(job'[j].exec)
    <3>1. ExecId(t)[1] = t
      BY DEF ExecId
    <3>2. FlowOf[First[TriggerFlow[t]]] = TriggerFlow[t]
      BY GraphAssumption, OriginAssumption
    <3> QED
      BY <2>2, <3>1, <3>2, CreateMakes DEF UserOf, UserOfExec
  <2>3. ASSUME NEW i \in Jobs, Rebound(i)
        PROVE  \A j \in Jobs : j <= issued' =>
                  Stays(j) \/ UserOf(job'[j].step) = UserOfExec(job'[j].exec)
    BY <2>0, <2>3, ReboundMakes
  <2>4. ASSUME NEW m \in Messages, UpsertCount(m)
        PROVE  \A j \in Jobs : j <= issued' =>
                  Stays(j) \/ UserOf(job'[j].step) = UserOfExec(job'[j].exec)
    <3>1. Passed(m)
      BY <2>4 DEF UpsertCount, Passed
    <3>2. m[1] \in Jobs /\ m[1] <= issued
      BY <3>1, MessageParts DEF Passed, TypeInv, IssuedOnly
    <3>3. UserOf(StepOf(m)) = UserOfExec(ExecOf(m))
      BY <2>0, <3>2 DEF StepOf, ExecOf
    <3>4. \A s \in Ordered(m) : UserOf(s) = UserOf(StepOf(m))
      BY <3>1 DEF UserInv, OwnOrders
    <3> QED
      BY <2>4, <3>3, <3>4, UpsertMakes
  <2>5. \A j \in Jobs : j <= issued => job'[j] = job[j]
    <3>1. \A j \in Jobs : j \in Nat
      BY JobsAreNat
    <3> HIDE DEF Jobs
    <3>2. ASSUME NEW t \in Triggers, CreateExecution(t)
          PROVE  \A j \in Jobs : j <= issued => job'[j] = job[j]
      BY <3>1, <3>2, CreateMakes DEF Stays
    <3>3. ASSUME NEW i \in Jobs, Rebound(i)
          PROVE  \A j \in Jobs : j <= issued => job'[j] = job[j]
      BY <3>1, <3>3, ReboundMakes DEF Stays
    <3>4. ASSUME NEW m \in Messages, UpsertCount(m)
          PROVE  \A j \in Jobs : j <= issued => job'[j] = job[j]
      BY <3>1, <3>4, UpsertMakes DEF Stays
    <3> QED
      BY <2>1, <3>2, <3>3, <3>4, IssuingSteps
  <2> QED
    BY <2>1, <2>2, <2>3, <2>4, <2>5, IssuingSteps DEF Stays
<1>2. OwnOrders'
  BY <1>1, OrdersStay DEF UserInv
<1>3. ExecutionsStayWithTheirUser'
  <2> SUFFICES ASSUME NEW j \in 1 .. issued' 
               PROVE  StartedBy[FlowOf[job'[j].step]] = StartedBy[TriggerFlow[job'[j].exec[1]]]
    BY DEF ExecutionsStayWithTheirUser
  <2>1. j \in Jobs /\ j <= issued'
    BY StayMembersNext
  <2>2. CASE Stays(j)
    BY <2>1, <2>2, StayMembers DEF Stays, UserInv, ExecutionsStayWithTheirUser
  <2>3. CASE UserOf(job'[j].step) = UserOfExec(job'[j].exec)
    BY <2>3 DEF UserOf, UserOfExec
  <2> QED
    BY <1>1, <2>1, <2>2, <2>3
<1> QED
  BY <1>2, <1>3 DEF UserInv

(* However steps of several flows order one another, and whatever crashes   *)
(* or is rebounded: an execution runs steps of flows of one user alone.     *)
THEOREM UserCorrect == Spec => []ExecutionsStayWithTheirUser
<1>1. UserInv => ExecutionsStayWithTheirUser
  BY DEF UserInv
<1> QED
  BY <1>1, InitTypes, StepTypes, InitUser, StepUser, PTL DEF Spec

----------------------------------------------------------------------------
(* One execution of an event with an external id.                           *)

LEMMA InitOnce == Init => OnceInv
<1>1. \A j \in Jobs : ~(j <= 0)
  BY JobsAreNat
<1> QED
  BY <1>1 DEF Init, OnceInv

LEMMA StepOnce ==
    TypeInv /\ TypeInv' /\ OnceInv /\ [Next]_vars => OnceInv'
<1> SUFFICES ASSUME TypeInv, TypeInv', OnceInv, [Next]_vars PROVE OnceInv'
  OBVIOUS
<1> SUFFICES ASSUME NEW t \in External, NEW i \in Jobs, NEW j \in Jobs
             PROVE  /\ i <= issued' /\ job'[i].by = t => started'[<<t, 1>>] # 0
                    /\ i <= issued' /\ j <= issued' /\ job'[i].by = t /\ job'[j].by = t => i = j
  BY DEF OnceInv
<1>1. t \in Triggers /\ t \notin Messages /\ ExecId(t) = <<t, 1>> /\ <<t, 1>> \in Execs
  BY GraphAssumption, OriginAssumption, LimitAssumption DEF ExecId, Execs
<1>2. \A k \in Jobs : k <= issued /\ job[k].by = t => started[<<t, 1>>] # 0
  BY DEF OnceInv
<1>3. Stays(i) /\ Stays(j) /\ job'[i].by = t /\ job'[j].by = t => i = j
  BY DEF OnceInv, Stays
<1>4. started \in [Execs -> Nat]
  BY DEF TypeInv, TypeOK
<1>5. CASE UNCHANGED <<started, issued, job>>
  BY <1>5 DEF OnceInv
<1>6. ASSUME NEW u \in Triggers, CreateExecution(u)
      PROVE  /\ i <= issued' /\ job'[i].by = t => started'[<<t, 1>>] # 0
             /\ i <= issued' /\ j <= issued' /\ job'[i].by = t /\ job'[j].by = t => i = j
  <2>1. started[ExecId(u)] = 0 /\ started' = [started EXCEPT ![ExecId(u)] = 1]
    BY <1>6 DEF CreateExecution
  <2>2. started[<<t, 1>>] # 0 => started'[<<t, 1>>] # 0
    BY <1>1, <1>4, <2>1
  <2>3. /\ issued \in Nat /\ issued' = issued + 1
        /\ \A k \in Jobs : k <= issued' => Stays(k) \/ (k > issued /\ job'[k].by = u)
    BY <1>6, CreateMakes
  <2>4. CASE u # t
    BY <1>2, <1>3, <2>2, <2>3, <2>4 DEF Stays
  <2>5. CASE u = t
    <3>1. started[<<t, 1>>] = 0 /\ started'[<<t, 1>>] = 1
      BY <1>1, <1>4, <2>1, <2>5
    <3>2. \A k \in Jobs : Stays(k) => job'[k].by # t
      BY <1>2, <3>1 DEF Stays
    <3>3. i \in Nat /\ j \in Nat
      BY JobsAreNat
    <3> HIDE DEF Jobs
    <3>4. i <= issued' /\ job'[i].by = t => i = issued + 1
      BY <2>3, <3>2, <3>3
    <3>5. j <= issued' /\ job'[j].by = t => j = issued + 1
      BY <2>3, <3>2, <3>3
    <3> QED
      BY <3>1, <3>4, <3>5
  <2> QED
    BY <2>4, <2>5
<1>7. ASSUME NEW k \in Jobs, Rebound(k)
      PROVE  /\ i <= issued' /\ job'[i].by = t => started'[<<t, 1>>] # 0
             /\ i <= issued' /\ j <= issued' /\ job'[i].by = t /\ job'[j].by = t => i = j
  <2>1. \A l \in Jobs : l <= issued' => Stays(l) \/ job'[l].by # t
    BY <1>1, <1>7, ReboundMakes
  <2>2. started' = started
    BY <1>7 DEF Rebound
  <2> QED
    BY <1>2, <1>3, <2>1, <2>2 DEF Stays
<1>8. ASSUME NEW m \in Messages, UpsertCount(m)
      PROVE  /\ i <= issued' /\ job'[i].by = t => started'[<<t, 1>>] # 0
             /\ i <= issued' /\ j <= issued' /\ job'[i].by = t /\ job'[j].by = t => i = j
  <2>1. \A l \in Jobs : l <= issued' => Stays(l) \/ job'[l].by # t
    BY <1>1, <1>8, UpsertMakes
  <2>2. started[<<t, 1>>] # 0 => started'[<<t, 1>>] # 0
    <3>1. /\ ExecOf(m) \in Execs /\ Cardinality(Ordered(m)) \in Nat
          /\ started' = [started EXCEPT ![ExecOf(m)] = @ + Cardinality(Ordered(m))]
      BY <1>8, UpsertParts
    <3> QED
      BY <1>1, <1>4, <3>1
  <2> QED
    BY <1>2, <1>3, <2>1, <2>2 DEF Stays
<1> QED
  BY <1>5, <1>6, <1>7, <1>8, IssuingSteps

(* An execute event with an external id is executed once at most, however   *)
(* often it is delivered and wherever the orchestrator dies.                *)
THEOREM OnceCorrect == Spec => []ExecutedOnce
<1>1. TypeInv /\ OnceInv => ExecutedOnce
  <2> SUFFICES ASSUME TypeInv, OnceInv, NEW t \in External
               PROVE  Cardinality({j \in 1 .. issued : job[j].by = t}) <= 1
    BY DEF ExecutedOnce
  <2> DEFINE made == {j \in 1 .. issued : job[j].by = t}
  <2>1. \A i, j \in made : i = j
    BY StayMembers DEF OnceInv
  <2>2. CASE made = {}
    BY <2>2, FS_EmptySet
  <2>3. ASSUME NEW i \in made PROVE Cardinality(made) <= 1
    <3>1. made = {i}
      BY <2>1, <2>3
    <3>2. Cardinality({i}) = 1
      BY FS_Singleton
    <3> QED
      BY <3>1, <3>2
  <2> QED
    BY <2>2, <2>3
<1> QED
  BY <1>1, InitTypes, StepTypes, InitOnce, StepOnce, PTL DEF Spec

----------------------------------------------------------------------------
(* The queues of the steps.                                                *)

(* An input waits only in a queue that is there, its own or that of its      *)
(* rebounds.                                                               *)
WaitsWired ==
    \A j \in Jobs : phase[j] \in {"queued", "rebounding"} => FlowOf[job[j].step] \in wired

(* The inputs of a step that are at some phase of theirs.                   *)
LEMMA InPhaseMembers ==
    ASSUME TypeInv
    PROVE  \A s, P, j : j \in InPhase(s, P) <=>
               j \in Jobs /\ j <= issued /\ job[j].step = s /\ phase[j] \in P
  BY StayMembers DEF InPhase

LEMMA InPhaseMembersNext ==
    ASSUME TypeInv'
    PROVE  \A s, P, j : j \in InPhase(s, P)' <=>
               j \in Jobs /\ j <= issued' /\ job'[j].step = s /\ phase'[j] \in P
  BY StayMembersNext DEF InPhase

(* One input of a step changes its phase, nothing is issued.                *)
LEMMA OneMoves ==
    ASSUME TypeInv, TypeInv', NEW j \in Jobs, phase[j] # "none", NEW p \in Phases,
           phase' = [phase EXCEPT ![j] = p], UNCHANGED <<issued, job>>, NEW s
    PROVE  \A P : InPhase(s, P)' =
               IF job[j].step # s THEN InPhase(s, P)
               ELSE IF p \in P THEN InPhase(s, P) \cup {j} ELSE InPhase(s, P) \ {j}
<1> TAKE P
<1>1. j <= issued
  BY DEF TypeInv, IssuedOnly
<1>2. phase \in [Jobs -> Phases]
  BY DEF TypeInv, TypeOK
<1>3. phase'[j] = p /\ \A i \in Jobs : i # j => phase'[i] = phase[i]
  BY <1>2
<1>4. \A i : i \in InPhase(s, P) <=>
             i \in Jobs /\ i <= issued /\ job[i].step = s /\ phase[i] \in P
  BY InPhaseMembers
<1>5. \A i : i \in InPhase(s, P)' <=>
             i \in Jobs /\ i <= issued /\ job[i].step = s /\ phase'[i] \in P
  BY InPhaseMembersNext
<1> HIDE DEF InPhase, Jobs
<1>6. CASE job[j].step # s
  <2>1. \A i : i \in InPhase(s, P)' <=> i \in InPhase(s, P)
    BY <1>3, <1>4, <1>5, <1>6
  <2> QED
    BY <1>6, <2>1
<1>7. CASE job[j].step = s /\ p \in P
  <2>1. \A i : i \in InPhase(s, P)' <=> i \in InPhase(s, P) \/ i = j
    BY <1>1, <1>3, <1>4, <1>5, <1>7
  <2> QED
    BY <1>7, <2>1
<1>8. CASE job[j].step = s /\ p \notin P
  <2>1. \A i : i \in InPhase(s, P)' <=> i \in InPhase(s, P) /\ i # j
    BY <1>1, <1>3, <1>4, <1>5, <1>8
  <2> QED
    BY <1>8, <2>1
<1> QED
  BY <1>6, <1>7, <1>8

(* Where the inputs of a step are, as its queue sees it; and a step of      *)
(* FlowExecution that leaves that alone.                                    *)
Waiting(s) == InPhase(s, {"queued"})
AtHand(s) == InPhase(s, {"running"})
Over(s) == InPhase(s, {"acked", "reported", "dropped"})
Gone(s) == InPhase(s, {"lost"})
QueueRests(s) == UNCHANGED <<wired, Waiting(s), AtHand(s), Over(s), Gone(s)>>
QueueStep(s) == [Queue(s)!Next]_(Queue(s)!vars)

LEMMA RestIsStep == \A s : QueueRests(s) => QueueStep(s)
<1> SUFFICES ASSUME NEW s, QueueRests(s) PROVE Queue(s)!vars' = Queue(s)!vars
  BY DEF QueueStep
<1> HIDE DEF InPhase
<1> QED
  BY DEF QueueRests, Waiting, AtHand, Over, Gone, Queue!vars

(* A step issues jobs in phase p and leaves those issued before alone.      *)
IssuesAt(p) ==
    /\ \A j \in Jobs : j <= issued =>
          j <= issued' /\ job'[j] = job[j] /\ phase'[j] = phase[j]
    /\ \A j \in Jobs : j > issued /\ j <= issued' => phase'[j] = p
    /\ \A j \in Jobs : j > issued => phase[j] = "none" 

LEMMA IssueIsAt ==
    ASSUME TypeInv, NEW n \in Nat, issued + n <= MaxJobs,
           NEW new \in [Fresh(n) -> Job], NEW p \in Phases \ {"none"}, Issue(new, p)
    PROVE  IssuesAt(p)
<1>1. /\ issued' = issued + n
      /\ \A j \in Jobs : job'[j] = IF j \in Fresh(n) THEN new[j] ELSE job[j]
      /\ \A j \in Jobs : j <= issued => j <= issued'
  BY IssueTypes
<1>2. \A j \in Jobs : j \in Fresh(n) <=> (j > issued /\ j <= issued + n)
  BY FreshJobs
<1>3. issued \in Nat /\ \A j \in Jobs : j \in Nat
  BY JobsAreNat, LimitAssumption DEF TypeInv, TypeOK
<1>4. DOMAIN new = Fresh(n)
  OBVIOUS
<1> HIDE DEF Fresh, Jobs
<1>5. \A j \in Jobs : phase'[j] = IF j \in Fresh(n) THEN p ELSE phase[j]
  BY <1>4 DEF Issue
<1>6. \A j \in Jobs : j <= issued => j \notin Fresh(n)
  BY <1>2, <1>3
<1>7. \A j \in Jobs : j > issued => phase[j] = "none"
  <2> TAKE j \in Jobs
  <2>1. phase[j] # "none" => j <= issued
    BY DEF TypeInv, IssuedOnly
  <2> QED
    BY <1>3, <2>1
<1> QED
  BY <1>1, <1>2, <1>5, <1>6, <1>7 DEF IssuesAt

LEMMA IssuingIssues ==
    ASSUME TypeInv
    PROVE  /\ \A t \in Triggers : CreateExecution(t) => IssuesAt("owed") /\ UNCHANGED wired
           /\ \A i \in Jobs : Rebound(i) => IssuesAt(Rebounded(i)) /\ UNCHANGED wired
           /\ \A m \in Messages : UpsertCount(m) => IssuesAt("owed") /\ UNCHANGED wired
<1>p. "owed" \in Phases \ {"none"} /\ 1 \in Nat /\ \A i \in Jobs : Rebounded(i) \in Phases \ {"none"}
  BY DEF Rebounded, Phases
<1>1. ASSUME NEW t \in Triggers, CreateExecution(t) PROVE IssuesAt("owed") /\ UNCHANGED wired
  <2>1. issued + 1 <= MaxJobs /\ \E new \in [Fresh(1) -> Job] : Issue(new, "owed")
    BY <1>1, CreateParts
  <2>2. UNCHANGED wired
    BY <1>1 DEF CreateExecution
  <2> QED
    BY <1>p, <2>1, <2>2, IssueIsAt
<1>2. ASSUME NEW i \in Jobs, Rebound(i) PROVE IssuesAt(Rebounded(i)) /\ UNCHANGED wired
  <2>1. issued + 1 <= MaxJobs /\ \E new \in [Fresh(1) -> Job] : Issue(new, Rebounded(i))
    BY <1>2, ReboundParts
  <2>2. UNCHANGED wired
    BY <1>2 DEF Rebound
  <2> QED
    BY <1>p, <2>1, <2>2, IssueIsAt
<1>3. ASSUME NEW m \in Messages, UpsertCount(m) PROVE IssuesAt("owed") /\ UNCHANGED wired
  <2> DEFINE n == Cardinality(Ordered(m))
  <2>1. n \in Nat /\ issued + n <= MaxJobs /\ \E new \in [Fresh(n) -> Job] : Issue(new, "owed")
    BY <1>3, UpsertParts
  <2>2. UNCHANGED wired
    BY <1>3 DEF UpsertCount
  <2> QED
    BY <1>p, <2>1, <2>2, IssueIsAt
<1> QED
  BY <1>1, <1>2, <1>3

(* New inputs are not in the queue yet; lost ones, rebounded after a stop,  *)
(* never get there.                                                         *)
LEMMA QueueIssue ==
    ASSUME TypeInv, TypeInv', NEW p \in {"owed", "rebounding", "lost"}, IssuesAt(p),
           UNCHANGED wired, NEW s
    PROVE  QueueStep(s)
<1>1. \A P, j : j \in InPhase(s, P) <=>
          j \in Jobs /\ j <= issued /\ job[j].step = s /\ phase[j] \in P
  BY InPhaseMembers
<1>2. \A P, j : j \in InPhase(s, P)' <=>
          j \in Jobs /\ j <= issued' /\ job'[j].step = s /\ phase'[j] \in P
  BY InPhaseMembersNext
<1>3. \A j \in Jobs : j <= issued \/ j > issued
  BY JobsAreNat, LimitAssumption DEF TypeInv, TypeOK
<1>4. \A j \in Jobs : ~(j <= issued /\ j > issued)
  BY JobsAreNat, LimitAssumption DEF TypeInv, TypeOK
<1> HIDE DEF InPhase, Jobs
<1>5. ASSUME NEW P, p \notin P PROVE InPhase(s, P)' = InPhase(s, P)
  <2>1. \A j : j \in InPhase(s, P)' <=> j \in InPhase(s, P)
    BY <1>1, <1>2, <1>3, <1>5 DEF IssuesAt
  <2> QED
    BY <2>1
<1>6. Waiting(s)' = Waiting(s) /\ AtHand(s)' = AtHand(s) /\ Over(s)' = Over(s)
  BY <1>5 DEF Waiting, AtHand, Over
<1>7. CASE p # "lost"
  BY <1>5, <1>6, <1>7, RestIsStep DEF QueueRests, Gone
<1>8. CASE p = "lost"
  <2>1. PICK new : new = {j \in Jobs : j > issued /\ j <= issued' /\ job'[j].step = s}
    OBVIOUS
  <2>2. \A j : j \in Gone(s)' <=> j \in Gone(s) \/ j \in new
    BY <1>1, <1>2, <1>3, <1>8, <2>1 DEF IssuesAt, Gone
  <2>3. Gone(s)' = Gone(s) \cup new
    BY <2>2
  <2>4. new \cap (Waiting(s) \cup AtHand(s) \cup Over(s) \cup Gone(s)) = {}
    BY <1>1, <1>4, <2>1 DEF Waiting, AtHand, Over, Gone
  <2>5. new \in SUBSET Jobs
    BY <2>1
  <2>6. Queue(s)!LoseUnsent(new)
    BY <1>6, <2>3, <2>4 DEF Waiting, AtHand, Over, Gone, Queue!LoseUnsent, Queue!Sent
  <2> QED
    BY <2>5, <2>6 DEF QueueStep, Queue!Next
<1> QED
  BY <1>7, <1>8

(* One input moves: the queues of other steps rest, and where the inputs of *)
(* its own step are follows from its phases.                                *)
Moves(j, p) ==
    /\ phase[j] # "none" /\ phase' = [phase EXCEPT ![j] = p]
    /\ UNCHANGED <<issued, job, wired>>

LEMMA OthersRest ==
    ASSUME TypeInv, TypeInv', NEW j \in Jobs, NEW p \in Phases, Moves(j, p), NEW s,
           job[j].step # s
    PROVE  QueueStep(s)
<1>1. \A P : InPhase(s, P)' = InPhase(s, P)
  BY OneMoves DEF Moves
<1> HIDE DEF InPhase
<1> QED
  BY <1>1, RestIsStep DEF QueueRests, Waiting, AtHand, Over, Gone, Moves

LEMMA OwnMoves ==
    ASSUME TypeInv, TypeInv', NEW j \in Jobs, NEW p \in Phases, Moves(j, p), NEW s,
           job[j].step = s
    PROVE  /\ Waiting(s)' = IF p = "queued" THEN Waiting(s) \cup {j} ELSE Waiting(s) \ {j}
           /\ AtHand(s)' = IF p = "running" THEN AtHand(s) \cup {j} ELSE AtHand(s) \ {j}
           /\ Over(s)' = IF p \in {"acked", "reported", "dropped"}
                         THEN Over(s) \cup {j} ELSE Over(s) \ {j}
           /\ Gone(s)' = IF p = "lost" THEN Gone(s) \cup {j} ELSE Gone(s) \ {j}
           /\ j \in Waiting(s) <=> phase[j] = "queued"
           /\ j \in AtHand(s) <=> phase[j] = "running"
           /\ j \in Over(s) <=> phase[j] \in {"acked", "reported", "dropped"}
           /\ j \in Gone(s) <=> phase[j] = "lost"
<1>1. \A P : InPhase(s, P)' = IF p \in P THEN InPhase(s, P) \cup {j} ELSE InPhase(s, P) \ {j}
  BY OneMoves DEF Moves
<1>2. j <= issued
  BY DEF Moves, TypeInv, IssuedOnly
<1>3. \A P : j \in InPhase(s, P) <=> phase[j] \in P
  BY <1>2, InPhaseMembers
<1> HIDE DEF InPhase
<1>4. /\ Waiting(s)' = IF p = "queued" THEN Waiting(s) \cup {j} ELSE Waiting(s) \ {j}
      /\ j \in Waiting(s) <=> phase[j] = "queued"
  <2>1. /\ InPhase(s, {"queued"})' = IF p \in {"queued"} THEN InPhase(s, {"queued"}) \cup {j}
                                    ELSE InPhase(s, {"queued"}) \ {j}
        /\ j \in InPhase(s, {"queued"}) <=> phase[j] \in {"queued"}
    BY <1>1, <1>3
  <2>2. \A q : q \in {"queued"} <=> q = "queued"
    OBVIOUS
  <2> HIDE DEF Moves
  <2> QED
    BY <2>1, <2>2 DEF Waiting
<1>5. /\ AtHand(s)' = IF p = "running" THEN AtHand(s) \cup {j} ELSE AtHand(s) \ {j}
      /\ j \in AtHand(s) <=> phase[j] = "running"
  <2>1. /\ InPhase(s, {"running"})' = IF p \in {"running"} THEN InPhase(s, {"running"}) \cup {j}
                                    ELSE InPhase(s, {"running"}) \ {j}
        /\ j \in InPhase(s, {"running"}) <=> phase[j] \in {"running"}
    BY <1>1, <1>3
  <2>2. \A q : q \in {"running"} <=> q = "running"
    OBVIOUS
  <2> HIDE DEF Moves
  <2> QED
    BY <2>1, <2>2 DEF AtHand
<1>6. /\ Over(s)' = IF p \in {"acked", "reported", "dropped"}
                    THEN Over(s) \cup {j} ELSE Over(s) \ {j}
      /\ j \in Over(s) <=> phase[j] \in {"acked", "reported", "dropped"}
  BY <1>1, <1>3 DEF Over
<1>7. /\ Gone(s)' = IF p = "lost" THEN Gone(s) \cup {j} ELSE Gone(s) \ {j}
      /\ j \in Gone(s) <=> phase[j] = "lost"
  <2>1. /\ InPhase(s, {"lost"})' = IF p \in {"lost"} THEN InPhase(s, {"lost"}) \cup {j}
                                    ELSE InPhase(s, {"lost"}) \ {j}
        /\ j \in InPhase(s, {"lost"}) <=> phase[j] \in {"lost"}
    BY <1>1, <1>3
  <2>2. \A q : q \in {"lost"} <=> q = "lost"
    OBVIOUS
  <2> HIDE DEF Moves
  <2> QED
    BY <2>1, <2>2 DEF Gone
<1> QED
  BY <1>4, <1>5, <1>6, <1>7

(* Sending an input, directly or when its rebound is over.                  *)
LEMMA QueueSend ==
    ASSUME TypeInv, TypeInv', NEW j \in Jobs, NEW s, job[j].step = s,
           phase[j] \in {"owed", "rebounding"}, Moves(j, Delivered(j))
    PROVE  QueueStep(s)
<1>1. Delivered(j) = IF FlowOf[s] \in wired THEN "queued" ELSE "lost"
  BY DEF Delivered
<1>2. Delivered(j) \in Phases
  BY DeliveredType
<1>3. /\ Waiting(s)' = IF Delivered(j) = "queued" THEN Waiting(s) \cup {j} ELSE Waiting(s) \ {j}
      /\ AtHand(s)' = AtHand(s) \ {j} /\ Over(s)' = Over(s) \ {j}
      /\ Gone(s)' = IF Delivered(j) = "lost" THEN Gone(s) \cup {j} ELSE Gone(s) \ {j}
      /\ j \notin Waiting(s) /\ j \notin AtHand(s) /\ j \notin Over(s) /\ j \notin Gone(s)
  BY <1>1, <1>2, OwnMoves
<1>4. UNCHANGED wired
  BY DEF Moves
<1> HIDE DEF InPhase, Delivered
<1>5. Queue(s)!Enqueue({j})
  <2>1. CASE FlowOf[s] \in wired
    BY <1>1, <1>3, <1>4, <2>1 DEF Waiting, Gone, Queue!Enqueue
  <2>2. CASE FlowOf[s] \notin wired
    BY <1>1, <1>3, <1>4, <2>2 DEF Waiting, Gone, Queue!Enqueue
  <2> QED
    BY <2>1, <2>2
<1>6. j \notin Queue(s)!Sent
  BY <1>3 DEF Waiting, AtHand, Over, Gone, Queue!Sent
<1>7. AtHand(s)' = AtHand(s) /\ Over(s)' = Over(s)
  BY <1>3
<1>8. Queue(s)!Send(j)
  BY <1>5, <1>6, <1>7 DEF AtHand, Over, Queue!Send
<1> QED
  BY <1>8 DEF QueueStep, Queue!Next

LEMMA QueueTake ==
    ASSUME TypeInv, TypeInv', NEW j \in Jobs, NEW s, job[j].step = s, TakeJob(j)
    PROVE  QueueStep(s)
<1>1. Moves(j, "running") /\ phase[j] = "queued" /\ "running" \in Phases
  BY DEF TakeJob, Moves, Phases
<1>2. /\ Waiting(s)' = Waiting(s) \ {j} /\ AtHand(s)' = AtHand(s) \cup {j}
      /\ Over(s)' = Over(s) \ {j} /\ Gone(s)' = Gone(s) \ {j}
      /\ j \in Waiting(s) /\ j \notin Over(s) /\ j \notin Gone(s)
  BY <1>1, OwnMoves
<1>3. Cardinality(AtHand(s)) < Prefetch
  <2>1. \A i : i \in AtHand(s) <=> i \in Jobs /\ phase[i] = "running" /\ job[i].step = s
    BY InPhaseMembers DEF AtHand, TypeInv, IssuedOnly
  <2>2. AtHand(s) = {i \in Jobs : phase[i] = "running" /\ job[i].step = job[j].step}
    BY <2>1
  <2> QED
    BY <2>2 DEF TakeJob
<1>4. UNCHANGED wired
  BY <1>1 DEF Moves
<1>5. Over(s)' = Over(s) /\ Gone(s)' = Gone(s)
  BY <1>2
<1> HIDE DEF InPhase
<1>6. Queue(s)!Take(j)
  BY <1>2, <1>3, <1>4, <1>5 DEF Waiting, AtHand, Over, Gone, Queue!Take, Queue!Cardinality, Cardinality
<1> QED
  BY <1>6 DEF QueueStep, Queue!Next

LEMMA QueueSettle ==
    ASSUME TypeInv, TypeInv', NEW j \in Jobs, NEW s, job[j].step = s, End(j) \/ DropInput(j)
    PROVE  QueueStep(s)
<1>1. PICK p \in {"acked", "dropped"} : Moves(j, p) /\ p \in Phases
  BY DEF End, DropInput, Moves, Phases
<1>2. phase[j] = "running"
  BY DEF End, DropInput
<1>3. /\ Waiting(s)' = Waiting(s) \ {j} /\ AtHand(s)' = AtHand(s) \ {j}
      /\ Over(s)' = Over(s) \cup {j} /\ Gone(s)' = Gone(s) \ {j}
      /\ j \in AtHand(s) /\ j \notin Waiting(s) /\ j \notin Gone(s)
  BY <1>1, <1>2, OwnMoves
<1>4. UNCHANGED wired
  BY <1>1 DEF Moves
<1> HIDE DEF InPhase
<1>5. Queue(s)!Settle(j)
  BY <1>3, <1>4 DEF Waiting, AtHand, Over, Gone, Queue!Settle
<1> QED
  BY <1>5 DEF QueueStep, Queue!Next

(* Reporting is no matter of the queue.                                     *)
LEMMA QueueReport ==
    ASSUME TypeInv, TypeInv', NEW j \in Jobs, NEW s, job[j].step = s,
           SendFunctionComplete(j) \/ PublishGivesUp(j)
    PROVE  QueueStep(s)
<1>1. PICK p \in {"reported", "dropped"} : Moves(j, p) /\ p \in Phases
  BY DEF SendFunctionComplete, PublishGivesUp, Moves, Phases
<1>2. phase[j] = "acked"
  BY DEF SendFunctionComplete, PublishGivesUp
<1>3. /\ Waiting(s)' = Waiting(s) \ {j} /\ AtHand(s)' = AtHand(s) \ {j}
      /\ Over(s)' = Over(s) \cup {j} /\ Gone(s)' = Gone(s) \ {j}
      /\ j \in Over(s) /\ j \notin Waiting(s) /\ j \notin AtHand(s) /\ j \notin Gone(s)
  BY <1>1, <1>2, OwnMoves
<1> HIDE DEF InPhase
<1>4. QueueRests(s)
  BY <1>1, <1>3 DEF QueueRests, Moves
<1> QED
  BY <1>4, RestIsStep

(* The jobs of a component and the inputs of its step.                      *)
LEMMA QueueJob ==
    ASSUME TypeInv, TypeInv', WaitsWired, NEW j \in Jobs, NEW s,
           ExecuteStep(j) \/ RunJob(j) \/ DropInput(j) \/ PublishGivesUp(j)
    PROVE  QueueStep(s)
<1>1. ReboundReturns(j) => Delivered(j) = "queued"
  BY DEF ReboundReturns, WaitsWired, Delivered
<1>2. ExecuteStep(j) \/ ReboundReturns(j) =>
          Moves(j, Delivered(j)) /\ phase[j] \in {"owed", "rebounding"}
  BY <1>1 DEF ExecuteStep, ReboundReturns, Moves
<1>3. \E p \in Phases : Moves(j, p)
  BY DeliveredType DEF ExecuteStep, RunJob, TakeJob, End, SendFunctionComplete,
     ReboundReturns, DropInput, PublishGivesUp, Moves, Phases
<1>4. CASE job[j].step # s
  BY <1>3, <1>4, OthersRest
<1>5. CASE job[j].step = s /\ (ExecuteStep(j) \/ ReboundReturns(j))
  BY <1>2, <1>5, QueueSend
<1>6. CASE job[j].step = s /\ TakeJob(j)
  BY <1>6, QueueTake
<1>7. CASE job[j].step = s /\ (End(j) \/ DropInput(j))
  BY <1>7, QueueSettle
<1>8. CASE job[j].step = s /\ (SendFunctionComplete(j) \/ PublishGivesUp(j))
  BY <1>8, QueueReport
<1> QED
  BY <1>4, <1>5, <1>6, <1>7, <1>8 DEF RunJob

(* A component dies: its queue gets back what it had at hand.               *)
LEMMA QueueCrash ==
    ASSUME TypeInv, TypeInv', NEW c \in Steps, ComponentCrash(c), NEW s
    PROVE  QueueStep(s)
<1>1. \A P, j : j \in InPhase(s, P) <=>
          j \in Jobs /\ j <= issued /\ job[j].step = s /\ phase[j] \in P
  BY InPhaseMembers
<1>2. \A P, j : j \in InPhase(s, P)' <=>
          j \in Jobs /\ j <= issued' /\ job'[j].step = s /\ phase'[j] \in P
  BY InPhaseMembersNext
<1>3. UNCHANGED <<wired, issued, job>>
  BY DEF ComponentCrash
<1>4. \A j \in Jobs : phase'[j] = IF j <= issued /\ job[j].step = c THEN Interrupted(j) ELSE phase[j]
  BY DEF ComponentCrash
<1> HIDE DEF InPhase, Jobs
<1>5. CASE s # c
  <2>1. \A P, j : j \in InPhase(s, P)' <=> j \in InPhase(s, P)
    BY <1>1, <1>2, <1>3, <1>4, <1>5
  <2>2. \A P : InPhase(s, P)' = InPhase(s, P)
    BY <2>1
  <2> QED
    BY <1>3, <2>2, RestIsStep DEF QueueRests, Waiting, AtHand, Over, Gone
<1>6. CASE s = c
  <2>1. \A j \in Jobs : j <= issued /\ job[j].step = s => phase'[j] = Interrupted(j)
    BY <1>4, <1>6
  <2>2. \A j \in Jobs : job[j].step = s =>
           Delivered(j) = IF FlowOf[s] \in wired THEN "queued" ELSE "lost"
    BY DEF Delivered
  <2> HIDE DEF Delivered
  <2>3. AtHand(s)' = {}
    <3>1. \A j : j \notin AtHand(s)'
      BY <1>2, <1>3, <2>1, <2>2 DEF AtHand, Interrupted
    <3> QED
      BY <3>1
  <2>4. Over(s)' = Over(s)
    <3>1. \A j : j \in Over(s)' <=> j \in Over(s)
      BY <1>1, <1>2, <1>3, <2>1, <2>2 DEF Over, Interrupted
    <3> QED
      BY <3>1
  <2>5. CASE FlowOf[s] \in wired
    <3>1. \A j : j \in Waiting(s)' <=> j \in Waiting(s) \/ j \in AtHand(s)
      BY <1>1, <1>2, <1>3, <2>1, <2>2, <2>5 DEF Waiting, AtHand, Interrupted
    <3>2. \A j : j \in Gone(s)' <=> j \in Gone(s)
      BY <1>1, <1>2, <1>3, <2>1, <2>2, <2>5 DEF Gone, Interrupted
    <3>3. Waiting(s)' = Waiting(s) \cup AtHand(s) /\ Gone(s)' = Gone(s)
      BY <3>1, <3>2
    <3> QED
      BY <1>3, <2>3, <2>4, <2>5, <3>3
         DEF QueueStep, Waiting, AtHand, Over, Gone, Queue!Next, Queue!GiveBack, Queue!Enqueue
  <2>6. CASE FlowOf[s] \notin wired
    <3>1. \A j : j \in Waiting(s)' <=> j \in Waiting(s)
      BY <1>1, <1>2, <1>3, <2>1, <2>2, <2>6 DEF Waiting, Interrupted
    <3>2. \A j : j \in Gone(s)' <=> j \in Gone(s) \/ j \in AtHand(s)
      BY <1>1, <1>2, <1>3, <2>1, <2>2, <2>6 DEF Gone, AtHand, Interrupted
    <3>3. Waiting(s)' = Waiting(s) /\ Gone(s)' = Gone(s) \cup AtHand(s)
      BY <3>1, <3>2
    <3> QED
      BY <1>3, <2>3, <2>4, <2>6, <3>3
         DEF QueueStep, Waiting, AtHand, Over, Gone, Queue!Next, Queue!GiveBack, Queue!Enqueue
  <2> QED
    BY <2>5, <2>6
<1> QED
  BY <1>5, <1>6

(* The orchestrator dies: what it was about to send is lost.                *)
LEMMA QueueOrchestratorCrash ==
    ASSUME TypeInv, TypeInv', OrchestratorCrash, NEW s
    PROVE  QueueStep(s)
<1>1. \A P, j : j \in InPhase(s, P) <=>
          j \in Jobs /\ j <= issued /\ job[j].step = s /\ phase[j] \in P
  BY InPhaseMembers
<1>2. \A P, j : j \in InPhase(s, P)' <=>
          j \in Jobs /\ j <= issued' /\ job'[j].step = s /\ phase'[j] \in P
  BY InPhaseMembersNext
<1>3. UNCHANGED <<wired, issued, job>>
  BY DEF OrchestratorCrash
<1>4. \A j \in Jobs : phase'[j] = IF phase[j] = "owed" THEN "lost" ELSE phase[j]
  BY DEF OrchestratorCrash
<1> HIDE DEF InPhase, Jobs
<1>5. PICK owed : owed = InPhase(s, {"owed"})
  OBVIOUS
<1>6. ASSUME NEW P, "owed" \notin P, "lost" \notin P PROVE InPhase(s, P)' = InPhase(s, P)
  <2>1. \A j : j \in InPhase(s, P)' <=> j \in InPhase(s, P)
    BY <1>1, <1>2, <1>3, <1>4, <1>6
  <2> QED
    BY <2>1
<1>7. Waiting(s)' = Waiting(s) /\ AtHand(s)' = AtHand(s) /\ Over(s)' = Over(s)
  BY <1>6 DEF Waiting, AtHand, Over
<1>8. Gone(s)' = Gone(s) \cup owed
  <2>1. \A j : j \in Gone(s)' <=> j \in Gone(s) \/ j \in owed
    BY <1>1, <1>2, <1>3, <1>4, <1>5 DEF Gone
  <2> QED
    BY <2>1
<1>9. owed \cap (Waiting(s) \cup AtHand(s) \cup Over(s) \cup Gone(s)) = {}
  BY <1>1, <1>5 DEF Waiting, AtHand, Over, Gone
<1>10. owed \in SUBSET Jobs
  BY <1>1, <1>5
<1>11. Queue(s)!LoseUnsent(owed)
  BY <1>3, <1>7, <1>8, <1>9 DEF Waiting, AtHand, Over, Gone, Queue!LoseUnsent, Queue!Sent
<1> QED
  BY <1>10, <1>11 DEF QueueStep, Queue!Next

(* A stop deletes the queues of its flow and those of their rebounds.       *)
LEMMA QueueDelete ==
    ASSUME TypeInv, TypeInv', NEW f \in Flows, DeleteQueues(f), NEW s
    PROVE  QueueStep(s)
<1>1. \A P, j : j \in InPhase(s, P) <=>
          j \in Jobs /\ j <= issued /\ job[j].step = s /\ phase[j] \in P
  BY InPhaseMembers
<1>2. \A P, j : j \in InPhase(s, P)' <=>
          j \in Jobs /\ j <= issued' /\ job'[j].step = s /\ phase'[j] \in P
  BY InPhaseMembersNext
<1>3. UNCHANGED <<issued, job>> /\ f \in wired /\ wired' = wired \ {f}
  BY DEF DeleteQueues
<1>4. \A j \in Jobs : phase'[j] =
          IF phase[j] \in {"queued", "rebounding"} /\ FlowOf[job[j].step] = f
          THEN "lost" ELSE phase[j]
  BY DEF DeleteQueues
<1> HIDE DEF InPhase, Jobs
<1>5. CASE FlowOf[s] # f
  <2>1. \A P, j : j \in InPhase(s, P)' <=> j \in InPhase(s, P)
    BY <1>1, <1>2, <1>3, <1>4, <1>5
  <2>2. \A P : InPhase(s, P)' = InPhase(s, P)
    BY <2>1
  <2>3. (FlowOf[s] \in wired') <=> (FlowOf[s] \in wired)
    BY <1>3, <1>5
  <2> QED
    BY <2>2, <2>3 DEF QueueStep, Queue!vars
<1>6. CASE FlowOf[s] = f
  <2>1. \A j \in Jobs : job[j].step = s => 
           phase'[j] = IF phase[j] \in {"queued", "rebounding"} THEN "lost" ELSE phase[j]
    BY <1>4, <1>6
  <2>2. PICK away : away = InPhase(s, {"rebounding"})
    OBVIOUS
  <2>3. Waiting(s)' = {}
    <3>1. \A j : j \notin Waiting(s)'
      BY <1>2, <1>3, <2>1 DEF Waiting
    <3> QED
      BY <3>1
  <2>4. ASSUME NEW P, "queued" \notin P, "rebounding" \notin P, "lost" \notin P
        PROVE  InPhase(s, P)' = InPhase(s, P)
    <3>1. \A j : j \in InPhase(s, P)' <=> j \in InPhase(s, P)
      BY <1>1, <1>2, <1>3, <2>1, <2>4
    <3> QED
      BY <3>1
  <2>5. AtHand(s)' = AtHand(s) /\ Over(s)' = Over(s)
    BY <2>4 DEF AtHand, Over
  <2>6. Gone(s)' = Gone(s) \cup Waiting(s) \cup away
    <3>1. \A j : j \in Gone(s)' <=> j \in Gone(s) \/ j \in Waiting(s) \/ j \in away
      BY <1>1, <1>2, <1>3, <2>1, <2>2 DEF Gone, Waiting
    <3> QED
      BY <3>1
  <2>7. away \cap (Waiting(s) \cup AtHand(s) \cup Over(s) \cup Gone(s)) = {}
    BY <1>1, <2>2 DEF Waiting, AtHand, Over, Gone
  <2>8. away \in SUBSET Jobs
    BY <1>1, <2>2
  <2>9. FlowOf[s] \in wired /\ FlowOf[s] \notin wired'
    BY <1>3, <1>6
  <2>10. Queue(s)!Delete(away)
    BY <2>3, <2>5, <2>6, <2>7, <2>9 DEF Waiting, AtHand, Over, Gone, Queue!Delete, Queue!Sent
  <2> QED
    BY <2>8, <2>10 DEF QueueStep, Queue!Next
<1> QED
  BY <1>5, <1>6

LEMMA WaitsIssue ==
    ASSUME TypeInv, TypeInv', WaitsWired, NEW p \in {"owed", "lost"}, IssuesAt(p), UNCHANGED wired
    PROVE  WaitsWired'
<1>1. \A j \in Jobs : phase'[j] \in {"queued", "rebounding"} => j <= issued'
  BY DEF TypeInv, IssuedOnly
<1>2. \A j \in Jobs : j <= issued \/ j > issued
  BY JobsAreNat, LimitAssumption DEF TypeInv, TypeOK
<1> HIDE DEF Jobs
<1> QED
  BY <1>1, <1>2 DEF IssuesAt, WaitsWired

LEMMA WaitsRebound ==
    ASSUME TypeInv, TypeInv', WaitsWired, NEW i \in Jobs, Rebound(i)
    PROVE  WaitsWired'
<1>1. IssuesAt(Rebounded(i)) /\ UNCHANGED wired
  BY IssuingIssues
<1>2. \A j \in Jobs : j <= issued' => Stays(j) \/ (j > issued /\ job'[j].step = job[i].step)
  BY ReboundMakes
<1>3. \A j \in Jobs : phase'[j] \in {"queued", "rebounding"} => j <= issued'
  BY DEF TypeInv, IssuedOnly
<1>4. Rebounded(i) \in {"queued", "rebounding"} => FlowOf[job[i].step] \in wired
  BY DEF Rebounded
<1> HIDE DEF Jobs
<1> SUFFICES ASSUME NEW j \in Jobs, phase'[j] \in {"queued", "rebounding"}
             PROVE  FlowOf[job'[j].step] \in wired
  BY <1>1 DEF WaitsWired
<1>5. CASE Stays(j)
  BY <1>1, <1>5 DEF IssuesAt, Stays, WaitsWired
<1>6. CASE j > issued /\ job'[j].step = job[i].step
  BY <1>1, <1>3, <1>4, <1>6 DEF IssuesAt
<1> QED
  BY <1>2, <1>3, <1>5, <1>6

LEMMA WaitsInit == Init => WaitsWired
  BY DEF Init, WaitsWired

LEMMA WaitsStep == TypeInv /\ TypeInv' /\ WaitsWired /\ [Next]_vars => WaitsWired'
<1> SUFFICES ASSUME TypeInv, TypeInv', WaitsWired, [Next]_vars PROVE WaitsWired'
  OBVIOUS
<1>t. phase \in [Jobs -> Phases]
  BY DEF TypeInv, TypeOK
<1>1. CASE UNCHANGED <<wired, job, phase>>
  BY <1>1 DEF WaitsWired
<1>2. ASSUME NEW t \in Triggers, CreateExecution(t) PROVE WaitsWired'
  BY <1>2, IssuingIssues, WaitsIssue
<1>3. ASSUME NEW m \in Messages, UpsertCount(m) PROVE WaitsWired'
  BY <1>3, IssuingIssues, WaitsIssue
<1>4. ASSUME NEW i \in Jobs, Rebound(i) PROVE WaitsWired'
  BY <1>4, WaitsRebound
<1>5. ASSUME NEW i \in Jobs, ExecuteStep(i) \/ RunJob(i) \/ DropInput(i) \/ PublishGivesUp(i)
      PROVE  WaitsWired'
  <2>1. UNCHANGED <<wired, job>>
    BY <1>5 DEF ExecuteStep, RunJob, TakeJob, End, SendFunctionComplete, ReboundReturns,
       DropInput, PublishGivesUp
  <2>2. PICK p : phase' = [phase EXCEPT ![i] = p] /\
                    (p \in {"queued", "rebounding"} => FlowOf[job[i].step] \in wired)
    BY <1>5 DEF ExecuteStep, RunJob, TakeJob, End, SendFunctionComplete, ReboundReturns,
       DropInput, PublishGivesUp, Delivered, WaitsWired
  <2> QED
    BY <1>t, <2>1, <2>2 DEF WaitsWired
<1>6. ASSUME NEW c \in Steps, ComponentCrash(c) PROVE WaitsWired'
  BY <1>6 DEF ComponentCrash, Interrupted, Delivered, WaitsWired
<1>7. CASE OrchestratorCrash
  BY <1>7 DEF OrchestratorCrash, WaitsWired
<1>8. ASSUME NEW f \in Flows, DeleteQueues(f) PROVE WaitsWired'
  BY <1>8 DEF DeleteQueues, WaitsWired
<1>9. \/ UNCHANGED <<wired, job, phase>>
      \/ \E t \in Triggers : CreateExecution(t)
      \/ \E m \in Messages : UpsertCount(m)
      \/ \E j \in Jobs : Rebound(j)
      \/ \E j \in Jobs : ExecuteStep(j) \/ RunJob(j) \/ DropInput(j) \/ PublishGivesUp(j)
      \/ \E c \in Steps : ComponentCrash(c)
      \/ \E f \in Flows : DeleteQueues(f)
      \/ OrchestratorCrash
  BY DEF Next, HandleTrigger, Handle, Publish, FindFlow, CreateFails, AckTrigger, EmitData,
     HandleMessage, DuplicateKey, FinishMessage, PurgeSnapshots, ForgetFlow
<1> QED
  BY <1>1, <1>2, <1>3, <1>4, <1>5, <1>6, <1>7, <1>8, <1>9

LEMMA QueuesBegin == Init => \A s \in Steps : Queue(s)!Init
<1> SUFFICES ASSUME Init, NEW s \in Steps PROVE Queue(s)!Init
  OBVIOUS
<1>1. \A P : InPhase(s, P) = {}
  BY LimitAssumption DEF Init, InPhase
<1>2. FlowOf[s] \in wired
  BY GraphAssumption DEF Init
<1> HIDE DEF InPhase
<1> QED
  BY <1>1, <1>2, LimitAssumption DEF Queue!Init

LEMMA QueuesStep ==
    TypeInv /\ TypeInv' /\ WaitsWired /\ [Next]_vars => \A s \in Steps : QueueStep(s)
<1> SUFFICES ASSUME TypeInv, TypeInv', WaitsWired, [Next]_vars, NEW s \in Steps PROVE QueueStep(s)
  OBVIOUS
<1>1. CASE UNCHANGED <<wired, issued, job, phase>>
  BY <1>1, RestIsStep DEF QueueRests, Waiting, AtHand, Over, Gone, InPhase
<1>2. ASSUME NEW t \in Triggers, CreateExecution(t) PROVE QueueStep(s)
  BY <1>2, IssuingIssues, QueueIssue
<1>3. ASSUME NEW m \in Messages, UpsertCount(m) PROVE QueueStep(s)
  BY <1>3, IssuingIssues, QueueIssue
<1>4. ASSUME NEW i \in Jobs, Rebound(i) PROVE QueueStep(s)
  BY <1>4, IssuingIssues, QueueIssue DEF Rebounded
<1>5. ASSUME NEW i \in Jobs, ExecuteStep(i) \/ RunJob(i) \/ DropInput(i) \/ PublishGivesUp(i)
      PROVE  QueueStep(s)
  BY <1>5, QueueJob
<1>6. ASSUME NEW c \in Steps, ComponentCrash(c) PROVE QueueStep(s)
  BY <1>6, QueueCrash
<1>7. CASE OrchestratorCrash
  BY <1>7, QueueOrchestratorCrash
<1>8. ASSUME NEW f \in Flows, DeleteQueues(f) PROVE QueueStep(s)
  BY <1>8, QueueDelete
<1>9. \/ UNCHANGED <<wired, issued, job, phase>>
      \/ \E t \in Triggers : CreateExecution(t)
      \/ \E m \in Messages : UpsertCount(m)
      \/ \E j \in Jobs : Rebound(j)
      \/ \E j \in Jobs : ExecuteStep(j) \/ RunJob(j) \/ DropInput(j) \/ PublishGivesUp(j)
      \/ \E c \in Steps : ComponentCrash(c)
      \/ \E f \in Flows : DeleteQueues(f)
      \/ OrchestratorCrash
  BY DEF Next, HandleTrigger, Handle, Publish, FindFlow, CreateFails, AckTrigger, EmitData,
     HandleMessage, DuplicateKey, FinishMessage, PurgeSnapshots, ForgetFlow
<1> QED
  BY <1>1, <1>2, <1>3, <1>4, <1>5, <1>6, <1>7, <1>8, <1>9

(* Whatever crashes, is rebounded or is stopped, the inputs of every step   *)
(* pass through a queue as InputQueue says: FlowExecution implements one    *)
(* for each step.                                                           *)
THEOREM InputsAreQueuedHolds == Spec => InputsAreQueued
<1>1. TypeInv /\ TypeInv' /\ WaitsWired /\ [Next]_vars =>
          [\A s \in Steps : [Queue(s)!Next]_(Queue(s)!vars)]_vars
  BY QueuesStep DEF QueueStep
<1>2. Init => \A s \in Steps : Queue(s)!Init
  BY QueuesBegin
<1> QED
  BY <1>1, <1>2, InitTypes, StepTypes, WaitsInit, WaitsStep, PTL DEF Spec, InputsAreQueued
=============================================================================
