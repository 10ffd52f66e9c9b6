----------------------------- MODULE StepProcess -----------------------------
(***************************************************************************)
(* The process of a component: runGlobal.js starts a ferryman, which        *)
(* consumes inputs with a prefetch, and ends it gracefully on a signal.     *)
(* processMessage awaits services before it counts an input in              *)
(* messagesCount and calls the component; the shutdown looks at that        *)
(* count.  The fields of an input's token (nodeSettings, flowId, tenant)    *)
(* are kept in the ferryman itself, one set for all inputs.                 *)
(***************************************************************************)
EXTENDS Integers, FiniteSets

CONSTANTS
    Inputs,        \* messages for the component's queue
    Unmarked,      \* inputs without a readable orchestratorToken
    Prefetches,    \* values of RABBITMQ_PREFETCH_SAILOR to consider
    MaxSignals,    \* bound: SIGTERM and SIGINT received by one process
    MaxStarts      \* bound: processes started one after the other

ASSUME StepAssumption ==
    /\ Unmarked \subseteq Inputs
    /\ Prefetches \subseteq Nat \ {0}
    /\ MaxSignals \in Nat /\ MaxStarts \in Nat

VARIABLES
    proc,        \* the process
    prefetch,    \* RABBITMQ_PREFETCH_SAILOR
    consuming,   \* RabbitMQ has the consumer of the process
    open,        \* the subscribe channel is open
    scheduling,  \* calls of scheduleShutdown that wait for listenQueueCancel
    callback,    \* shutdownCallback is set
    messagesCount,
    fields,      \* the input whose token is in this.nodeSettings, this.flowId ...
    input,       \* input[m]: where m is for RabbitMQ, and processMessage(m)
    signals, starts,
    leaked,      \* history: loading a module failed in this process
    preparing,   \* history: inputs in preparation when the shutdown was decided
    mixed        \* history: inputs prepared with the fields of another

processVars == <<proc, consuming, open, scheduling, callback>>
StepVars == <<processVars, prefetch, messagesCount, fields, input, signals, starts,
              leaked, preparing, mixed>>

None == "none"
Whereabouts == {"queued", "unsettled", "settled"}

(* taken: before the awaits of the policies and of getIdMeta; counted: after *)
(* messagesCount += 1; executing: in the component; ended: endWasEmitted.   *)
Works == {"none", "taken", "counted", "executing", "ended"}

StepTypeOK ==
    /\ proc \in {"off", "booting", "up", "closing"}
    /\ prefetch \in Prefetches
    /\ consuming \in BOOLEAN /\ open \in BOOLEAN /\ callback \in BOOLEAN
    /\ scheduling \in 0 .. MaxSignals
    /\ messagesCount \in Int
    /\ fields \in Inputs \cup {None}
    /\ input \in [Inputs -> [at : Whereabouts, work : Works]]
    /\ signals \in 0 .. MaxSignals /\ starts \in 0 .. MaxStarts
    /\ leaked \in BOOLEAN /\ preparing \subseteq Inputs /\ mixed \subseteq Inputs

StepInit ==
    /\ proc = "off" /\ consuming = FALSE /\ open = FALSE /\ scheduling = 0 /\ callback = FALSE
    /\ prefetch \in Prefetches /\ messagesCount = 0 /\ fields = None
    /\ input = [m \in Inputs |-> [at |-> "queued", work |-> "none"]]
    /\ signals = 0 /\ starts \in 0 .. MaxStarts /\ leaked = FALSE /\ preparing = {} /\ mixed = {}

InWork(work) == {m \in Inputs : input[m].work = work}
Unsettled == {m \in Inputs : input[m].at = "unsettled"}

(* A closed channel gives its unsettled inputs back to the queue.           *)
Returned == [m \in Inputs |-> IF m \in Unsettled THEN [input[m] EXCEPT !.at = "queued"] ELSE input[m]]

----------------------------------------------------------------------------
(* The process.                                                            *)

(* The deployment starts a process; ferryman is constructed and             *)
(* disconnectRequired set before the event loop sees a signal.              *)
Boot ==
    /\ proc = "off" /\ starts < MaxStarts
    /\ proc' = "booting" /\ starts' = starts + 1 /\ signals' = 0
    /\ messagesCount' = 0 /\ fields' = None /\ leaked' = FALSE /\ preparing' = {} /\ mixed' = {}
    /\ UNCHANGED <<prefetch, consuming, open, scheduling, callback, input>>

(* connect, prepare and run: listenQueue.  One that comes after the shutdown *)
(* was decided finds its channel closed or about to be.                     *)
Listen ==
    /\ proc = "booting"
    /\ proc' = "up" /\ consuming' = TRUE /\ open' = TRUE
    /\ UNCHANGED <<prefetch, scheduling, callback, messagesCount, fields, input, signals, starts,
                   leaked, preparing, mixed>>

(* Slip: a second signal drops the shutdown that is scheduled.              *)
SignalForgets ==
    /\ proc \in {"booting", "up"} /\ signals < MaxSignals
    /\ signals' = signals + 1
    /\ scheduling' = IF callback THEN scheduling ELSE scheduling + 1
    /\ callback' = FALSE
    /\ UNCHANGED <<proc, consuming, open, prefetch, messagesCount, fields, input, starts,
                   leaked, preparing, mixed>>

(* gracefulShutdown: without disconnectRequired nothing; when a shutdown is  *)
(* scheduled the new promise takes the place of the old one.                *)
Signal ==
    /\ proc \in {"booting", "up"} /\ signals < MaxSignals
    /\ signals' = signals + 1
    /\ scheduling' = IF callback THEN scheduling ELSE scheduling + 1
    /\ UNCHANGED <<proc, consuming, open, callback, prefetch, messagesCount, fields, input, starts,
                   leaked, preparing, mixed>>

(* disconnectAndExit, the first time.                                       *)
Decide ==
    /\ proc' = "closing"
    /\ preparing' = InWork("taken")

(* scheduleShutdown after its await: at once, or when the last input ends.  *)
ConsumerCancelled ==
    /\ scheduling > 0 /\ proc # "off"
    /\ scheduling' = scheduling - 1
    /\ consuming' = FALSE
    /\ IF messagesCount = 0
       THEN /\ IF proc = "closing" THEN UNCHANGED <<proc, preparing>> ELSE Decide
            /\ UNCHANGED callback
       ELSE /\ callback' = TRUE
            /\ UNCHANGED <<proc, preparing>>
    /\ UNCHANGED <<open, prefetch, messagesCount, fields, input, signals, starts, leaked, mixed>>

(* Ferryman.disconnect.  Handlers go on until the process exits.            *)
CloseChannel ==
    /\ proc = "closing" /\ (open \/ consuming)
    /\ open' = FALSE /\ consuming' = FALSE
    /\ input' = Returned
    /\ UNCHANGED <<proc, scheduling, callback, prefetch, messagesCount, fields, signals, starts,
                   leaked, preparing, mixed>>

Gone ==
    /\ proc' = "off" /\ consuming' = FALSE /\ open' = FALSE /\ scheduling' = 0 /\ callback' = FALSE
    /\ input' = [m \in Inputs |-> [Returned[m] EXCEPT !.work = "none"]]
    /\ UNCHANGED <<prefetch, messagesCount, fields, signals, starts, leaked, preparing, mixed>>

Exit == proc = "closing" /\ ~open /\ Gone

(* A crash, a lost connection (criticalErrorAndExit) or a kill after the     *)
(* grace period.                                                            *)
Kill == proc # "off" /\ Gone

----------------------------------------------------------------------------
(* Inputs.                                                                  *)

(* Slip: the first input that ends after the signal ends the process.       *)
NoneLeftUnseen(count) == TRUE
NoneLeft(count) == count = 0

(* The finally block of processMessageAndMaybeShutdownCallback, with the     *)
(* count as the input leaves it.                                            *)
Finally(count) ==
    /\ messagesCount' = count
    /\ IF callback /\ NoneLeft(count)
       THEN /\ callback' = FALSE
            /\ IF proc = "closing" THEN UNCHANGED <<proc, preparing>> ELSE Decide
       ELSE UNCHANGED <<callback, proc, preparing>>

Settled(m) == [input EXCEPT ![m] = [at |-> IF @.at = "unsettled" /\ open THEN "settled" ELSE @.at,
                                    work |-> "none"]]

(* Slip: the input is acknowledged when it is taken.                        *)
TakeAcked(m) ==
    /\ proc # "off" /\ consuming /\ open
    /\ input[m] = [at |-> "queued", work |-> "none"]
    /\ Cardinality(Unsettled) < prefetch
    /\ input' = [input EXCEPT ![m] = [at |-> "settled", work |-> "taken"]]
    /\ fields' = m
    /\ UNCHANGED <<messagesCount, callback, proc, preparing>>
    /\ UNCHANGED <<consuming, open, scheduling, prefetch, signals, starts, leaked, mixed>>

(* processMessage until its first await: the token's fields go to `this`.   *)
(* Without a token it returns at once, and nothing settles the input.       *)
Take(m) ==
    /\ proc # "off" /\ consuming /\ open
    /\ input[m] = [at |-> "queued", work |-> "none"]
    /\ Cardinality(Unsettled) < prefetch
    /\ IF m \in Unmarked
       THEN /\ input' = [input EXCEPT ![m].at = "unsettled"]
            /\ Finally(messagesCount)
            /\ UNCHANGED fields
       ELSE /\ input' = [input EXCEPT ![m] = [at |-> "unsettled", work |-> "taken"]]
            /\ fields' = m
            /\ UNCHANGED <<messagesCount, callback, proc, preparing>>
    /\ UNCHANGED <<consuming, open, scheduling, prefetch, signals, starts, leaked, mixed>>

(* A policy blocks the input; flowPolicy is read after the first await.     *)
Block(m) ==
    /\ input[m].work = "taken"
    /\ input' = Settled(m)
    /\ Finally(messagesCount)
    /\ mixed' = IF fields = m THEN mixed ELSE mixed \cup {m}
    /\ UNCHANGED <<consuming, open, scheduling, prefetch, fields, signals, starts, leaked>>

(* After the awaits: transform with this.nodeSettings, then count.          *)
Count(m) ==
    /\ input[m].work = "taken"
    /\ input' = [input EXCEPT ![m].work = "counted"]
    /\ messagesCount' = messagesCount + 1
    /\ mixed' = IF fields = m THEN mixed ELSE mixed \cup {m}
    /\ UNCHANGED <<processVars, prefetch, fields, signals, starts, leaked, preparing>>

(* Slip: the input of a module that fails to load is not rejected.          *)
LoadFailsSilently(m) ==
    /\ input[m].work = "counted"
    /\ input' = [input EXCEPT ![m].work = "none"]
    /\ leaked' = TRUE
    /\ Finally(messagesCount)
    /\ UNCHANGED <<consuming, open, scheduling, prefetch, fields, signals, starts, mixed>>

(* Secret and snapshot fetched; the module fails to load: sendError and      *)
(* reject, but the count stays.                                             *)
LoadFails(m) ==
    /\ input[m].work = "counted"
    /\ input' = Settled(m)
    /\ leaked' = TRUE
    /\ Finally(messagesCount)
    /\ UNCHANGED <<consuming, open, scheduling, prefetch, fields, signals, starts, mixed>>

Execute(m) ==
    /\ input[m].work = "counted"
    /\ input' = [input EXCEPT ![m].work = "executing"]
    /\ UNCHANGED <<processVars, prefetch, messagesCount, fields, signals, starts, leaked, preparing, mixed>>

CountAfterEnd(m) == IF input[m].work = "ended" THEN messagesCount ELSE messagesCount - 1

(* onEnd, the first time: ack or reject, count off, and the promise of       *)
(* processMessage settles.  TaskExec emits an end after an error, which      *)
(* called onEnd already: endWasEmitted.                                     *)
End(m) ==
    /\ \/ /\ input[m].work = "executing"
          /\ input' = [Settled(m) EXCEPT ![m].work = "ended"]
          /\ Finally(CountAfterEnd(m))
       \/ /\ input[m].work = "ended"
          /\ input' = [input EXCEPT ![m].work = "none"]
          /\ messagesCount' = CountAfterEnd(m)
          /\ UNCHANGED <<callback, proc, preparing>>
    /\ UNCHANGED <<consuming, open, scheduling, prefetch, fields, signals, starts, leaked, mixed>>

Proceed(m) == Block(m) \/ Count(m) \/ LoadFails(m) \/ Execute(m) \/ End(m)
ShutdownStep == Listen \/ ConsumerCancelled \/ CloseChannel \/ Exit
StepNext ==
    \/ Boot \/ Signal \/ Kill \/ ShutdownStep
    \/ \E m \in Inputs : Take(m) \/ Proceed(m)
StepSpec == StepInit /\ [][StepNext]_StepVars

(* The component ends what it began; a deployment replaces its process.     *)
StepFairness ==
    /\ WF_StepVars(ShutdownStep) /\ WF_StepVars(Boot) /\ WF_StepVars(\E m \in Inputs : Take(m))
    /\ \A m \in Inputs : WF_StepVars(Proceed(m))

----------------------------------------------------------------------------

(* A shutdown that was decided leaves nothing behind but inputs that were    *)
(* still in preparation then and not counted: no input of which the          *)
(* component has begun is cut off by a signal.                              *)
NothingIsCutOff ==
    proc = "closing" =>
        \A m \in Inputs : input[m].work \in {"taken", "counted", "executing"} => m \in preparing

(* With a prefetch of 1, the default, an input is prepared with the settings *)
(* of its own token, though they are read from the ferryman after awaits.   *)
OwnFields == prefetch = 1 => mixed = {}

(* Across shutdowns and crashes, inputs leave their queue as InputQueue says, *)
(* of which FlowExecution is the other end.                                 *)
Rest(at) == {m \in Inputs : input[m].at = at}
Queue == INSTANCE InputQueue WITH there <- TRUE, limit <- prefetch,
    queued <- Rest("queued"), taken <- Unsettled, settled <- Rest("settled"), lost <- {}
InputsAreHandedOver == Queue!Spec

(* A process that got a signal ends, however many signals follow and         *)
(* whatever inputs it has at hand, unless a module failed to load in it.    *)
ShutdownEnds ==
    signals > 0 /\ proc # "off" ~> proc = "off" \/ leaked

(* An input is settled, by this process or a later one, unless inputs        *)
(* without a token take up the prefetch, which nobody settles, or the        *)
(* process waits in vain for the shutdown after a failed load.              *)
InputsAreSettled ==
    \A m \in Inputs \ Unmarked :
        input[m].at # "settled" ~>
            \/ input[m].at = "settled"
            \/ Cardinality(Unsettled \cap Unmarked) = prefetch
            \/ leaked /\ signals > 0
            \/ starts = MaxStarts /\ proc = "off"
=============================================================================
