------------------------------- MODULE Triggers -------------------------------
(***************************************************************************)
(* The scheduler and the webhooks service start executions of flows.  Each   *)
(* keeps a copy of the flows it is responsible for -- those with a cron      *)
(* expression, and those without -- which handlers of flow.starting,         *)
(* flow.started and flow.stopping maintain.  A handler reads the copy,       *)
(* writes it and acknowledges, with awaits in between and no prefetch that   *)
(* would keep handlers apart.  The scheduler's loop publishes an execution   *)
(* of every flow that is due and plans its next run.                        *)
(*                                                                         *)
(* Time is what makes a planned run due; the order of dates is the order in  *)
(* which the runs become due.                                               *)
(***************************************************************************)
EXTENDS Naturals, Sequences, SequencesExt

CONSTANTS
    Timed,            \* ids of flows
    Running,          \* those that run from the start
    Limit,            \* FLOWS_PER_TICK_LIMIT
    MaxMail,          \* bound: events published
    MaxTriggerFaults  \* bound: failing calls, lost publishes and crashes

ASSUME TriggerAssumption ==
    /\ Running \subseteq Timed
    /\ Limit \in Nat \ {0} /\ MaxMail \in Nat /\ MaxTriggerFaults \in Nat

VARIABLES
    service,   \* which of the two it is
    life,      \* life[f]: the last event of flow f, and whether f is the service's
    mail,      \* the events, as published, each with the progress of its handler
    copy,      \* copy[f]: none, without a date or status (starting), or with it
    overdue,   \* the flows that are due, the earliest first
    hand,      \* hand[f]: what the loop has done with flow f in this tick
    executed,  \* history: flows whose present date has had its execution
    crossed,   \* history: flows with overlapping handlers, or a dropped event
    triggerFaults

copyVars == <<copy, overdue>>
loopVars == <<hand, executed>>
TriggerVars == <<service, life, mail, copyVars, loopVars, crossed, triggerFaults>>

Copies == {"none", "starting", "started"}
MailKinds == {"starting", "started", "stopping"}
Mail == [kind : MailKinds, flow : Timed, own : BOOLEAN, found : BOOLEAN,
         pc : {"queued", "read", "written", "settled"}]

TriggerTypeOK ==
    /\ service \in {"scheduler", "webhooks"}
    /\ life \in [Timed -> [last : MailKinds, own : BOOLEAN]]
    /\ mail \in Seq(Mail) /\ Len(mail) <= MaxMail
    /\ copy \in [Timed -> Copies]
    /\ overdue \in Seq(Timed) /\ IsInjective(overdue)
    /\ hand \in [Timed -> {"no", "found", "published"}]
    /\ executed \subseteq Timed /\ crossed \subseteq Timed
    /\ triggerFaults \in 0 .. MaxTriggerFaults

TriggerInit ==
    /\ service \in {"scheduler", "webhooks"}
    /\ life = [f \in Timed |-> [last |-> IF f \in Running THEN "started" ELSE "stopping", own |-> TRUE]]
    /\ mail = <<>>
    /\ copy = [f \in Timed |-> IF f \in Running THEN "started" ELSE "none"]
    /\ overdue = <<>> /\ hand = [f \in Timed |-> "no"]
    /\ executed = {} /\ crossed = {} /\ triggerFaults = 0

TriggerFault == triggerFaults < MaxTriggerFaults /\ triggerFaults' = triggerFaults + 1

----------------------------------------------------------------------------
(* The life of the flows, as the repository and the orchestrators tell it.   *)

Follows(kind, last) ==
    \/ kind = "starting" /\ last = "stopping"
    \/ kind = "started" /\ last = "starting"
    \/ kind = "stopping" /\ last \in {"starting", "started"}

(* A flow may have got or lost its cron expression before it is started.     *)
PublishLife(f) ==
    \E kind \in MailKinds, own \in BOOLEAN :
        /\ Len(mail) < MaxMail
        /\ Follows(kind, life[f].last) /\ (kind # "starting" => own = life[f].own)
        /\ life' = [life EXCEPT ![f] = [last |-> kind, own |-> own]]
        /\ mail' = Append(mail, [kind |-> kind, flow |-> f, own |-> own, found |-> FALSE, pc |-> "queued"])
        /\ UNCHANGED <<service, copyVars, loopVars, crossed, triggerFaults>>

----------------------------------------------------------------------------
(* The handlers.                                                            *)

InHandler(f) == \E i \in DOMAIN mail : mail[i].flow = f /\ mail[i].pc \in {"read", "written"}

(* Slip: the copy of a flow that is not the service's any more stays.        *)
DeleteOneLeaves(f) == copy[f]
DeleteOne(f) == "none"

(* What deletes a copy does so at once; the others read it first.            *)
TakeMail(i) ==
    LET e == mail[i]
        f == e.flow
        deletes == e.kind = "stopping" \/ (e.kind = "starting" /\ ~e.own)
    IN
    /\ e.pc = "queued" /\ \A j \in 1 .. i - 1 : mail[j].pc # "queued"
    /\ crossed' = IF InHandler(f) \/ hand[f] # "no" THEN crossed \cup {f} ELSE crossed
    /\ \/ /\ deletes
          /\ mail' = [mail EXCEPT ![i].pc = "written"]
          /\ copy' = [copy EXCEPT ![f] = DeleteOne(f)]
          /\ overdue' = RemoveFirst(overdue, f) /\ executed' = executed \ {f}
       \/ /\ ~deletes
          /\ mail' = [mail EXCEPT ![i].pc = IF e.kind = "started" /\ copy[f] = "none" THEN "written" ELSE "read",
                                  ![i].found = copy[f] # "none"]
          /\ UNCHANGED <<copyVars, executed>>
    /\ UNCHANGED <<service, life, hand, triggerFaults>>

(* save: inserts what was not found, or updates it.  When it is there, or    *)
(* gone, in the meantime that fails, and the event is rejected for good.     *)
WriteCopy(i) ==
    LET f == mail[i].flow IN
    /\ mail[i].pc = "read"
    /\ IF mail[i].found = (copy[f] # "none")
       THEN /\ mail' = [mail EXCEPT ![i].pc = "written"]
            /\ copy' = [copy EXCEPT ![f] = mail[i].kind]
            /\ overdue' = RemoveFirst(overdue, f)
            /\ executed' = executed \ {f}
       ELSE /\ mail' = [mail EXCEPT ![i].pc = "settled"]
            /\ UNCHANGED <<copyVars, executed>>
    /\ UNCHANGED <<service, life, hand, crossed, triggerFaults>>

Acknowledge(i) ==
    /\ mail[i].pc = "written"
    /\ mail' = [mail EXCEPT ![i].pc = "settled"]
    /\ UNCHANGED <<service, life, copyVars, loopVars, crossed, triggerFaults>>

(* The database fails: nack, without requeue.                               *)
HandlerFails(i) ==
    /\ mail[i].pc \in {"queued", "read"} /\ \A j \in 1 .. i - 1 : mail[j].pc # "queued"
    /\ TriggerFault
    /\ mail' = [mail EXCEPT ![i].pc = "settled"]
    /\ crossed' = crossed \cup {mail[i].flow}
    /\ UNCHANGED <<service, life, copyVars, loopVars>>

----------------------------------------------------------------------------
(* The loop of the scheduler.                                               *)

(* A date that passes while an earlier one waits is not made up for: the    *)
(* next one is planned from the clock.                                      *)
BecomesDue(f) ==
    /\ service = "scheduler" /\ copy[f] = "started" /\ ~Contains(overdue, f)
    /\ overdue' = Append(overdue, f)
    /\ executed' = executed \ {f}
    /\ UNCHANGED <<service, life, mail, copy, hand, crossed, triggerFaults>>

(* Slip: the latest dates come first.                                       *)
FindForSchedulingLast == ToSet(SubSeq(overdue, Len(overdue) - Limit + 1, Len(overdue)))
FindForScheduling == ToSet(SubSeq(overdue, 1, IF Limit < Len(overdue) THEN Limit ELSE Len(overdue)))

(* A tick begins when all flows of the one before are through.               *)
ScheduleFlows ==
    /\ service = "scheduler" /\ overdue # <<>> /\ \A f \in Timed : hand[f] = "no"
    /\ hand' = [f \in Timed |-> IF f \in FindForScheduling THEN "found" ELSE "no"]
    /\ crossed' = crossed \cup {f \in FindForScheduling : InHandler(f)}
    /\ UNCHANGED <<service, life, mail, copyVars, executed, triggerFaults>>

(* Nobody awaits the publish: it may fail and the run is planned all the     *)
(* same.                                                                    *)
ScheduleFlow(f) ==
    /\ hand[f] = "found"
    /\ hand' = [hand EXCEPT ![f] = "published"]
    /\ \/ executed' = executed \cup {f} /\ UNCHANGED <<crossed, triggerFaults>>
       \/ TriggerFault /\ crossed' = crossed \cup {f} /\ UNCHANGED executed
    /\ UNCHANGED <<service, life, mail, copyVars>>

(* Slip: the next run is planned without waiting for the publisher.         *)
ReadyToPlanEarly(f) == hand[f] # "no"
ReadyToPlan(f) == hand[f] = "published"

(* save sets the date alone, of whatever copy there is now; without one, or  *)
(* if the database fails, the error is logged.                              *)
PlanNextRun(f) ==
    /\ ReadyToPlan(f)
    /\ hand' = [hand EXCEPT ![f] = "no"]
    /\ \/ /\ copy[f] # "none"
          /\ copy' = [copy EXCEPT ![f] = "started"]
          /\ overdue' = RemoveFirst(overdue, f)
          /\ UNCHANGED triggerFaults
       \/ /\ IF copy[f] = "none" THEN UNCHANGED triggerFaults ELSE TriggerFault
          /\ UNCHANGED copyVars
    /\ UNCHANGED <<service, life, mail, executed, crossed>>

(* The service ends and starts again; what is not acknowledged comes again.  *)
TriggerCrash ==
    /\ TriggerFault
    /\ hand' = [f \in Timed |-> "no"]
    /\ mail' = [i \in DOMAIN mail |->
                   IF mail[i].pc = "settled" THEN mail[i] ELSE [mail[i] EXCEPT !.pc = "queued"]]
    /\ UNCHANGED <<service, life, copyVars, executed, crossed>>

HandlerStep == \E i \in DOMAIN mail : TakeMail(i) \/ WriteCopy(i) \/ Acknowledge(i)
LoopStep == ScheduleFlows \/ \E f \in Timed : ScheduleFlow(f) \/ PlanNextRun(f)
TriggerNext ==
    \/ \E f \in Timed : PublishLife(f) \/ BecomesDue(f)
    \/ HandlerStep \/ LoopStep \/ TriggerCrash
    \/ \E i \in DOMAIN mail : HandlerFails(i)

TriggerSpec == TriggerInit /\ [][TriggerNext]_TriggerVars
TriggerFairness == WF_TriggerVars(HandlerStep) /\ WF_TriggerVars(LoopStep)

----------------------------------------------------------------------------

(* When the events of a flow are settled and the loop does not have it in    *)
(* hand, the service has a copy of exactly the flows that are its own and    *)
(* are starting or started, with a date or status exactly if started.  This  *)
(* holds across crashes and repeated deliveries; not if handlers of the flow *)
(* overlapped with each other or with the loop, or an event was rejected.    *)
QuietCopiesAreRight ==
    \A f \in Timed \ crossed :
        hand[f] = "no" /\ (\A i \in DOMAIN mail : mail[i].flow = f => mail[i].pc = "settled") =>
            copy[f] = IF life[f].own /\ life[f].last # "stopping" THEN life[f].last ELSE "none"

(* A date passes by only after its execution was published, unless an event  *)
(* of the flow was handled, or the publish failed and nobody noticed.        *)
SlotsAreNotSkipped ==
    [][\A f \in Timed \ crossed :
        Contains(overdue, f) /\ ~Contains(overdue', f) =>
            f \in executed \/ mail' # mail]_TriggerVars

(* Every date that is due is dealt with, however many flows are due at once  *)
(* and however short their intervals are.                                   *)
DueFlowsAreExecuted ==
    \A f \in Timed : Contains(overdue, f) ~> ~Contains(overdue, f)
=============================================================================
