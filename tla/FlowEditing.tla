----------------------------- MODULE FlowEditing -----------------------------
(***************************************************************************)
(* The documents of the flow repository: requests create, change, delete,   *)
(* start and stop a flow, reports of the orchestrators and the removal of   *)
(* a user from the owners change them too.  Every request reads the flow    *)
(* and writes it after an await.  FlowLifecycle has the other side; here    *)
(* the orchestrators only keep or drop the graph they were told to run.     *)
(*                                                                         *)
(* All requests are those of one user, who owns every flow until removed.   *)
(***************************************************************************)
EXTENDS Naturals, Sequences, SequencesExt

CONSTANTS
    EditedFlows,    \* ids of flows
    Edits,          \* requests, each made once; their names are names of graphs
    Wants,          \* kinds of requests made
    MaxLostEvents   \* bound: publishes that fail

(* A bulk update without a status is a patch: the validator refuses what is  *)
(* not inactive.  "bulk" is one whose body says that the flow is inactive.   *)
EditKinds == {"create", "patch", "bulk", "delete", "start", "stop", "anonymise"}
Graphs == Edits \cup {"first", "none"}

ASSUME EditAssumption ==
    {"first", "none"} \cap Edits = {} /\ Wants \subseteq EditKinds /\ MaxLostEvents \in Nat

VARIABLES
    doc,         \* doc[f]: the document
    edit,        \* edit[q]: a request
    line,        \* events of flows under way
    fleet,       \* fleet[f]: the graph the orchestrators run
    disturbed,   \* history: flows with requests or events that overlapped
    declared,    \* history: flows declared inactive since last started or stopped
    lostEvents

EditVars == <<doc, edit, line, fleet, disturbed, declared, lostEvents>>

Statuses == {"inactive", "starting", "active", "stopping"}
Doc == [exists : BOOLEAN, used : BOOLEAN, owned : BOOLEAN, status : Statuses, graph : Graphs]
NoDoc == [exists |-> FALSE, used |-> FALSE, owned |-> FALSE, status |-> "inactive", graph |-> "none"]
FirstDoc == [exists |-> TRUE, used |-> TRUE, owned |-> TRUE, status |-> "inactive", graph |-> "first"]
OrderKinds == {"starting", "stopping"}
ReportKinds == {"started", "stopped", "failed"}
LifeEvents == [kind : OrderKinds \cup ReportKinds, flow : EditedFlows, graph : Graphs]

(* flow: what it is about; seen: the document it has read; left: orphans    *)
(* whose stop is to be published.                                          *)
Edit == [kind : EditKinds, pc : {"new", "read", "publish", "orphans", "done"},
         flow : EditedFlows, seen : Doc, left : SUBSET EditedFlows]

EditTypeOK ==
    /\ doc \in [EditedFlows -> Doc] /\ edit \in [Edits -> Edit]
    /\ line \in Seq(LifeEvents) /\ fleet \in [EditedFlows -> Graphs]
    /\ disturbed \subseteq EditedFlows /\ declared \subseteq EditedFlows
    /\ lostEvents \in 0 .. MaxLostEvents

EditInit ==
    /\ doc \in [EditedFlows -> {NoDoc, FirstDoc}]
    /\ edit \in [Edits -> [kind : Wants, pc : {"new"}, flow : EditedFlows, seen : {NoDoc}, left : {{}}]]
    /\ line = <<>> /\ fleet = [f \in EditedFlows |-> "none"]
    /\ disturbed = {} /\ declared = {} /\ lostEvents = 0

----------------------------------------------------------------------------

(* Slip: the query of an update does not ask for the owner.                 *)
MineAnyones(f) == doc[f].exists
(* buildQuery: a flow is found by its owner.                                *)
Mine(f) == doc[f].exists /\ doc[f].owned

UnderWay(q) == edit[q].pc \in {"read", "publish", "orphans"}
Concerns(q, f) == edit[q].flow = f \/ edit[q].kind = "anonymise"
Undisturbed(f) ==
    /\ \A q \in Edits : Concerns(q, f) => ~UnderWay(q)
    /\ \A i \in DOMAIN line : line[i].flow # f

Disturb(fs) == disturbed' = disturbed \cup {f \in fs : ~Undisturbed(f)}
Step(q, pc) == edit' = [edit EXCEPT ![q].pc = pc]

CreateFlow(q) ==
    LET f == edit[q].flow IN
    /\ edit[q].kind = "create" /\ edit[q].pc = "new" /\ ~doc[f].used
    /\ doc' = [doc EXCEPT ![f] = [exists |-> TRUE, used |-> TRUE, owned |-> TRUE,
                                  status |-> "inactive", graph |-> q]]
    /\ Step(q, "done")
    /\ UNCHANGED <<line, fleet, disturbed, declared, lostEvents>>

(* Slip: no answer 409 to a request for a flow that is not inactive.        *)
GoesOnAlways(kind, status) == TRUE
(* A bulk update notes the 409 and goes on, and its own status satisfies the *)
(* validator; a start and a stop do not look.                              *)
GoesOn(kind, status) == kind \in {"patch", "delete"} => status = "inactive"

ReadFlow(q) ==
    LET f == edit[q].flow IN
    /\ edit[q].kind \in {"patch", "bulk", "delete", "start", "stop"} /\ edit[q].pc = "new"
    /\ IF Mine(f) /\ GoesOn(edit[q].kind, doc[f].status)
       THEN edit' = [edit EXCEPT ![q].pc = "read", ![q].seen = doc[f]] /\ Disturb({f})
       ELSE Step(q, "done") /\ UNCHANGED disturbed
    /\ UNCHANGED <<doc, line, fleet, declared, lostEvents>>

(* An update writes the whole document as read.  That of a bulk update is   *)
(* inactive, whatever runs.                                                *)
WriteFlow(q) ==
    LET f == edit[q].flow
        kind == edit[q].kind
    IN
    /\ kind # "anonymise" /\ edit[q].pc = "read"
    /\ \/ ~Mine(f) /\ Step(q, "done") /\ UNCHANGED <<doc, declared>>
       \/ /\ Mine(f) /\ kind \in {"patch", "bulk"}
          /\ doc' = [doc EXCEPT ![f] = [edit[q].seen EXCEPT !.graph = q, !.status = "inactive"]]
          /\ declared' = IF doc[f].status = "inactive" THEN declared ELSE declared \cup {f}
          /\ Step(q, "done")
       \/ /\ Mine(f) /\ kind = "delete"
          /\ doc' = [doc EXCEPT ![f] = [NoDoc EXCEPT !.used = TRUE]]
          /\ Step(q, "done")
          /\ UNCHANGED declared
       \/ /\ Mine(f) /\ kind \in {"start", "stop"}
          /\ doc' = [doc EXCEPT ![f].status = IF kind = "start" THEN "starting" ELSE "stopping"]
          /\ edit' = [edit EXCEPT ![q].pc = "publish", ![q].seen = doc'[f]]
          /\ declared' = declared \ {f}
    /\ UNCHANGED <<line, fleet, disturbed, lostEvents>>

Says(kind, f, graph) == Append(line, [kind |-> kind, flow |-> f, graph |-> graph])

(* publishQueue logs what goes wrong.                                       *)
PublishOrNot(kind, f, graph) ==
    \/ line' = Says(kind, f, graph) /\ UNCHANGED <<disturbed, lostEvents>>
    \/ /\ lostEvents < MaxLostEvents /\ lostEvents' = lostEvents + 1
       /\ disturbed' = disturbed \cup {f}
       /\ UNCHANGED line

PublishFlow(q) ==
    /\ edit[q].pc = "publish"
    /\ PublishOrNot(IF edit[q].kind = "start" THEN "starting" ELSE "stopping",
                    edit[q].flow, edit[q].seen.graph)
    /\ Step(q, "done")
    /\ UNCHANGED <<doc, fleet, declared>>

(* The event that a user is deleted: anonymise, then cleanupOrphans.        *)
Anonymise(q) ==
    /\ edit[q].kind = "anonymise" /\ edit[q].pc = "new"
    /\ doc' = [f \in EditedFlows |-> [doc[f] EXCEPT !.owned = FALSE]]
    /\ Step(q, "read")
    /\ Disturb(EditedFlows)
    /\ UNCHANGED <<line, fleet, declared, lostEvents>>

(* Slip: the flows that the repository has started itself.                  *)
OrphansStarting == {f \in EditedFlows : doc[f].exists /\ ~doc[f].owned /\ doc[f].status = "starting"}
Orphans == {f \in EditedFlows : doc[f].exists /\ ~doc[f].owned /\ doc[f].status = "active"}

CleanupOrphans(q) ==
    /\ edit[q].kind = "anonymise"
    /\ \/ /\ edit[q].pc = "read"
          /\ edit' = [edit EXCEPT ![q].pc = "orphans", ![q].left = Orphans]
          /\ UNCHANGED <<line, disturbed, lostEvents>>
       \/ /\ edit[q].pc = "orphans" /\ edit[q].left = {} /\ Step(q, "done")
          /\ UNCHANGED <<line, disturbed, lostEvents>>
       \/ \E f \in edit[q].left :
             /\ edit[q].pc = "orphans"
             /\ PublishOrNot("stopping", f, doc[f].graph)
             /\ edit' = [edit EXCEPT ![q].left = @ \ {f}]
    /\ UNCHANGED <<doc, fleet, declared>>

----------------------------------------------------------------------------
(* Events are taken in the order of their publication.                      *)

FirstOfKinds(i, kinds) ==
    line[i].kind \in kinds /\ \A j \in 1 .. i - 1 : line[j].kind \notin kinds
Without(i) == RemoveAt(line, i)

(* The orchestrators, who acknowledge a stop of an unknown flow in silence. *)
OrchestratorsServe(i) ==
    LET e == line[i]
        f == e.flow
    IN
    /\ FirstOfKinds(i, OrderKinds)
    /\ \/ /\ e.kind = "starting"
          /\ fleet' = [fleet EXCEPT ![f] = e.graph]
          /\ \E report \in {"started", "failed"} :
                line' = Append(Without(i), [kind |-> report, flow |-> f, graph |-> e.graph])
       \/ /\ e.kind = "stopping" /\ fleet[f] # "none"
          /\ fleet' = [fleet EXCEPT ![f] = "none"]
          /\ line' = Append(Without(i), [kind |-> "stopped", flow |-> f, graph |-> e.graph])
       \/ /\ e.kind = "stopping" /\ fleet[f] = "none"
          /\ line' = Without(i)
          /\ UNCHANGED fleet
    /\ UNCHANGED <<doc, edit, disturbed, declared, lostEvents>>

(* Slip: the name of the report is stored.                                  *)
ReportedStatusRaw(kind) == kind
ReportedStatus(kind) ==
    CASE kind = "started" -> "active"
      [] kind = "stopped" -> "inactive"
      [] kind = "failed" -> "stopping"

(* flowStarted, flowStopped and flowFailed; the last one publishes a stop.  *)
TakeReport(i) ==
    LET e == line[i]
        f == e.flow
    IN
    /\ FirstOfKinds(i, ReportKinds)
    /\ doc' = IF doc[f].exists THEN [doc EXCEPT ![f].status = ReportedStatus(e.kind)] ELSE doc
    /\ line' = IF doc[f].exists /\ e.kind = "failed"
               THEN Append(Without(i), [kind |-> "stopping", flow |-> f, graph |-> doc[f].graph])
               ELSE Without(i)
    /\ UNCHANGED <<edit, fleet, disturbed, declared, lostEvents>>

GoOn == \E q \in Edits : WriteFlow(q) \/ PublishFlow(q) \/ CleanupOrphans(q)
Serve == \E i \in DOMAIN line : OrchestratorsServe(i) \/ TakeReport(i)
EditNext ==
    \/ \E q \in Edits : CreateFlow(q) \/ ReadFlow(q) \/ Anonymise(q)
    \/ GoOn \/ Serve

EditSpec == EditInit /\ [][EditNext]_EditVars
(* Requests that have begun go on, events are delivered.                    *)
EditFairness == WF_EditVars(GoOn) /\ WF_EditVars(Serve)

----------------------------------------------------------------------------

(* When nothing is under way for a flow whose document says active, the     *)
(* orchestrators run the graph that is stored; when it says anything else,  *)
(* or the flow is deleted, they run nothing, unless a bulk update declared  *)
(* the flow inactive while it ran and nobody has started or stopped it      *)
(* since.  So after any requests, refused ones and failed starts included,  *)
(* provided that none began before the last one, its events and their       *)
(* reports were through, and no publish was lost.                          *)
QuietFlowsAgree ==
    \A f \in EditedFlows \ disturbed :
        Undisturbed(f) =>
            IF doc[f].exists /\ doc[f].status = "active"
            THEN fleet[f] = doc[f].graph
            ELSE fleet[f] = "none" \/ f \in declared

(* What a flow is while nothing has overlapped, see FlowLife.               *)
Orderly(f) == f \notin disturbed /\ doc[f].exists
LifeStatus(f) ==
    CASE f \in disturbed -> "disturbed"
      [] Orderly(f) -> doc[f].status
      [] OTHER -> IF doc[f].used THEN "deleted" ELSE "absent"
LifeGraph(f) == IF Orderly(f) THEN doc[f].graph ELSE "none"
LifeRuns(f) == IF f \in disturbed THEN "none" ELSE fleet[f]
LifeOwned(f) == Orderly(f) /\ doc[f].owned
LifeDeclared(f) == f \notin disturbed /\ f \in declared

(* Requests that read and write after awaits, events and reports amount to   *)
(* the life of FlowLife for each flow: it is changed by its owner and becomes *)
(* inactive by that, is deleted only when inactive, launched as stored by a  *)
(* start only, halted only by a stop or when nobody owns it.                *)
Life(f) == INSTANCE FlowLife WITH Versions <- Graphs \ {"none"}, status <- LifeStatus(f),
    graph <- LifeGraph(f), runs <- LifeRuns(f), owned <- LifeOwned(f), declared <- LifeDeclared(f)
LivesAreInOrder ==
    /\ \A f \in EditedFlows : Life(f)!Init
    /\ [][\A f \in EditedFlows : UNCHANGED Life(f)!vars \/ Life(f)!Next]_EditVars

(* A running flow that loses its last owner is stopped.  Not so if the user *)
(* was deleted while a request or a report was under way for it, or after a  *)
(* bulk update declared it inactive: only a flow that is active is an orphan. *)
OrphansAreStopped ==
    \A f \in EditedFlows :
        fleet[f] # "none" /\ ~Mine(f) ~> fleet[f] = "none" \/ f \in disturbed \cup declared
=============================================================================
