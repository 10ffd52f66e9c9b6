------------------------------ MODULE MCPlatform ------------------------------
(* The parts of the platform that share nothing in their models.  A          *)
(* behaviour runs one part and leaves the others at rest, so one run takes   *)
(* the sum of their state spaces.                                           *)
EXTENDS EventBus, StepProcess, SecretRefresh, Triggers,
        DataHub, FlowEditing, GlobalComponents, Dispatch, Chunks, TLC

CONSTANTS Parts, f1, s1, a1, a2, sa

VARIABLE part

vars == <<part, BusVars, StepVars, SecretVars, TriggerVars, HubVars, EditVars, GlobalVars,
          DispatchVars, ChunkVars>>

StartAndRestart == {a1 :> "start" @@ a2 :> "restart"}
StartAndStop == {a1 :> "start" @@ a2 :> "stop"}

(* What the schema sa requires; another one requires nothing.               *)
Requirements == [s \in Schemas |-> IF s = sa THEN Pieces ELSE {}]

TypeOK ==
    /\ BusTypeOK /\ StepTypeOK /\ SecretTypeOK /\ TriggerTypeOK
    /\ HubTypeOK /\ EditTypeOK /\ GlobalTypeOK /\ DispatchTypeOK /\ ChunkTypeOK

(* Each part starts, or is at rest: a service that is not connected any      *)
(* more, a process that is not started again, requests that are not made.   *)
Init ==
    /\ part \in Parts
    /\ closed = (part # "bus") /\ BusInit
    /\ starts = (IF part = "step" THEN 0 ELSE MaxStarts) /\ StepInit
    /\ part # "step" => prefetch = 1
    /\ SecretInit
    /\ part # "secret" => /\ \A r \in Requests : request[r].id = s1
                         /\ \A c \in Callbacks : oauth[c].id = s1
    /\ TriggerInit
    /\ service = "scheduler" => part = "triggers"
    /\ HubInit
    /\ EditInit
    /\ part # "editing" => /\ \A f \in EditedFlows : doc[f] = FirstDoc
                          /\ \A q \in Edits : edit[q].kind = "start"
    /\ GlobalInit
    /\ DispatchInit
    /\ ChunksInit
    /\ part # "dispatch" => \A q \in Changes : change[q].kind = "add"

Next ==
    \/ /\ part = "bus" /\ BusNext
       /\ UNCHANGED <<part, StepVars, SecretVars, TriggerVars, HubVars, EditVars, GlobalVars, DispatchVars, ChunkVars>>
    \/ /\ part = "step" /\ StepNext
       /\ UNCHANGED <<part, BusVars, SecretVars, TriggerVars, HubVars, EditVars, GlobalVars, DispatchVars, ChunkVars>>
    \/ /\ part = "secret" /\ SecretNext
       /\ UNCHANGED <<part, BusVars, StepVars, TriggerVars, HubVars, EditVars, GlobalVars, DispatchVars, ChunkVars>>
    \/ /\ part = "triggers" /\ TriggerNext
       /\ UNCHANGED <<part, BusVars, StepVars, SecretVars, HubVars, EditVars, GlobalVars, DispatchVars, ChunkVars>>
    \/ /\ part = "hub" /\ HubNext
       /\ UNCHANGED <<part, BusVars, StepVars, SecretVars, TriggerVars, EditVars, GlobalVars, DispatchVars, ChunkVars>>
    \/ /\ part = "editing" /\ EditNext
       /\ UNCHANGED <<part, BusVars, StepVars, SecretVars, TriggerVars, HubVars, GlobalVars, DispatchVars, ChunkVars>>
    \/ /\ part = "global" /\ GlobalNext
       /\ UNCHANGED <<part, BusVars, StepVars, SecretVars, TriggerVars, HubVars, EditVars, DispatchVars, ChunkVars>>
    \/ /\ part = "dispatch" /\ DispatchNext
       /\ UNCHANGED <<part, BusVars, StepVars, SecretVars, TriggerVars, HubVars, EditVars, GlobalVars, ChunkVars>>
    \/ /\ part = "chunks" /\ ChunksNext
       /\ UNCHANGED <<part, BusVars, StepVars, SecretVars, TriggerVars, HubVars, EditVars, GlobalVars, DispatchVars>>

Spec == Init /\ [][Next]_vars

(* Nothing that must happen can happen in a part at rest.                    *)
FairSpec ==
    /\ Spec
    /\ BusFairness /\ StepFairness /\ SecretFairness /\ TriggerFairness
    /\ EditFairness /\ GlobalFairness
=============================================================================
