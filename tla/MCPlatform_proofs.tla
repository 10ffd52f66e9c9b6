-------------------------- MODULE MCPlatform_proofs --------------------------
(***************************************************************************)
(* The platform, of which one part runs while the others rest: it behaves  *)
(* like each of its parts, and has what was proved of them.  So what a run  *)
(* checks of the platform holds for all constants.                          *)
(***************************************************************************)
EXTENDS MCPlatform, Processes_proofs, SecretRefresh_proofs, Triggers_proofs,
        GlobalComponents_proofs, Documents_proofs

(* A part at rest is in an initial state of its own.                        *)
LEMMA PlatformBegins ==
    Init => /\ BusInit /\ StepInit /\ SecretInit /\ TriggerInit /\ HubInit
            /\ EditInit /\ GlobalInit /\ DispatchInit /\ ChunksInit
BY DEF Init

(* A step of the platform is one of the part that runs, for the others none. *)
LEMMA PlatformSteps ==
    ASSUME [Next]_vars
    PROVE  /\ [BusNext]_BusVars /\ [StepNext]_StepVars /\ [SecretNext]_SecretVars
           /\ [TriggerNext]_TriggerVars /\ [HubNext]_HubVars /\ [EditNext]_EditVars
           /\ [GlobalNext]_GlobalVars /\ [DispatchNext]_DispatchVars /\ [ChunksNext]_ChunkVars
BY DEF Next, vars

(* Seen alone, each part behaves as its own specification says: the platform *)
(* that the runs check adds no behaviour to it.                             *)
THEOREM PartsBehave ==
    Spec => /\ BusSpec /\ StepSpec /\ SecretSpec /\ TriggerSpec /\ HubSpec
            /\ EditSpec /\ GlobalSpec /\ DispatchSpec /\ ChunksSpec
BY PlatformBegins, PlatformSteps, PTL
   DEF Spec, BusSpec, StepSpec, SecretSpec, TriggerSpec, HubSpec, EditSpec, GlobalSpec,
       DispatchSpec, ChunksSpec

(* The variables of all parts have their types, whichever part runs.         *)
THEOREM PlatformTypesHold == Spec => []TypeOK
BY PartsBehave, BusTypesHold, StepTypesHold, SecretTypesHold, TriggerTypesHold, HubTypesHold,
   EditTypesHold, GlobalTypesHold, DispatchTypesHold, ChunkTypesHold, PTL DEF TypeOK

(* What the parts promise in every state and step, promised by the platform. *)
THEOREM PlatformIsSafe ==
    Spec => /\ [](OneConnection /\ NothingIsCutOff /\ OwnFields /\ OneRefresher /\ TokenSurvives)
            /\ [](QuietCopiesAreRight /\ RunningIsReachable /\ QuietFlowsAgree)
            /\ [](AcceptedPiecesMeet /\ OneObjectPerRecord /\ ListedFlowsExist)
            /\ StaleHandlersSettleNothing /\ DeliversAtLeastOnce
            /\ SlotsAreNotSkipped /\ RefsAreKept
            /\ LivesAreInOrder /\ InputsAreHandedOver
BY PartsBehave, OneConnectionHolds, NothingIsCutOffHolds, OwnFieldsHolds, OneRefresherHolds,
   TokenSurvivesHolds, QuietCopiesAreRightHolds, RunningIsReachableHolds, QuietFlowsAgreeHolds,
   AcceptedPiecesMeetHold, OneObjectPerRecordHolds, ListedFlowsExistHolds, StaleHandlersHold,
   BusKeepsItsPromise, SlotsAreNotSkippedHolds, RefsAreKeptHolds,
   LivesAreInOrderHolds, InputsAreHandedOverHolds, PTL
=============================================================================
