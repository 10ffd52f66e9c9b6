-------------------------- MODULE MCFlowLifecycle --------------------------
(* FlowLifecycle on small instances: one flow shows every interleaving of   *)
(* its own start and stop handling, since flows share nothing but the tick. *)
EXTENDS FlowLifecycle, TLC

CONSTANTS f1, n1, n2, o1, o2, o3

OneFlow == {f1}
OneNode == {n1}
TwoNodes == {n1, n2}
OneProcess == {o1}
TwoProcesses == {o1, o2}
============================================================================
