SPECIFICATION Spec
CONSTANTS
    f1 = f1
    n1 = n1
    n2 = n2
    o1 = o1
    o2 = o2
    o3 = o3
    Flows <- OneFlow
    Nodes <- TwoNodes
    Orchestrators <- OneProcess
    InitialReplicas <- OneProcess
    MaxRequests = 2
    MaxFaults = 1
CHECK_DEADLOCK FALSE
INVARIANTS TypeOK LaunchIsWired StoppedMeansTornDown
