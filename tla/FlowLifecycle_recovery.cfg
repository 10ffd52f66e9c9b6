SPECIFICATION FairSpec
CONSTANTS
    f1 = f1
    n1 = n1
    n2 = n2
    o1 = o1
    o2 = o2
    o3 = o3
    Flows <- OneFlow
    Nodes <- OneNode
    Orchestrators <- TwoProcesses
    InitialReplicas <- OneProcess
    MaxRequests = 2
    MaxFaults = 1
CHECK_DEADLOCK FALSE
PROPERTIES StartedFlowsAreDeployed StopsAreServed LostAppsAreDestroyed
