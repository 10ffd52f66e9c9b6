SPECIFICATION FairSpec
CONSTANTS
    f1 = f1
    n1 = n1
    n2 = n2
    o1 = o1
    o2 = o2
    o3 = o3
    Flows <- OneFlow
    Nodes <- OneNode
    Orchestrators <- OneProcess
    InitialReplicas <- OneProcess
    MaxRequests = 3
    MaxFaults = 0
CHECK_DEADLOCK FALSE
PROPERTIES Settles
