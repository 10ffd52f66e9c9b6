SPECIFICATION Spec
CONSTANTS
    main = main
    side = side
    alien = alien
    a = a
    b = b
    c = c
    x = x
    y = y
    t1 = t1
    user = user
    other = other
    Plain = Plain
    NoJob = NoJob
    Flows <- ThreeFlows
    Steps <- StepsOfThree
    FlowOf <- HomeOf
    First <- FirstStep
    NextSteps <- Alone
    StartedBy <- Owners
    Privileged <- StepsOfBoth
    Rebounding <- StepX
    Blocking <- StepX
    Stoppable <- None
    Triggers <- OneTrigger
    TriggerFlow <- TriggersMain
    External <- None
    Prefetch = 1
    ReboundLimit = 1
    MaxJobs = 3
    MaxOutputs = 1
    MaxFaults = 0
CHECK_DEADLOCK FALSE
INVARIANTS ExecutionsStayWithTheirUser
