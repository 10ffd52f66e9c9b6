SPECIFICATION Spec
CONSTANTS
    main = main
    side = side
    alien = alien
    a = a
    b = b
    c = c
    x = x
    y = y
    t1 = t1
    user = user
    other = other
    Plain = Plain
    NoJob = NoJob
    Flows <- MainOnly
    Steps <- StepsOfLine
    FlowOf <- HomeOf
    First <- FirstStep
    NextSteps <- Line
    StartedBy <- Owners
    Privileged <- None
    Rebounding <- None
    Blocking <- None
    Stoppable <- None
    Triggers <- OneTrigger
    TriggerFlow <- TriggersMain
    External <- OneTrigger
    Prefetch = 1
    ReboundLimit = 0
    MaxJobs = 2
    MaxOutputs = 1
    MaxFaults = 0
CHECK_DEADLOCK FALSE
PROPERTY PurgedWhenOver
