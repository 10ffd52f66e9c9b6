SPECIFICATION Spec
CONSTANTS
    Parts = {"bus", "step", "secret", "triggers", "global", "chunks", "hub", "editing", "dispatch"}
    f1 = f1
    s1 = s1
    a1 = a1
    a2 = a2
    sa = sa
    Events = {e1, e2}
    MaxLinks = 4
    MaxBusFaults = 2
    Inputs = {m1, m2, m3}
    Unmarked = {m3}
    Prefetches = {1, 2}
    MaxSignals = 2
    MaxStarts = 2
    Requests = {r1, r2}
    Callbacks = {c1}
    Secrets = {s1, s2}
    Stored = {s1}
    RefreshTimeout = 1
    Lifetime = 1
    MaxRetry = 1
    MaxTime = 3
    MaxTokens = 3
    MaxSecretFaults = 1
    Timed = {f1, f2}
    Running = {f2}
    Limit = 1
    MaxMail = 3
    MaxTriggerFaults = 1
    Objects = {o1, o2}
    Apps = {A, B}
    Uids = {1}
    HubRequests = {q1, q2, q3}
    AutoDeletes = {TRUE, FALSE}
    EditedFlows = {f1}
    Edits = {q1, q2, q3}
    Wants = {"create", "patch", "bulk", "delete", "start", "stop", "anonymise"}
    MaxLostEvents = 1
    Admins = {a1, a2}
    Wishes <- StartAndRestart
    UserFlows = {f1}
    Passwords = {1, 2, 3, 4, 5, 6, 7}
    MaxOrders = 2
    MaxGlobalFaults = 1
    Applications = {app, src}
    Sources = {src}
    RepositoryFlows = {w1, w2, w3}
    Changes = {d1, d2}
    Records = {x1}
    MaxDispatchFaults = 1
    Cids = {k1}
    Keys = {da, db}
    Schemas = {sa, sb}
    Pieces = {pa, pb}
    Required <- Requirements
    Posts = {p1, p2}
    Splits = {z1}
    ChunkIds = {u1, u2}
CHECK_DEADLOCK FALSE
INVARIANTS TypeOK RunningIsReachable OneConnection NothingIsCutOff OwnFields OneRefresher TokenSurvives QuietCopiesAreRight AcceptedPiecesMeet OneObjectPerRecord  ListedFlowsExist
PROPERTIES StaleHandlersSettleNothing DeliversAtLeastOnce SlotsAreNotSkipped RefsAreKept 
