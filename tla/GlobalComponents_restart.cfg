SPECIFICATION Spec
CONSTANTS
    Parts = {"global"}
    f1 = f1
    s1 = s1
    a1 = a1
    a2 = a2
    sa = sa
    Events = {e1, e2}
    MaxLinks = 4
    MaxBusFaults = 2
    Inputs = {m1, m2, m3}
    Unmarked = {m3}
    Prefetches = {1, 2}
    MaxSignals = 2
    MaxStarts = 2
    Requests = {r1, r2}
    Callbacks = {}
    Secrets = {s1}
    Stored = {s1}
    RefreshTimeout = 1
    Lifetime = 1
    MaxRetry = 1
    MaxTime = 3
    MaxTokens = 3
    MaxSecretFaults = 1
    Timed = {f1, f2}
    Running = {f2}
    Limit = 1
    MaxMail = 2
    MaxTriggerFaults = 1
    Objects = {o1}
    Apps = {A, B}
    Uids = {1}
    HubRequests = {q1}
    AutoDeletes = {TRUE, FALSE}
    EditedFlows = {f1}
    Edits = {q1, q2, q3}
    Wants = {"start", "stop", "anonymise"}
    MaxLostEvents = 0
    Admins = {a1, a2}
    Wishes <- StartAndRestart
    UserFlows = {}
    Passwords = {1, 2, 3, 4, 5, 6, 7}
    MaxOrders = 3
    MaxGlobalFaults = 0
    Applications = {src}
    Sources = {src}
    RepositoryFlows = {w1}
    Changes = {d1}
    Records = {}
    MaxDispatchFaults = 0
    Cids = {k1}
    Keys = {da}
    Schemas = {sa}
    Pieces = {pa}
    Required <- Requirements
    Posts = {p1, p2, p3}
    Splits = {z1}
    ChunkIds = {u1, u2}
CHECK_DEADLOCK FALSE
INVARIANT RestartedComponentsRun
