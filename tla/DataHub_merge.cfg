SPECIFICATION HubSpec
CONSTANTS
    Objects = {o1, o2}
    Apps = {A, B}
    Uids = {1}
    HubRequests = {q1, q2, q3}
    AutoDeletes = {TRUE}
CHECK_DEADLOCK FALSE
PROPERTY MergedRefsRemain
