SPECIFICATION TaskRoutesSpec
CONSTANTS
    a = a
    b = b
    w1 = w1
    r1 = r1
    i1 = i1
    q1 = q1
    x1 = x1
    x2 = x2
    NoTask = NoTask
    Task = {a, b}
    Deps <- Chain
    MaxRetries = 1
    MaxConcurrent = 1
    Instance = {i1}
    Tick = {w1}
    RTick = {r1}
    Home <- OneInstance
    ClaimLimit = 10
    MaxApprovals = 1
    Events = {"approval", "cancel", "INTERNAL_ERROR"}
    Request = {q1}
    Operations = {"approve", "reject", "resume", "retry", "execute", "complete", "fail"}
    TaskRequest = {x1, x2}
    MaxManualRetries = 1
PROPERTIES
    RunTerminal
SYMMETRY TaskRequests
CHECK_DEADLOCK FALSE
