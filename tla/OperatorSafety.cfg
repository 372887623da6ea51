SPECIFICATION OperatorSpec
CONSTANTS
    a = a
    b = b
    c = c
    w1 = w1
    w2 = w2
    r1 = r1
    r2 = r2
    i1 = i1
    q1 = q1
    NoTask = NoTask
    Task = {a, b, c}
    Deps <- FanIn
    MaxRetries = 1
    MaxConcurrent = 2
    Instance = {i1}
    Tick = {w1, w2}
    RTick = {r1}
    Home <- OneInstance
    ClaimLimit = 10
    MaxApprovals = 2
    Events = {"approval", "PROVIDER_ERROR", "INTERNAL_ERROR", "cancel"}
    Request = {q1}
    Operations = {"approve", "reject", "resume", "dispatch"}
INVARIANTS
    Exclusive
    DepsSafe
PROPERTIES
    SucceededIsFinal
SYMMETRY Ticks
