SPECIFICATION FairSpec
CONSTANTS
    a = a
    b = b
    c = c
    d = d
    w1 = w1
    w2 = w2
    r1 = r1
    r2 = r2
    i1 = i1
    i2 = i2
    NoTask = NoTask
    Task = {a, b, c}
    Deps <- FanIn
    MaxRetries = 1
    MaxConcurrent = 2
    Instance = {i1}
    Tick = {w1, w2}
    RTick = {r1}
    Home <- OneInstance
    ClaimLimit = 10
    MaxApprovals = 0
    Events = {"no_provider", "PROVIDER_ERROR", "INTERNAL_ERROR", "routing_timeout"}
INVARIANTS
    NoLostRunning
PROPERTIES
    Settles
