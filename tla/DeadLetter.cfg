SPECIFICATION DeadLetterSpec
CONSTANTS
    a = a
    b = b
    w1 = w1
    w2 = w2
    r1 = r1
    i1 = i1
    q1 = q1
    q2 = q2
    NoTask = NoTask
    Task = {a, b}
    Deps <- Pair
    MaxRetries = 0
    MaxConcurrent = 1
    Instance = {i1}
    Tick = {w1, w2}
    RTick = {r1}
    Home <- OneInstance
    ClaimLimit = 10
    MaxApprovals = 0
    Events = {"PROVIDER_ERROR", "crash"}
    Request = {q1, q2}
    MaxDlqRetries = 2
    MaxEntries = 1
    MaxLost = 2
    MaxOverlaps = 3
INVARIANTS
    EntryLimit
    ActiveBound
SYMMETRY Alike
