SPECIFICATION ExecutionFairSpec
CONSTANTS
    a = a
    b = b
    Task = {a}
    Plans <- OneTask
    Tool = {"web_search", "file_write", "sudo"}
    HighRisk = {"file_write"}
    BlockedActions = {"sudo"}
    SandboxMode = FALSE
    Whitelists <- FileTools
    Adapters <- ThreeAdapters
    Bodies <- ThinkingBody
    Replies <- ManyReplies
    BudgetLimit = 3
    DefaultLimit = 100
    MaxLoop = 2
    MaxRetries = 1
    Events = {"approve"}
PROPERTIES
    ApprovedProceeds
CHECK_DEADLOCK FALSE
