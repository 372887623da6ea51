SPECIFICATION ExecutionFairSpec
CONSTANTS
    a = a
    b = b
    Task = {a, b}
    Plans <- TwoPlans
    Tool = {"web_search", "file_write", "sudo"}
    HighRisk = {"file_write"}
    BlockedActions = {"sudo"}
    SandboxMode = FALSE
    Whitelists <- StreamAndTools
    Adapters <- ThreeAdapters
    Bodies <- ThinkingBody
    Replies <- ManyReplies
    BudgetLimit = 3
    DefaultLimit = 100
    MaxLoop = 2
    MaxRetries = 1
    Events = {"approve", "reject", "edit_role", "serialization"}
INVARIANTS
    ExecutionInv
    OutputWhole
    HandedOn
    BudgetStopsTools
    ToolsGranted
PROPERTIES
    ExecutionsEnd
CHECK_DEADLOCK FALSE
