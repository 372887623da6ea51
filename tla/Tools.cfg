SPECIFICATION MixSpec
CONSTANTS
    a = a
    b = b
    f = f
    x = x
    y = y
    q1 = q1
    q2 = q2
    Task = {a, b}
    NoTask = NoTask
    File = {f}
    Artifact = {x, y}
    NoArtifact = NoArtifact
    Caller = {q1, q2}
    RateLimit = 2
    Tools = {"file_write", "file_read", "bash_exec", "web_search"}
    Mixes <- FilesBashAndSearch
    Faults = {"audit", "insert", "delete", "no_docker", "no_image", "direct", "unknown_tool"}
INVARIANTS
    ToolsInv
    AnswersLogged
    StoredArtifactsKept
PROPERTIES
    TasksIsolated
    SearchesSpaced
    CallsEnd
