SPECIFICATION MixSpec
CONSTANTS
    r1 = r1
    r2 = r2
    s1 = s1
    s2 = s2
    Socket = {s1, s2}
    NoSocket = NoSocket
    MaxMounts = 2
    MaxOutages = 1
    Run = {r1, r2}
    NoRun = NoRun
    Mixes <- SocketsPollsAndCommands
    Commands = {"create", "cancel", "resume"}
    MaxSelections = 1
    MaxCommands = 1
    MaxMoves = 2
    MaxFailures = 1
INVARIANTS
    LiveInv
PROPERTIES
    Reconnects
    PollingCatchesUp
CHECK_DEADLOCK FALSE
