SPECIFICATION CheckpointsFairSpec
CONSTANTS
    a = a
    q1 = q1
    q2 = q2
    q3 = q3
    Task = {a}
    Caller = {q1, q2}
    NoCaller = NoCaller
    MaxCheckpoints = 2
    MaxDelay = 2
    MaxSequence = 4
    MaxRestores = 2
INVARIANTS
    CheckpointsTypeOK
    CheckpointExists
    RestoredInTurn
PROPERTIES
    SequenceGrows
    CreateKeepsLimit
    TransactionsEnd
CHECK_DEADLOCK FALSE
