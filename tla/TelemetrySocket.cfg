SPECIFICATION ScenarioSpec
CONSTANTS
    b1 = b1
    b2 = b2
    Boots = {b1, b2}
    incarnation <- Incarnations
    MaxTries = 2
    MaxCalls = 2
    None = None
    Peers = {p1, p2}
    Unknown = Unknown
    MaxDirty = 2
    MaxBatch = 1
    MaxCommits = 3
    MaxProcesses = 2
    MaxSockets = 1
    MaxFailures = 1
    Senders = {a}
    MaxSeq = 2
    MaxPolls = 6
    MaxSignalsPerPair = 2
    MaxRegistrations = 2
CHECK_DEADLOCK FALSE
INVARIANT AckedIsRecorded
