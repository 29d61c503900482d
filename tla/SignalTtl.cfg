SPECIFICATION Spec
CONSTANTS
    Senders = {a}
    MaxNodes = 1
    MaxSeq = 2
    MaxPolls = 3
    MaxSignalsPerPair = 2
    MaxSignalBatch = 2
    Unsupported = {}
    MaxRecentSignalIds = 1
    MaxRegistrations = 2
    MaxExpiries = 1
    MaxFailures = 0
    None = None
CHECK_DEADLOCK FALSE
INVARIANTS LeaseFencesLaterRows
