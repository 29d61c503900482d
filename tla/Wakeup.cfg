SPECIFICATION ScenarioSpec
CONSTANTS
    n1 = n1
    s3 = s3
    Nodes = {n1}
    Sockets = {s1, s2, s3}
    owner <- OneOwner
    Dialable = {s1, s2}
    Notices = {i1}
    maxConnections = 1
    sendQueueCapacity = 2
    None = None
    wakeQueue = 1
    MaxLosses = 1
    Senders = {a}
    MaxNodes = 1
    MaxSeq = 2
    MaxPolls = 2
    MaxSignalsPerPair = 2
    MaxSignalBatch = 1
    Polls = {p1, p2}
CHECK_DEADLOCK FALSE
INVARIANTS HubSound NothingSleptThrough
PROPERTIES SocketsEnd EveryRowIsPolled PollsEnd
