SPECIFICATION ScenarioSpec
CONSTANTS
    c1 = c1
    c2 = c2
    c3 = c3
    n1 = n1
    n2 = n2
    i1 = i1
    i2 = i2
    Conns = {c1, c2, c3}
    Nodes = {n1, n2}
    Identities = {i1, i2, i3}
    Revocable = {i1}
    node <- TwoNodes
    identity <- TwoTickets
    Legacy = {c3}
    MaxConnections = 2
    capacity = 1
    MaxData = 1
    None = None
    PageRows = 1
    PagesPerRefresh = 2
    MaxRevision = 3
    MaxFaults = 1
    Sources = {s1, s2}
    Sizes = {1, 4}
    ControlSizes = {1, 4}
    frames = 4
    maxBytes = 12
    controlBytes = 3
CHECK_DEADLOCK FALSE
INVARIANTS RoutingSound LimitsHold CatchUpSound
PROPERTIES ConnectionsEnd RevocationsArrive
