SPECIFICATION ScenarioSpec
CONSTANTS
    Base = 4
    Ceiling = 9
    Granularity = 2
    MaxRetries = 1
    Mtus = {3, 7, 9}
    Workers = {1, 2}
    Nonces = {1, 2, 3}
    Revs = {1, 2, 3}
    MaxPaths = 2
    MaxMtuChanges = 1
    MaxFaults = 1
    MaxInbound = 1
    MaxSends = 1
    Lanes = {w1}
    Others = {o1}
    MaxEvents = 3
    MaxTraffic = 2
    Tokens = {1, 2}
    MaxPending = 2
    PendingGrace = 1
    PreviousGrace = 1
    ReplayGrace = 2
    CacheTtl = 2
    RekeyAfter = 2
    InitiatorTimeout = 1
    MaxMishaps = 2
\* Without a Direct path nothing of the module runs.
CHECK_DEADLOCK FALSE
INVARIANTS AnswersAndTokens InstalledKeyIsHeld
PROPERTIES ImplementsDirectBudget BudgetSettlesEverywhere LoopReturns NeverRolledBack EndsAgree
