SPECIFICATION FairSpec
CONSTANTS
    NetworkGenerations = {1, 2}
    SessionGenerations = {1, 2}
    CandidateEpochs = {0, 1}
    RelayEndpoints = {r1}
    Incarnations = {}
    Owners = {o1}
    Requests = {q1}
    DirectEndpoints = {d1}
    HealthTokens = {}
    Retentions = {"None", "DirectAndRelay"}
    CompatStates = {}
    None = None
    DirectFirstWindow = 1
    MaxNow = 1
    MaxAcceptedHealthObservations = 1
INVARIANTS ReducerClosed CommittedIffActive
PROPERTIES FencesAdvance WindowNeverRearmed StandbyRelayTakesOver
