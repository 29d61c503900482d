SPECIFICATION HandshakeSpec
CONSTANTS
    NetworkGenerations = {1}
    SessionGenerations = {1}
    CandidateEpochs = {0}
    RelayEndpoints = {r1}
    Incarnations = {1}
    Owners = {o1}
    Requests = {q1}
    DirectEndpoints = {d1}
    HealthTokens = {h1}
    Retentions = {"None"}
    CompatStates = {}
    None = None
    DirectFirstWindow = 1
    MaxNow = 1
    MaxAcceptedHealthObservations = 1
PROPERTIES OnlyDirectMachineryDemotes
