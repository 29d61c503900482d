SPECIFICATION Spec
CONSTANTS
    NetworkGenerations = {1}
    SessionGenerations = {1}
    CandidateEpochs = {0}
    RelayEndpoints = {r1, r2}
    Incarnations = {1, 2}
    Owners = {o1, o2}
    Requests = {q1}
    DirectEndpoints = {d1, d2}
    HealthTokens = {h1}
    Retentions = {"None"}
    CompatStates = {"Connecting", "Relay"}
    None = None
    DirectFirstWindow = 1
    MaxNow = 0
    MaxAcceptedHealthObservations = 1
SYMMETRY Symmetry
INVARIANTS TypeOK ReplayHidesNoPath
PROPERTIES DirectWorkKeepsRelay CommittedProofIsStable
