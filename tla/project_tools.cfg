SPECIFICATION ProjectSpec
CONSTANTS
    p1 = p1
    p2 = p2
    q1 = q1
    q2 = q2
    PolicyFilePairs <- MCPolicyFilePairs
    Candidates <- MCCandidates
    Adapters <- MCAdapters
    Servers <- MCServers
    ConnectionFiles <- MCConnectionFiles
    Configurers = {p1, p2}
    MaxPlans = 3
    MaxHostEdits = 1
    MaxConfigDeaths = 1
    Surveyed <- MCSurveyed
    RouteFindings <- MCFindings
    MaxSurveys = 2
    MaxDiskEdits = 1
    Clients = {p1, p2}
    MaxVisits = 3
    MaxCuts = 1
    MaxStops = 1
    Ceremonies = {p1, p2}
    ParameterFiles <- MCParameterFiles
    KeyRings <- MCKeyRings
    PinnedKey = "k"
    Heads <- MCHeads
    Tarballs = {"x1", "x2"}
    OutputPaths = {q1, q2}
    Instants = {0, 1}
    Window = 2
    MaxClock = 2
    Preparers = {p1, p2}
    OperatorConfigs = {"A", "B"}
    FilledConfigs = {"A"}
    TrustHistories <- MCTrustHistories
    AuthorizationTimes = {1, 2}
    MaxInputEdits = 3
    MaxStageMishaps = 1
    MaxSigned = 1
    Checkers = {p1, p2}
    RootEffects = 1
    Modes = {"hermetic"}
    MaxWorldChanges = 1
    MaxHistory = 3
    MaxActivations = 2
    MaxSnapshots = 3
INVARIANTS
    PolicyAsWritten
    
    
    CertificationIsTrue
    ReleaseIsAsSigned
    CertifiedStands
SYMMETRY MCSymmetry
CHECK_DEADLOCK FALSE
