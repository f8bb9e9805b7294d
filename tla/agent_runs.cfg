SPECIFICATION RunsSpec
CONSTANTS
    a1 = a1
    a2 = a2
    p1 = p1
    p2 = p2
    s1 = s1
    Args = {a1, a2}
    NoApproval = NoApproval
    NoWrite = NoWrite
    Skills <- MCSkills
    RunOptions <- MCRunOptions
    Procs = {p1, p2}
    SkillNames = {s1}
    MaxLines <- MCMaxLines
    MaxKills = 1
    Commands = {p1, p2}
    WriteSteps = {1}
    MaxObservations = 2
    MaxMoves = 1
    MaxDeaths = 1
    Agents = {p1, p2}
    Decisions = {1, 2}
    MaxSegments = 3
    Receipts <- MCReceipts
    Notes <- MCNotes
    MaxRuns = 4
    MaxFailures = 2
    Handlers = {p1, p2}
    Tools = {"t1"}
    Values = {"v1", "v2"}
    PolicyLoads <- MCPolicyLoads
    LeafCap = 1
    MaxRequests = 4
    MaxStarts = 2
    Traces <- MCTraces
    Initializers = {p1, p2}
    Checkpoints = 3
    MaxInits = 4
    MaxInitDeaths = 2
    MaxWriteErrors = 1
INVARIANTS
    WritesStand
    DuplicatesFlagged
    RecordsAreAnswered
    ApprovalsHold
    VerifiedStands
    
    RecordingsHold
    CheckpointsStand
SYMMETRY MCSymmetry
CHECK_DEADLOCK FALSE
