SPECIFICATION HostSpec
CONSTANTS
    branch = branch
    draft = draft
    again = again
    merge = merge
    tag = tag
    p1 = p1
    p2 = p2
    q1 = q1
    q2 = q2
    Requests = {branch, draft, again, merge, tag}
    EffectOf <- MCEffectOf
    MaxDeaths = 1
    MaxForeign = 1
    Callers = {p1, p2}
    Contents = {"x", "y"}
    MaxCalls = 4
    MaxStates = 2
    Writers = {p1, p2}
    Claims = {q1, q2}
    MaxLives = 4
    Contenders = {p1, p2}
    MaxOwners = 4
    Hosts = {p1, p2}
    Inquirers = {q1, q2}
    Grants = {"g1", "g2"}
    MaxRequests = 4
    MaxSlow = 1
    Operators = {p1, p2}
    Profiles = 2
    MaxTokens = 4
    MaxMishaps = 1
    Requesters = {p1, p2}
    Semantics = {"x", "y"}
    MaxArrivals = 3
    MaxCallFailures = 1
INVARIANTS
    WrittenOnce
    ClaimsDecideOnce
    AppendedStays
    LockExclusive
    DeathsSettle
    GrantsStand
    SessionsStand
    CallsAreTrue
SYMMETRY MCSymmetry
CHECK_DEADLOCK FALSE
