SPECIFICATION FairSpec
CONSTANTS
    a = a  b = b  c = c
    r1 = r1  r2 = r2  r3 = r3  x = x  y = y
    o1 = o1  o2 = o2  o3 = o3  c1 = c1  c2 = c2  c3 = c3  k1 = k1  k2 = k2
    Intents = {a, b, c}
    IngressKeys = {r1, r2, r3}
    Bodies = {x}
    OutcomeKeys = {o1, o2}
    CapabilityIds = {c1, c2, c3}
    CapabilityBytes = {x}
    LimitKeys = {k1, k2}
    Intent <- LimitIntents
    Lifetime = 1
    MaxTime = 0
    MaxFailures = 2
    DispatchModes = {}
    NoIntent = NoIntent
    NoBody = NoBody
CHECK_DEADLOCK TRUE
INVARIANTS LimitCapacity NoSpuriousCorruption
PROPERTIES PendingDecided
