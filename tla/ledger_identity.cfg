SPECIFICATION Spec
CONSTANTS
    a = a  b = b  c = c
    r1 = r1  r2 = r2  r3 = r3  x = x  y = y
    o1 = o1  o2 = o2  o3 = o3  c1 = c1  c2 = c2  c3 = c3  k1 = k1  k2 = k2
    Intents = {a, b, c}
    IngressKeys = {r1, r2}
    Bodies = {x}
    OutcomeKeys = {o1, o2}
    CapabilityIds = {c1, c2}
    CapabilityBytes = {x, y}
    LimitKeys = {k1}
    Intent <- IdentityIntents
    Lifetime = 1
    MaxTime = 2
    MaxFailures = 1
    DispatchModes = {"transition", "prepared"}
    NoIntent = NoIntent
    NoBody = NoBody
CHECK_DEADLOCK TRUE
INVARIANTS TypeOK UniqueReservations PermissionOnce
PROPERTIES SweepSparesStarted DecisionsStand ImplementsRegistry
