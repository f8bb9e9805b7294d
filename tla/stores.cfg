SPECIFICATION StoresSpec
CONSTANTS
    Writers = {w1, w2, w3}
    Readers = {}
    MaxEvents = 4
    MaxCrashes = 4
    Nobody = Nobody
    Allocations = {1, 2, 3}
    Tasks = {t1, t2}
    Reservations = {r1}
    Amounts = {1, 2}
    FanOuts = {2}
    MaxMutations = 5
    NoParent = NoParent
    NoReservation = NoReservation
INVARIANTS
    LoadsAgain
    HeadLag
    AuditAgrees
PROPERTIES
    JournalGoesOn
    RevokedIsFrozen
CHECK_DEADLOCK FALSE
