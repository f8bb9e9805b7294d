SPECIFICATION Spec
CONSTANTS
    Writers = {w1}
    Readers = {r1}
    MaxEvents = 3
    MaxCrashes = 0
    Nobody = Nobody
INVARIANTS
    LoadsAgain
