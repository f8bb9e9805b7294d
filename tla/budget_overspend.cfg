SPECIFICATION BudgetSpec
CONSTANTS
    Allocations = {a1, a2, a3, a4}
    Tasks = {t1}
    Reservations = {r1}
    Amounts = {1, 2}
    FanOuts = {2}
    MaxMutations = 7
    NoParent = NoParent
    NoReservation = NoReservation
SYMMETRY Interchangeable
INVARIANTS
    RootConserves
CHECK_DEADLOCK FALSE
