SPECIFICATION Spec
CONSTANTS
    Reservations = {1, 2}
    Allocations = {Root, Child}
    Root = Root
    Child = Child
    Tasks = {t1}
    Amounts = {1}
    FanOuts = {1}
    MaxMutations = 10
    NoParent = NoParent
    NoReservation = 0
    Grants <- MCGrants
    Accounts = {NoParent, Child}
    Wirings <- MCWirings
    MaxFaults <- MCMaxFaults
INVARIANTS
    AnswerIsVerdict
CHECK_DEADLOCK FALSE
