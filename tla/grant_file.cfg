SPECIFICATION Spec
CONSTANTS
    r1 = r1
    r2 = r2
    j = j
    v = v
    Nobody = Nobody
    Empty = Empty
    Garbled = Garbled
    Absent = Absent
    Requests = {r1, r2}
    Revokers = {v}
    Joins = {j}
    Budget = 0
    Days = {1, 2, 3}
    Expires = 3
    MaxFaults = 1
    MaxBusy = 3
CONSTRAINT FewTakePart
SYMMETRY Symmetry
INVARIANTS BudgetKept
    FileParses
    LogAgrees
    PaidIsLogged
PROPERTIES FirstFlagWins
    ImplementsGate
