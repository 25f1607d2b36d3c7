SPECIFICATION Spec
CONSTANTS
    c1 = c1
    c2 = c2
    c3 = c3
    s1 = s1
    s2 = s2
    s3 = s3
    dir = dir
    file = file
    other = other
    Overlaps <- NestedOverlaps
    Claims = {c1, c2, c3}
    Owner <- OwnSession
    Resource <- Nested
    Exclusive = {c1, c2, c3}
    Waits = {c1, c2, c3}
    Timed = {c1}
    Fleet = {}
    Sweepers = {}
    Authority = {}
    TTL = 1
    WaiterStale = 2
    RequestAttempts = 3
    MaxLost = 0
    MaxStalls = 2
INVARIANTS
    Exclusion
    LeavesQueue
PROPERTIES
    NoOvertaking
