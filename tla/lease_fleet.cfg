SPECIFICATION FairSpec
CONSTANTS
    c1 = c1
    c2 = c2
    c3 = c3
    s1 = s1
    s2 = s2
    s3 = s3
    dir = dir
    file = file
    other = other
    Overlaps <- NestedOverlaps
    Claims = {c1, c2}
    Owner <- OwnSession
    Resource <- OneResource
    Exclusive = {c1, c2}
    Waits = {c1, c2}
    Timed = {c2}
    Fleet = {c2}
    Sweepers = {}
    Authority = {}
    TTL = 1
    WaiterStale = 2
    RequestAttempts = 3
    MaxLost = 1
    MaxStalls = 2
INVARIANTS FailedHoldsNothing
PROPERTIES ImplementsLock
    WaitersServed
