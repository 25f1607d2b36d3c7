SPECIFICATION Spec
CONSTANTS
    m = m
    c1 = c1
    c2 = c2
    c3 = c3
    s1 = s1
    s2 = s2
    s3 = s3
    dir = dir
    file = file
    other = other
    Overlaps <- NestedOverlaps
    Claims = {c1, c2}
    Owner <- OwnSession
    Resource <- OneResource
    Exclusive = {c1, c2}
    Waits = {c2}
    Timed = {}
    Fleet = {}
    Sweepers = {m}
    Authority = {}
    TTL = 2
    WaiterStale = 3
    RequestAttempts = 3
    MaxLost = 0
    MaxStalls = 0
PROPERTIES
    LiveOwnerKeeps
