\* Violation: an execution that lost its session overwrites a newer projection.
SPECIFICATION Spec
CONSTANTS
    d1 = d1
    j1 = j1
    j2 = j2
    None = None
    Docs = {d1}
    Jobs = {j1, j2}
    MaxRev = 2
    MaxAcl = 1
    Blocked = {}
    TTL = 1
    MaxTime = 1
    MaxFaults = 1
    SessionDrops = TRUE
PROPERTIES
    NoOlderProjection
