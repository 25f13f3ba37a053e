\* Violation: a crash between the freshness commit and the audit record.
SPECIFICATION Spec
CONSTANTS
    d1 = d1
    j1 = j1
    None = None
    Docs = {d1}
    Jobs = {j1}
    MaxRev = 2
    MaxAcl = 1
    Blocked = {}
    TTL = 1
    MaxTime = 1
    MaxFaults = 1
    SessionDrops = FALSE
INVARIANTS
    FreshOnlyBySuccessfulIngest
