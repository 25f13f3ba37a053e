\* The session holding the lease may drop, so two executions may overlap:
\* what still holds.
SPECIFICATION FairSpec
CONSTANTS
    d1 = d1
    j1 = j1
    j2 = j2
    None = None
    Docs = {d1}
    Jobs = {j1, j2}
    MaxRev = 2
    MaxAcl = 1
    Blocked = {2}
    TTL = 1
    MaxTime = 1
    MaxFaults = 1
    SessionDrops = TRUE
INVARIANTS
    BlockedNeverStored
PROPERTIES
    WithdrawnIsUnserved
