\* Two documents: what one pass reports and leaves behind, tombstones and
\* ingests together.
SPECIFICATION Spec
CONSTANTS
    d1 = d1
    d2 = d2
    j1 = j1
    j2 = j2
    None = None
    Docs = {d1, d2}
    Jobs = {j1, j2}
    MaxRev = 2
    MaxAcl = 1
    Blocked = {2}
    TTL = 1
    MaxTime = 1
    MaxFaults = 1
    SessionDrops = FALSE
SYMMETRY JobSymmetry
INVARIANTS
    TypeOK
    LeaseExclusive
    ReportedIngestHolds
    CleanPassConverges
