\* One document, up to three revisions and two failures, two expiries:
\* every way its passes can be interrupted and repeated, and what they repair.
SPECIFICATION FairSpec
CONSTANTS
    d1 = d1
    j1 = j1
    j2 = j2
    None = None
    Docs = {d1}
    Jobs = {j1, j2}
    MaxRev = 3
    MaxAcl = 2
    Blocked = {2}
    TTL = 1
    MaxTime = 2
    MaxFaults = 2
    SessionDrops = FALSE
INVARIANTS
    HiddenWhileReingesting
    ServedIsWhatLedgerRecords
    EveryCopyHasARow
    UnservedIsRetried
PROPERTIES
    NoOlderProjection
    ImplementsServedCorpus
    WithdrawnIsTombstoned
    PublishedIsFresh
