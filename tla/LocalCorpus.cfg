\* Three requests of a tenant, the command line and the refresh on one
\* document, which is built in for the tenant; one failure and one restart.
SPECIFICATION Spec
CONSTANTS
    d1 = d1
    t1 = t1
    Shared = Shared
    Docs = {d1}
    Tenants = {t1}
    Seeds <- OneSeed
    MaxRequests = 3
    MaxInFlight = 2
    MaxFaults = 1
    MaxRestarts = 1
INVARIANTS
    TypeOK
    ErasedStaysErased
PROPERTIES
    TenantsApart
    SuccessHeals
