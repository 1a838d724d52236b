SPECIFICATION Spec
CONSTANTS
    u1 = u1
    u2 = u2
    u3 = u3
    r1 = r1
    r2 = r2
    k1 = k1
    e1 = e1
    e2 = e2
    Users = {u1, u2, u3}
    Requests = {r1, r2}
    Production = {r1}
    CanonicalOnly = {}
    ProductionEnabled = TRUE
    ExecIds = {e1, e2}
    Keys = {k1}
    NoKey = NoKey
    LeaseSeconds = 1
    Times = {0, 1}
    NoLease = NoLease
    NoUser = NoUser
    NoRequest = NoRequest
    MaxStops = 1
INVARIANTS
    QuorumBeforeExecution
    RequestTracksExecution
    OneReceiptPerOutcome
    TrailTellsStatus
    AdapterRunsOnce
    KeyNamesOneExecution
PROPERTIES
    LiveWorkerSettles
