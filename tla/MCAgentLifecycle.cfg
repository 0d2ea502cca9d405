SPECIFICATION Spec
CONSTANTS
    Agents = {a1}
    Runs = {r1, r2}
    Clients = {c1, c2}
    NoAgent = NoAgent
    NoRun = NoRun
    Ops = {"create", "send", "start", "stop", "delete"}
    MaxStoreFaults = 1
    MaxAuditFaults = 1
    MayCrash = TRUE
SYMMETRY AnyOrder
INVARIANTS
    TypeOK
    BusyHasActiveRun
    ActiveRunIsExecuted
    OneProcessPerAgent
    AuditAgreesWithStore
    CancelWaitsForVerdict
PROPERTIES
    VerdictIsFinal
