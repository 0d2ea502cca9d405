SPECIFICATION Spec
CONSTANTS
    Agents = {a1}
    Runs = {r1, r2}
    Clients = {c1, c2}
    NoAgent = NoAgent
    NoRun = NoRun
    Ops = {"create", "send", "start", "stop", "delete"}
    MaxStoreFaults = 0
    MaxAuditFaults = 0
    MayCrash = FALSE
SYMMETRY AnyOrder
INVARIANTS
    OneActiveRun
