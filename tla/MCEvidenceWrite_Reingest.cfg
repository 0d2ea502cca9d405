SPECIFICATION Spec
CONSTANTS
    Agents = {a1}
    Clients = {c1}
    Runs = {r1, r2}
    Claims = {p1, p2}
    Levels = {1}
    Unclassified = 0
    Contents = {x}
    NoFile = NoFile
    Quotable = {x}
    None = None
    Relations = {}
    MaxEntries = 2
    MaxChanges = 0
    MaxRequests = 0
    MaxClock = 0
    MaxStoreFaults = 0
    MaxAuditFaults = 0
    MaxCrashes = 1
SYMMETRY AnyOrder
CHECK_DEADLOCK FALSE
INVARIANTS
    IngestedOnce
