SPECIFICATION Spec
CONSTANTS
    Agents = {a1, a2}
    Clients = {c1}
    Runs = {r1, r2}
    Claims = {p1, p2}
    Levels = {1, 2}
    Unclassified = 0
    Contents = {x, y}
    NoFile = NoFile
    Quotable = {x}
    None = None
    Relations = {"derive"}
    MaxEntries = 2
    MaxChanges = 1
    MaxRequests = 1
    MaxClock = 0
    MaxStoreFaults = 1
    MaxAuditFaults = 1
    MaxCrashes = 1
SYMMETRY AnyOrder
CHECK_DEADLOCK FALSE
INVARIANTS
    TypeOK
    ProvenanceVerified
    ClassificationMonotone
    ProcessedIsSettled
    RepeatsAreFaults
    UsableIsAudited
