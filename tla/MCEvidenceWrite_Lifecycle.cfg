SPECIFICATION FairSpec
CONSTANTS
    Agents = {a1}
    Clients = {c1, c2}
    Runs = {r1, r2}
    Claims = {p1, p2}
    Levels = {1}
    Unclassified = 0
    Contents = {x}
    NoFile = NoFile
    Quotable = {x}
    None = None
    Relations = {"replace"}
    MaxEntries = 1
    MaxChanges = 0
    MaxRequests = 2
    MaxClock = 1
    MaxStoreFaults = 0
    MaxAuditFaults = 1
    MaxCrashes = 0
CHECK_DEADLOCK FALSE
INVARIANTS
    OneVersionKnown
    SupersededHasReplacement
PROPERTIES
    HistoryKept
    RefinesStore
    EverythingEnds
