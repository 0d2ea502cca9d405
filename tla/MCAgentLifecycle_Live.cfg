SPECIFICATION FairSpec
CONSTANTS
    Agents = {a1}
    Runs = {r1, r2}
    Clients = {c1, c2}
    NoAgent = NoAgent
    NoRun = NoRun
    Ops = {"create", "send", "stop", "delete"}
    MaxStoreFaults = 0
    MaxAuditFaults = 0
    MayCrash = TRUE
PROPERTIES
    EveryoneIsAnswered
