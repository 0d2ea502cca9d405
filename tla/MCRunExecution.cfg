SPECIFICATION FairSpec
CONSTANTS
    old = old  new = new
    None = None
    Configs = {old, new}
    Initial = old
    Providers = {"local-process", "container"}
    Kinds = {"message", "garbage", "null"}
    MaxRuns = 2
    MaxLines = 2
    MaxWrites = 1
    MaxUpdates = 1
    MaxMishaps = 1
CHECK_DEADLOCK FALSE
INVARIANTS
    TypeOK
    EventsAreInOrder
    ChangesAreRecorded
    PinsItsVersion
PROPERTY EveryExecutionEnds
