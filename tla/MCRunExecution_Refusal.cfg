SPECIFICATION Spec
CONSTANTS
    old = old  new = new
    None = None
    Configs = {old}
    Initial = old
    Providers = {"local-process"}
    Kinds = {"message"}
    MaxRuns = 1
    MaxLines = 2
    MaxWrites = 0
    MaxUpdates = 0
    MaxMishaps = 1
CHECK_DEADLOCK FALSE
INVARIANT RefusalFailsTheRun
