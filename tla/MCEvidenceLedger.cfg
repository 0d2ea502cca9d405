SPECIFICATION FairSpec
CONSTANTS
    e1 = e1  e2 = e2  e3 = e3  e4 = e4
    run = run  governance = governance
    Torn = Torn
    Events = {e1, e2, e3, e4}
    Chains = {run, governance}
    ChainOf <- MCChainOf
    Tears = {"partial", "newline"}
    MaxFailures = 1
    MaxEdits = 1
    MayCrash = TRUE
CHECK_DEADLOCK FALSE
INVARIANTS TypeOK AcknowledgedIsRecorded VerifiedIsGenuine VerifiedInOrder
PROPERTIES RefinesLog BrokenStaysBroken EveryAppendIsAnswered
